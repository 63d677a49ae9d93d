----------------------- MODULE BusinessServiceProofs -----------------------
(***************************************************************************)
(* Theorems about BusinessService for any number of threads, sockets,       *)
(* accounts and rooms.                                                      *)
(***************************************************************************)
EXTENDS BusinessService, Naturals, TLAPS

(* What a handler's local variables hold while it is busy: RoomMake and      *)
(* RoomEnter carry a room name and UserEnter a login text.                   *)
LocalsOK ==
  \A t \in Threads :
    /\ pc[t] # "idle" => loc[t].sock \in Sockets
    /\ loc[t].op \in {"ROOM_MAKE", "ROOM_ENTER"} => loc[t].name \in Rooms
    /\ (pc[t] = "getStatus" /\ loc[t].op = "USER_ENTER") => loc[t].id \in Ids
    /\ pc[t] = "roomMake" => loc[t].op = "ROOM_MAKE"
    /\ pc[t] \in {"userEnter", "initUser"} => loc[t].op = "USER_ENTER" /\ loc[t].id \in Ids

Inv == TypeOK /\ LocalsOK

USE ConstantsAssumption

(* The labels a handler or a RecvThread passes through are all in Labels.    *)
LEMMA LabelsFacts ==
  {"idle", "getStatus", "userEnter", "initUser", "statusWait", "statusChat", "handler", "talk",
   "roomMake", "makeSession", "roomEnter", "enterSession", "enterList", "friendGo", "friendRoom",
   "friendSession", "friendList", "logout", "logoutErase", "banCopy", "readId", "eraseId",
   "readStatus", "readRoom", "list", "reset", "erase", "drop", "exitLive", "exitFind"} \subseteq Labels
BY DEF Labels, SessionSteps, UnlockedSessionSteps, SessionWriters, UnlockedRoomSteps

(* What Dispatch stores for a packet has the type of a handler's locals.     *)
LEMMA PacketFacts ==
  ASSUME NEW p \in Packets
  PROVE  /\ p[1] \in Ops
         /\ p[2] \in Rooms \cup Nicks \cup {Empty}
         /\ p[3] \in Ids \cup {Empty}
         /\ p[1] \in {"ROOM_MAKE", "ROOM_ENTER"} => p[2] \in Rooms
         /\ p[1] = "USER_ENTER" => p[3] \in Ids
BY DEF Packets, Ops, HandlerOps

(* The locals of an idle thread have the type of a handler's locals.         *)
LEMMA NoLocFacts ==
  /\ NoLoc \in Local
  /\ NoLoc.op = "OTHER"
BY DEF NoLoc, Local, Ops, RoomNames

(* What Inv says of pc and loc.                                              *)
ControlOK == pc \in [Threads -> Labels] /\ loc \in [Threads -> Local] /\ LocalsOK

(* A handler that goes on to another label keeps its locals typed.           *)
LEMMA GotoInv ==
  ASSUME Inv, NEW t \in Threads, NEW l \in Labels, Goto(t, l), pc[t] # "idle",
         l = "roomMake" => loc[t].op = "ROOM_MAKE",
         l # "getStatus",
         l \in {"userEnter", "initUser"} => loc[t].op = "USER_ENTER" /\ loc[t].id \in Ids
  PROVE  ControlOK'
<1>1. pc' \in [Threads -> Labels] /\ loc' = loc
  BY DEF Inv, TypeOK, Goto
<1>2. \A u \in Threads : pc'[u] = IF u = t THEN l ELSE pc[u]
  BY DEF Inv, TypeOK, Goto
<1>3. QED
  BY <1>1, <1>2 DEF Inv, TypeOK, LocalsOK, ControlOK

(* So does one that has noted the name of a room.                            *)
LEMMA NoteRoomInv ==
  ASSUME Inv, NEW t \in Threads, NEW l \in Labels, NEW r \in RoomNames,
         pc' = [pc EXCEPT ![t] = l], loc' = [loc EXCEPT ![t].room = r],
         pc[t] # "idle", l \notin {"getStatus", "roomMake", "userEnter", "initUser"}
  PROVE  ControlOK'
<1>1. pc' \in [Threads -> Labels] /\ loc' \in [Threads -> Local]
  BY DEF Inv, TypeOK, Local
<1>2. \A u \in Threads :
        /\ pc'[u] = IF u = t THEN l ELSE pc[u]
        /\ loc'[u].sock = loc[u].sock /\ loc'[u].op = loc[u].op
        /\ loc'[u].name = loc[u].name /\ loc'[u].id = loc[u].id
  BY DEF Inv, TypeOK, Local
<1>3. QED
  BY <1>1, <1>2 DEF Inv, LocalsOK, ControlOK

(* A handler that ends leaves the locals of an idle thread.                  *)
LEMMA DoneInv ==
  ASSUME Inv, NEW t \in Threads, Done(t)
  PROVE  ControlOK'
<1>1. pc' \in [Threads -> Labels] /\ loc' \in [Threads -> Local]
  BY LabelsFacts, NoLocFacts DEF Inv, TypeOK, Done
<1>2. /\ pc'[t] = "idle" /\ loc'[t] = NoLoc
      /\ \A u \in Threads \ {t} : pc'[u] = pc[u] /\ loc'[u] = loc[u]
  BY DEF Inv, TypeOK, Done
<1>3. QED
  BY <1>1, <1>2, NoLocFacts DEF Inv, LocalsOK, ControlOK

(* What the history records when a handler of s starts: it only grows, and   *)
(* s is in it if a handler of s was there already.                           *)
LEMMA StartFacts ==
  ASSUME TypeOK, NEW s \in Sockets, Start(s)
  PROVE  /\ overlapped \subseteq overlapped' /\ overlapped' \subseteq overlapped \cup {s}
         /\ spoiled \subseteq spoiled' /\ spoiled' \subseteq Ids
         /\ Concerned(s) => s \in overlapped' /\ HeldIds(s) \subseteq spoiled'
         /\ ~Concerned(s) => UNCHANGED history
BY DEF Start, HeldIds, TypeOK, history

(* A state with nothing in it, as at the start or after the end.             *)
LEMMA InitInv == Init => Inv
BY LabelsFacts, NoLocFacts
   DEF Init, Inv, TypeOK, LocalsOK, Session, NoSession, NoLoc

(* The end of the process is such a state.                                   *)
LEMMA GoDownInv ==
  ASSUME NEW how \in {"exited", "crashed"}, GoDown(how)
  PROVE  Inv'
BY LabelsFacts, NoLocFacts DEF GoDown, Inv, TypeOK, LocalsOK, NoLoc

(* Every step keeps TypeOK together with what the locals hold.               *)
LEMMA InvStep ==
  ASSUME Inv, [Next]_vars
  PROVE  Inv'
<1> USE DEF Inv
<1>1. ASSUME NEW s \in Sockets, Accept(s)
      PROVE  Inv'
  BY <1>1, StartFacts DEF Accept, tables, TypeOK, LocalsOK
<1>2. CASE InsertLiveSocket
  BY <1>2 DEF InsertLiveSocket, tables, history, TypeOK, LocalsOK
<1>3. ASSUME NEW t \in Workers, NEW s \in Sockets, NEW p \in Packets, Dispatch(t, s, p[1], p[2], p[3])
      PROVE  Inv'
  <2>1. overlapped' \subseteq Sockets /\ spoiled' \subseteq Ids
    BY <1>3, StartFacts DEF Dispatch, history, TypeOK
  <2>2. QED
    BY <1>3, <2>1, PacketFacts, LabelsFacts
      DEF Dispatch, conns, tables, TypeOK, LocalsOK, Threads, Local, NoLoc, Ops, RoomNames, LoginIds
<1>4. ASSUME NEW t \in Receivers, NEW s \in Sockets, ClientExit(t, s)
      PROVE  Inv'
  <2>1. overlapped' \subseteq Sockets /\ spoiled' \subseteq Ids
    BY <1>4, StartFacts DEF ClientExit, TypeOK
  <2>2. QED
    BY <1>4, <2>1, LabelsFacts
      DEF ClientExit, At, tables, TypeOK, LocalsOK, Threads, Local, NoLoc, RoomNames, LoginIds
<1>5. ASSUME NEW t \in Threads, Step(t)
      PROVE  Inv'
  <2>1. CASE GetStatus(t)
    <3>1. /\ UNCHANGED <<server, conns, history, tables>>
          /\ pc[t] = "getStatus"
          /\ \/ Done(t)
             \/ Goto(t, "userEnter") /\ loc[t].op = "USER_ENTER" /\ loc[t].id \in Ids
             \/ Goto(t, "statusWait") \/ Goto(t, "statusChat")
      BY <2>1 DEF GetStatus, StatusLogout, At, LocalsOK
    <3>2. ControlOK'
      BY <3>1, GotoInv, DoneInv, LabelsFacts DEF TypeOK, LocalsOK, ControlOK
    <3>3. QED
      BY <3>1, <3>2 DEF conns, tables, history, TypeOK, ControlOK
  <2>2. CASE StatusWait(t)
    <3>1. /\ UNCHANGED <<server, conns, history, tables>>
          /\ pc[t] # "idle"
          /\ Done(t) \/ Goto(t, "handler") \/ Goto(t, "logout")
      BY <2>2 DEF StatusWait, AtSession, At
    <3>2. ControlOK'
      BY <3>1, GotoInv, DoneInv, LabelsFacts
    <3>3. QED
      BY <3>1, <3>2 DEF conns, tables, history, TypeOK, ControlOK
  <2>3. CASE StatusChat(t)
    <3>1. /\ UNCHANGED <<server, conns, history, tables>>
          /\ pc[t] # "idle"
          /\ Done(t) \/ Goto(t, "readRoom") \/ Goto(t, "talk")
      BY <2>3 DEF StatusChat, AtSession, At
    <3>2. ControlOK'
      BY <3>1, GotoInv, DoneInv, LabelsFacts
    <3>3. QED
      BY <3>1, <3>2 DEF conns, tables, history, TypeOK, ControlOK
  <2>4. CASE Handler(t)
    <3>1. /\ UNCHANGED <<server, conns, history, tables>>
          /\ pc[t] # "idle"
          /\ \/ Done(t) \/ Goto(t, "roomEnter") \/ Goto(t, "friendGo") \/ Goto(t, "talk")
             \/ Goto(t, "roomMake") /\ loc[t].op = "ROOM_MAKE"
      BY <2>4 DEF Handler, AtSession, At
    <3>2. ControlOK'
      BY <3>1, GotoInv, DoneInv, LabelsFacts
    <3>3. QED
      BY <3>1, <3>2 DEF conns, tables, history, TypeOK, ControlOK
  <2>5. CASE Talk(t)
    BY <2>5, LabelsFacts, NoLocFacts
      DEF Talk, At, AtSession, Goto, Done, HasSession, conns, tables, history, TypeOK, LocalsOK, Session, NoSession,
          Local, NoLoc, RoomNames
  <2>6. CASE UserEnter(t)
    <3>1. /\ UNCHANGED <<server, conns, overlapped, userMap, rooms, userList>>
          /\ pc[t] = "userEnter" /\ loc[t].op = "USER_ENTER" /\ loc[t].id \in Ids
      BY <2>6 DEF UserEnter, At, LocalsOK
    <3>2. /\ Done(t) \/ Goto(t, "initUser")
          /\ idSet' \subseteq Ids /\ spoiled' \subseteq Ids
      BY <2>6, <3>1 DEF UserEnter, TypeOK
    <3>3. ControlOK'
      BY <3>1, <3>2, GotoInv, DoneInv, LabelsFacts
    <3>4. QED
      BY <3>1, <3>2, <3>3 DEF conns, TypeOK, ControlOK
  <2>7. CASE InitUser(t)
    <3>1. /\ UNCHANGED <<server, conns, history, idSet, rooms, userList>>
          /\ pc[t] = "initUser" /\ loc[t].id \in Ids /\ Done(t)
          /\ userMap' = [userMap EXCEPT ![loc[t].sock] = NewSession(loc[t].id, "WAITING")]
      BY <2>7 DEF InitUser, At, LocalsOK
    <3>2. NewSession(loc[t].id, "WAITING") \in Session
      BY <3>1 DEF NewSession, StoredName, Session, LoginIds, Nicks, RoomNames
    <3>3. ControlOK'
      BY <3>1, DoneInv
    <3>4. QED
      BY <3>1, <3>2, <3>3 DEF conns, history, TypeOK, ControlOK
  <2>8. CASE LogOutId(t)
    BY <2>8, LabelsFacts, NoLocFacts
      DEF LogOutId, At, AtSession, Goto, Done, HasSession, conns, tables, history, TypeOK, LocalsOK, Session, NoSession,
          Local, NoLoc, RoomNames
  <2>9. CASE LogOutErase(t)
    <3>1. /\ UNCHANGED <<server, conns, history, idSet, rooms, userList>>
          /\ userMap' = [userMap EXCEPT ![loc[t].sock] = NoSession]
          /\ Done(t)
      BY <2>9 DEF LogOutErase, EraseSession
    <3>2. ControlOK'
      BY <3>1, DoneInv
    <3>3. QED
      BY <3>1, <3>2 DEF conns, history, TypeOK, ControlOK
  <2>10. CASE RoomMake(t)
    <3>1. pc[t] = "roomMake" /\ loc[t].name \in Rooms
      BY <2>10 DEF RoomMake, At, LocalsOK
    <3>2. /\ rooms' \subseteq Rooms /\ userList' \in [Rooms -> SUBSET Sockets]
          /\ UNCHANGED <<server, conns, history, idSet, userMap>>
      BY <2>10, <3>1 DEF RoomMake, TypeOK, LocalsOK
    <3>3. ControlOK'
      <4>1. CASE Done(t)
        BY <4>1, DoneInv
      <4>2. CASE /\ pc' = [pc EXCEPT ![t] = "makeSession"]
                 /\ loc' = [loc EXCEPT ![t].room = loc[t].name]
        BY <3>1, <4>2, NoteRoomInv, LabelsFacts DEF RoomNames
      <4>3. QED
        BY <2>10, <4>1, <4>2 DEF RoomMake
    <3>4. QED
      BY <3>2, <3>3 DEF conns, history, TypeOK, ControlOK
  <2>11. CASE RoomMakeSession(t)
    BY <2>11, LabelsFacts, NoLocFacts
      DEF RoomMakeSession, SetChatting, StoredName, At, AtSession, Goto, Done, HasSession, conns, tables, history,
          TypeOK, LocalsOK, Session, NoSession, Local, NoLoc, RoomNames
  <2>12. CASE RoomEnter(t)
    <3>1. CASE Done(t)
      BY <2>12, <3>1, LabelsFacts, NoLocFacts DEF RoomEnter, Done, conns, tables, history, TypeOK, LocalsOK, Local
    <3>2. CASE ~Done(t)
      <4>1. /\ pc' = [pc EXCEPT ![t] = "enterSession"]
            /\ loc' = [loc EXCEPT ![t].room = loc[t].name]
            /\ loc[t].name \in rooms
            /\ UNCHANGED <<server, conns, history, tables>>
        BY <2>12, <3>2 DEF RoomEnter
      <4>2. loc[t].name \in RoomNames /\ pc[t] = "roomEnter"
        BY <2>12, <4>1 DEF TypeOK, RoomNames, RoomEnter, At
      <4>3. QED
        BY <4>1, <4>2, LabelsFacts DEF conns, tables, history, TypeOK, LocalsOK, Local
    <3>3. QED
      BY <3>1, <3>2
  <2>13. CASE RoomEnterSession(t)
    BY <2>13, LabelsFacts, NoLocFacts
      DEF RoomEnterSession, SetChatting, StoredName, At, AtSession, Goto, Done, HasSession, conns, tables, history,
          TypeOK, LocalsOK, Session, NoSession, Local, NoLoc, RoomNames
  <2>14. CASE RoomEnterList(t)
    BY <2>14, LabelsFacts, NoLocFacts
      DEF RoomEnterList, PushBack, At, AtSession, Goto, Done, HasSession, conns, tables, history, TypeOK, LocalsOK,
          Session, NoSession, Local, NoLoc, RoomNames
  <2>15. CASE FriendGo(t)
    <3>1. UNCHANGED <<server, conns, history, tables>> /\ pc[t] = "friendGo"
      BY <2>15 DEF FriendGo, At
    <3>2. ControlOK'
      <4>1. CASE Done(t)
        BY <4>1, DoneInv
      <4>2. CASE ~Done(t)
        <5>1. PICK s \in Sockets :
                /\ HasSession(s)
                /\ pc' = [pc EXCEPT ![t] = "friendRoom"]
                /\ loc' = [loc EXCEPT ![t].room = userMap[s].room]
          BY <2>15, <4>2 DEF FriendGo
        <5>2. userMap[s].room \in RoomNames
          BY <5>1 DEF TypeOK, HasSession, Session
        <5>3. QED
          BY <3>1, <5>1, <5>2, NoteRoomInv, LabelsFacts
      <4>3. QED
        BY <4>1, <4>2
    <3>3. QED
      BY <3>1, <3>2 DEF conns, tables, history, TypeOK, ControlOK
  <2>16. CASE FriendGoRoom(t)
    BY <2>16, LabelsFacts, NoLocFacts
      DEF FriendGoRoom, At, AtSession, Goto, Done, HasSession, conns, tables, history, TypeOK, LocalsOK, Session,
          NoSession, Local, NoLoc, RoomNames
  <2>17. CASE FriendGoSession(t)
    BY <2>17, LabelsFacts, NoLocFacts
      DEF FriendGoSession, SetChatting, StoredName, At, AtSession, Goto, Done, HasSession, conns, tables, history,
          TypeOK, LocalsOK, Session, NoSession, Local, NoLoc, RoomNames
  <2>18. CASE FriendGoList(t)
    BY <2>18, LabelsFacts, NoLocFacts
      DEF FriendGoList, PushBack, At, AtSession, Goto, Done, HasSession, conns, tables, history, TypeOK, LocalsOK,
          Session, NoSession, Local, NoLoc, RoomNames
  <2>19. CASE ExitLive(t)
    BY <2>19, LabelsFacts, NoLocFacts
      DEF ExitLive, At, AtSession, Goto, Done, HasSession, conns, tables, history, TypeOK, LocalsOK, Session, NoSession,
          Local, NoLoc, RoomNames
  <2>20. CASE ExitFind(t)
    BY <2>20, LabelsFacts, NoLocFacts
      DEF ExitFind, At, AtSession, Goto, Done, HasSession, conns, tables, history, TypeOK, LocalsOK, Session, NoSession,
          Local, NoLoc, RoomNames
  <2>21. CASE BanCopy(t)
    <3>1. CASE Done(t)
      <4>1. overlapped' \subseteq Sockets /\ spoiled' \subseteq Ids /\ UNCHANGED <<server, conns, tables>>
        BY <2>21, StartFacts DEF BanCopy, history, TypeOK
      <4>2. QED
        BY <3>1, <4>1, DoneInv DEF conns, tables, TypeOK, ControlOK
    <3>2. CASE ~Done(t)
      <4>1. PICK s \in Sockets :
              /\ pc' = [pc EXCEPT ![t] = "readId"]
              /\ loc' = [loc EXCEPT ![t].sock = s]
              /\ pc[t] = "banCopy" /\ Start(s)
              /\ UNCHANGED <<server, conns, tables>>
        BY <2>21, <3>2 DEF BanCopy, At
      <4>2. overlapped' \subseteq Sockets /\ spoiled' \subseteq Ids
        BY <4>1, StartFacts DEF TypeOK
      <4>3. QED
        BY <4>1, <4>2, LabelsFacts DEF conns, tables, TypeOK, LocalsOK, Local
    <3>3. QED
      BY <3>1, <3>2
  <2>22. CASE ReadId(t)
    BY <2>22, LabelsFacts, NoLocFacts
      DEF ReadId, At, AtSession, Goto, Done, HasSession, conns, tables, history, TypeOK, LocalsOK, Session, NoSession,
          Local, NoLoc, RoomNames, LoginIds
  <2>23. CASE EraseId(t)
    BY <2>23, LabelsFacts, NoLocFacts
      DEF EraseId, At, AtSession, Goto, Done, HasSession, conns, tables, history, TypeOK, LocalsOK, Session, NoSession,
          Local, NoLoc, RoomNames
  <2>24. CASE ReadStatus(t)
    BY <2>24, LabelsFacts, NoLocFacts
      DEF ReadStatus, At, AtSession, Goto, Done, HasSession, conns, tables, history, TypeOK, LocalsOK, Session,
          NoSession, Local, NoLoc, RoomNames
  <2>25. CASE Drop(t)
    BY <2>25, LabelsFacts, NoLocFacts
      DEF Drop, EraseSession, At, AtSession, Goto, Done, HasSession, conns, tables, history, TypeOK, LocalsOK, Session,
          NoSession, Local, NoLoc, RoomNames
  <2>26. CASE ReadRoom(t)
    BY <2>26, LabelsFacts, NoLocFacts
      DEF ReadRoom, At, AtSession, Goto, Done, HasSession, conns, tables, history, TypeOK, LocalsOK, Session, NoSession,
          Local, NoLoc, RoomNames
  <2>27. CASE LeaveList(t)
    BY <2>27, LabelsFacts, NoLocFacts
      DEF LeaveList, At, AtSession, Goto, Done, HasSession, conns, tables, history, TypeOK, LocalsOK, Session,
          NoSession, Local, NoLoc, RoomNames
  <2>28. CASE ResetSession(t)
    BY <2>28, LabelsFacts, NoLocFacts
      DEF ResetSession, At, AtSession, Goto, Done, HasSession, conns, tables, history, TypeOK, LocalsOK, Session,
          NoSession, Local, NoLoc, RoomNames
  <2>29. CASE EraseRoom(t)
    <3>1. /\ rooms' \subseteq rooms
          /\ UNCHANGED <<server, conns, history, idSet, userMap, userList>>
          /\ pc[t] # "idle"
          /\ Done(t) \/ Goto(t, "drop")
      BY <2>29 DEF EraseRoom, At
    <3>2. ControlOK'
      BY <3>1, GotoInv, DoneInv, LabelsFacts
    <3>3. QED
      BY <3>1, <3>2 DEF conns, history, TypeOK, ControlOK
  <2>30. QED
    BY <1>5, <2>1, <2>2, <2>3, <2>4, <2>5, <2>6, <2>7, <2>8, <2>9, <2>10, <2>11, <2>12, <2>13, <2>14, <2>15,
          <2>16, <2>17, <2>18, <2>19, <2>20, <2>21, <2>22, <2>23, <2>24, <2>25, <2>26, <2>27, <2>28,
          <2>29 DEF Step
<1>6. ASSUME NEW t \in Threads, Exit(t) \/ Fault(t)
      PROVE  Inv'
  BY <1>6, GoDownInv DEF Exit, Fault
<1>7. CASE UNCHANGED vars
  BY <1>7 DEF vars, conns, tables, history, TypeOK, LocalsOK
<1>8. QED
  BY <1>1, <1>2, <1>3, <1>4, <1>5, <1>6, <1>7 DEF Next, Down

(* Every variable keeps its type, whatever the threads interleave.           *)
THEOREM TypeCorrect == Spec => []TypeOK
<1>1. Init => Inv
  BY InitInv
<1>2. Inv /\ [Next]_vars => Inv'
  BY InvStep
<1>3. Inv => TypeOK
  BY DEF Inv
<1>4. QED
  BY <1>1, <1>2, <1>3, PTL DEF Spec

-----------------------------------------------------------------------------
(* Empty rooms.                                                              *)

(* A step of t that leaves the room tables alone and does not take t from    *)
(* "reset" or "erase" keeps every witness of NoEmptyRoomLingers.             *)
LEMMA LingersFrame ==
  ASSUME TypeOK, NoEmptyRoomLingers, NEW t \in Threads,
         UNCHANGED <<rooms, userList>>,
         pc[t] \notin {"reset", "erase"},
         \A u \in Threads \ {t} : pc'[u] = pc[u] /\ loc'[u] = loc[u]
  PROVE  NoEmptyRoomLingers'
BY DEF NoEmptyRoomLingers

(* The threads a step of t leaves alone.                                     *)
LEMMA OthersKept ==
  ASSUME TypeOK, NEW t \in Threads, Step(t)
  PROVE  \A u \in Threads \ {t} : pc'[u] = pc[u] /\ loc'[u] = loc[u]
<1> USE DEF TypeOK, Goto, Done
<1>1. CASE GetStatus(t) \/ StatusWait(t) \/ StatusChat(t) \/ Handler(t) \/ Talk(t)
  BY <1>1 DEF GetStatus, StatusLogout, StatusWait, StatusChat, Handler, Talk
<1>2. CASE UserEnter(t) \/ InitUser(t) \/ LogOutId(t) \/ LogOutErase(t)
  BY <1>2 DEF UserEnter, InitUser, LogOutId, LogOutErase, EraseSession
<1>3. CASE RoomMake(t) \/ RoomMakeSession(t) \/ RoomEnter(t) \/ RoomEnterSession(t) \/ RoomEnterList(t)
  BY <1>3 DEF RoomMake, RoomMakeSession, RoomEnter, RoomEnterSession, RoomEnterList, PushBack
<1>4. CASE FriendGo(t) \/ FriendGoRoom(t) \/ FriendGoSession(t) \/ FriendGoList(t)
  BY <1>4 DEF FriendGo, FriendGoRoom, FriendGoSession, FriendGoList, PushBack
<1>5. CASE ExitLive(t) \/ ExitFind(t) \/ BanCopy(t) \/ ReadId(t) \/ EraseId(t) \/ ReadStatus(t) \/ Drop(t)
  BY <1>5 DEF ExitLive, ExitFind, BanCopy, ReadId, EraseId, ReadStatus, Drop, EraseSession
<1>6. CASE ReadRoom(t) \/ LeaveList(t) \/ ResetSession(t) \/ EraseRoom(t)
  BY <1>6 DEF ReadRoom, LeaveList, ResetSession, EraseRoom
<1>7. QED
  BY <1>1, <1>2, <1>3, <1>4, <1>5, <1>6 DEF Step

(* The steps that touch neither roomMap nor a list, and where they start.    *)
LEMMA RoomsKept ==
  ASSUME NEW t \in Threads, Step(t),
         ~RoomMake(t), ~RoomEnterList(t), ~FriendGoList(t),
         ~LeaveList(t), ~ResetSession(t), ~EraseRoom(t)
  PROVE  /\ UNCHANGED <<rooms, userList>>
         /\ pc[t] \notin {"reset", "erase"}
<1> USE DEF At, AtSession, tables
<1>1. CASE GetStatus(t) \/ StatusWait(t) \/ StatusChat(t) \/ Handler(t) \/ Talk(t)
  BY <1>1 DEF GetStatus, StatusWait, StatusChat, Handler, Talk
<1>2. CASE UserEnter(t) \/ InitUser(t) \/ LogOutId(t) \/ LogOutErase(t)
  BY <1>2 DEF UserEnter, InitUser, LogOutId, LogOutErase, EraseSession
<1>3. CASE RoomMakeSession(t) \/ RoomEnter(t) \/ RoomEnterSession(t)
  BY <1>3 DEF RoomMakeSession, RoomEnter, RoomEnterSession
<1>4. CASE FriendGo(t) \/ FriendGoRoom(t) \/ FriendGoSession(t)
  BY <1>4 DEF FriendGo, FriendGoRoom, FriendGoSession
<1>5. CASE ExitLive(t) \/ ExitFind(t) \/ BanCopy(t) \/ ReadId(t) \/ EraseId(t) \/ ReadStatus(t) \/ Drop(t)
  BY <1>5 DEF ExitLive, ExitFind, BanCopy, ReadId, EraseId, ReadStatus, Drop, EraseSession
<1>6. CASE ReadRoom(t)
  BY <1>6 DEF ReadRoom
<1>7. QED
  BY <1>1, <1>2, <1>3, <1>4, <1>5, <1>6 DEF Step

(* Every step keeps a witness for each empty room: the step that takes the   *)
(* last member becomes one, and the step that deletes a room needs none.     *)
LEMMA LingersStep ==
  ASSUME Inv, NoEmptyRoomLingers, [Next]_vars
  PROVE  NoEmptyRoomLingers'
<1> USE DEF Inv
<1>1. ASSUME NEW t \in Threads, Step(t)
      PROVE  NoEmptyRoomLingers'
  <2> USE DEF NoEmptyRoomLingers
  <2>0. \A u \in Threads \ {t} : pc'[u] = pc[u] /\ loc'[u] = loc[u]
    BY <1>1, OthersKept
  <2>1. CASE RoomMake(t)
    <3>1. loc[t].name \in Rooms
      BY <2>1 DEF RoomMake, At, LocalsOK
    <3>2. CASE loc[t].name \in rooms
      BY <2>0, <2>1, <3>2 DEF RoomMake, At
    <3>3. CASE loc[t].name \notin rooms
      <4>1. /\ rooms' = rooms \cup {loc[t].name}
            /\ userList' = [userList EXCEPT ![loc[t].name] = {loc[t].sock}]
            /\ pc[t] = "roomMake"
        BY <2>1, <3>3 DEF RoomMake, At
      <4>2. userList'[loc[t].name] # {} /\ \A r \in rooms : userList'[r] = userList[r]
        BY <3>1, <3>3, <4>1 DEF TypeOK
      <4>3. QED
        BY <2>0, <4>1, <4>2
    <3>4. QED
      BY <3>2, <3>3
  <2>2. CASE RoomEnterList(t) \/ FriendGoList(t)
    BY <2>0, <2>2 DEF RoomEnterList, FriendGoList, PushBack, At, TypeOK
  <2>3. CASE LeaveList(t)
    BY <2>0, <2>3 DEF LeaveList, At, Goto, TypeOK
  <2>4. CASE ResetSession(t)
    BY <2>0, <2>4 DEF ResetSession, Goto, TypeOK
  <2>5. CASE EraseRoom(t)
    <3>1. ASSUME NEW r \in rooms', userList'[r] = {}
          PROVE  \E u \in Threads : pc'[u] \in {"reset", "erase"} /\ loc'[u].room = r
      <4>1. r \in rooms /\ userList[r] = {} /\ r # loc[t].room
        BY <2>5, <3>1 DEF EraseRoom, RoomIsEmpty
      <4>2. QED
        BY <4>1, <2>0
    <3>2. QED
      BY <3>1
  <2>6. QED
    BY <1>1, <2>0, <2>1, <2>2, <2>3, <2>4, <2>5, RoomsKept, LingersFrame
<1>2. ASSUME NEW t \in Workers, NEW s \in Sockets, NEW p \in Packets, Dispatch(t, s, p[1], p[2], p[3])
      PROVE  NoEmptyRoomLingers'
  BY <1>2, LingersFrame DEF Dispatch, At, tables, TypeOK, Threads
<1>3. ASSUME NEW t \in Receivers, NEW s \in Sockets, ClientExit(t, s)
      PROVE  NoEmptyRoomLingers'
  BY <1>3, LingersFrame DEF ClientExit, At, tables, TypeOK, Threads
<1>4. CASE UNCHANGED <<rooms, userList, pc, loc>>
  BY <1>4 DEF NoEmptyRoomLingers
<1>5. ASSUME NEW t \in Threads, Exit(t) \/ Fault(t)
      PROVE  NoEmptyRoomLingers'
  BY <1>5 DEF Exit, Fault, GoDown, NoEmptyRoomLingers
<1>6. QED
  BY <1>1, <1>2, <1>3, <1>4, <1>5 DEF Next, Accept, InsertLiveSocket, Down, vars, tables

(* A room without members is always on its way out: the handler that took    *)
(* the last member from the list has yet to test the list under roomCs.      *)
(* It holds for overlapped connections as well.                              *)
THEOREM EmptyRoomsAreDeleted == Spec => []NoEmptyRoomLingers
<1> DEFINE I == Inv /\ NoEmptyRoomLingers
<1>1. Init => I
  BY InitInv DEF Init, NoEmptyRoomLingers
<1>2. I /\ [Next]_vars => I'
  BY InvStep, LingersStep
<1>3. I => NoEmptyRoomLingers
  OBVIOUS
<1>4. QED
  BY <1>1, <1>2, <1>3, PTL DEF Spec

-----------------------------------------------------------------------------
(***************************************************************************)
(* Logins.  For any number of threads, connections and login texts, a text  *)
(* no overlapped connection has used is in the hands of one connection at   *)
(* a time.  idSet alone does not show that: the invariant relates it to the *)
(* sessions and to the logins under way, and says which texts the handlers  *)
(* of overlapped connections can still store or erase.                      *)
(***************************************************************************)

Busy(t) == pc[t] \notin {"idle", "banCopy"}

(* At most one handler has a connection in hand that is not overlapped, and  *)
(* only \out, ClientExit and BanUser are in the steps that leave a room or   *)
(* drop a session.                                                           *)
OneHandler ==
  \A t, u \in Threads :
    (t # u /\ Busy(t) /\ Busy(u) /\ loc[t].sock \notin overlapped) => loc[t].sock # loc[u].sock
OpsOK ==
  \A t \in Threads :
    /\ pc[t] \in {"readRoom", "list", "reset", "erase"} => loc[t].op \in {"OUT", "HANGUP", "BAN"}
    /\ pc[t] \in {"exitLive", "exitFind", "banCopy", "readId", "eraseId", "readStatus"}
         => loc[t].op \in {"HANGUP", "BAN"}
Control == OneHandler /\ OpsOK

(* A session nobody is tearing down.                                         *)
LoggedIn(s) == HasSession(s) /\ ~TearingDown(s)

(* The handlers of overlapped connections hold no text but spoiled ones, and *)
(* so do the sessions of these connections.                                  *)
Unsound == spoiled \cup {Garbled}
Spoilt ==
  /\ \A s \in overlapped : HasSession(s) => userMap[s].id \in Unsound
  /\ \A t \in Threads :
       (pc[t] \in {"initUser", "eraseId"} /\ loc[t].sock \in overlapped) => loc[t].id \in Unsound
  /\ \A t \in Threads : pc[t] = "eraseId" => loc[t].id \in LoginIds

(* What ClientExit or BanUser has read is the id of the session it drops.    *)
IdRead ==
  \A t \in Threads : (pc[t] = "eraseId" /\ loc[t].sock \notin overlapped) =>
    HasSession(loc[t].sock) /\ loc[t].id = userMap[loc[t].sock].id

(* The texts of sessions and of logins under way are in idSet, each once.    *)
IdsHeld ==
  \A s \in Sockets : (LoggedIn(s) /\ Sound(userMap[s].id)) => userMap[s].id \in idSet
IdsDistinct ==
  \A s1, s2 \in Sockets :
    (s1 # s2 /\ LoggedIn(s1) /\ LoggedIn(s2) /\ Sound(userMap[s1].id))
      => userMap[s1].id # userMap[s2].id
LoginsHeld ==
  \A t \in Threads : (pc[t] = "initUser" /\ Sound(loc[t].id)) =>
    /\ loc[t].id \in idSet
    /\ \A s \in Sockets : LoggedIn(s) => userMap[s].id # loc[t].id
    /\ \A u \in Threads : (u # t /\ pc[u] = "initUser") => loc[u].id # loc[t].id

Logins == IdRead /\ IdsHeld /\ IdsDistinct /\ LoginsHeld
LoginInv == Inv /\ Control /\ Spoilt /\ Logins

-----------------------------------------------------------------------------
(* Control.                                                                  *)

(* A step keeps the connection of its handler, or ends the handler, except   *)
(* for BanCopy, which turns to a connection no handler concerns.             *)
LEMMA SockKept ==
  ASSUME TypeOK, NEW t \in Threads, Step(t), ~BanCopy(t)
  PROVE  /\ Busy(t)
         /\ pc'[t] # "idle" => loc'[t].sock = loc[t].sock /\ loc'[t].op = loc[t].op
         /\ pc'[t] # "banCopy"
<1> USE DEF TypeOK, Goto, Done, Busy, At, AtSession, Local
<1>1. CASE GetStatus(t) \/ StatusWait(t) \/ StatusChat(t) \/ Handler(t) \/ Talk(t)
  BY <1>1 DEF GetStatus, StatusLogout, StatusWait, StatusChat, Handler, Talk
<1>2. CASE UserEnter(t) \/ InitUser(t) \/ LogOutId(t) \/ LogOutErase(t)
  BY <1>2 DEF UserEnter, InitUser, LogOutId, LogOutErase, EraseSession
<1>3. CASE RoomMake(t) \/ RoomMakeSession(t) \/ RoomEnter(t) \/ RoomEnterSession(t) \/ RoomEnterList(t)
  BY <1>3 DEF RoomMake, RoomMakeSession, RoomEnter, RoomEnterSession, RoomEnterList, PushBack
<1>4. CASE FriendGo(t) \/ FriendGoRoom(t) \/ FriendGoSession(t) \/ FriendGoList(t)
  BY <1>4 DEF FriendGo, FriendGoRoom, FriendGoSession, FriendGoList, PushBack
<1>5. CASE ExitLive(t) \/ ExitFind(t) \/ ReadId(t) \/ EraseId(t) \/ ReadStatus(t) \/ Drop(t)
  BY <1>5 DEF ExitLive, ExitFind, ReadId, EraseId, ReadStatus, Drop, EraseSession
<1>6. CASE ReadRoom(t) \/ LeaveList(t) \/ ResetSession(t) \/ EraseRoom(t)
  BY <1>6 DEF ReadRoom, LeaveList, ResetSession, EraseRoom
<1>7. QED
  BY <1>1, <1>2, <1>3, <1>4, <1>5, <1>6 DEF Step

(* The steps that lead to a label OpsOK speaks of.                           *)
LEMMA OpsStep ==
  ASSUME TypeOK, OpsOK, NEW t \in Threads, Step(t), ~BanCopy(t)
  PROVE  /\ pc'[t] \in {"readRoom", "list", "reset", "erase"} => loc'[t].op \in {"OUT", "HANGUP", "BAN"}
         /\ pc'[t] \in {"exitLive", "exitFind", "banCopy", "readId", "eraseId", "readStatus"}
              => loc'[t].op \in {"HANGUP", "BAN"}
<1> USE DEF TypeOK, Goto, Done, At, AtSession, OpsOK
<1>1. CASE GetStatus(t) \/ StatusWait(t) \/ StatusChat(t) \/ Handler(t) \/ Talk(t)
  BY <1>1 DEF GetStatus, StatusLogout, StatusWait, StatusChat, Handler, Talk
<1>2. CASE UserEnter(t) \/ InitUser(t) \/ LogOutId(t) \/ LogOutErase(t)
  BY <1>2 DEF UserEnter, InitUser, LogOutId, LogOutErase, EraseSession
<1>3. CASE RoomMake(t) \/ RoomMakeSession(t) \/ RoomEnter(t) \/ RoomEnterSession(t) \/ RoomEnterList(t)
  BY <1>3 DEF RoomMake, RoomMakeSession, RoomEnter, RoomEnterSession, RoomEnterList, PushBack
<1>4. CASE FriendGo(t) \/ FriendGoRoom(t) \/ FriendGoSession(t) \/ FriendGoList(t)
  BY <1>4 DEF FriendGo, FriendGoRoom, FriendGoSession, FriendGoList, PushBack
<1>5. CASE ExitLive(t) \/ ExitFind(t) \/ ReadId(t) \/ EraseId(t) \/ ReadStatus(t) \/ Drop(t)
  BY <1>5 DEF ExitLive, ExitFind, ReadId, EraseId, ReadStatus, Drop, EraseSession, Local
<1>6. CASE ReadRoom(t) \/ LeaveList(t) \/ ResetSession(t) \/ EraseRoom(t)
  BY <1>6 DEF ReadRoom, LeaveList, ResetSession, EraseRoom, Local
<1>7. QED
  BY <1>1, <1>2, <1>3, <1>4, <1>5, <1>6 DEF Step

(* The history grows with BanCopy, which may turn to a connection that has a *)
(* handler, and with UserEnter, for an overlapped connection.                *)
LEMMA HistoryStep ==
  ASSUME TypeOK, NEW t \in Threads, Step(t)
  PROVE  /\ overlapped \subseteq overlapped' /\ spoiled \subseteq spoiled'
         /\ ~BanCopy(t) => overlapped' = overlapped
         /\ (~BanCopy(t) /\ ~UserEnter(t)) => spoiled' = spoiled
<1> USE DEF history
<1>1. CASE GetStatus(t) \/ StatusWait(t) \/ StatusChat(t) \/ Handler(t) \/ Talk(t)
  BY <1>1 DEF GetStatus, StatusWait, StatusChat, Handler, Talk
<1>2. CASE UserEnter(t) \/ InitUser(t) \/ LogOutId(t) \/ LogOutErase(t)
  BY <1>2 DEF UserEnter, InitUser, LogOutId, LogOutErase, EraseSession
<1>3. CASE RoomMake(t) \/ RoomMakeSession(t) \/ RoomEnter(t) \/ RoomEnterSession(t) \/ RoomEnterList(t)
  BY <1>3 DEF RoomMake, RoomMakeSession, RoomEnter, RoomEnterSession, RoomEnterList, PushBack
<1>4. CASE FriendGo(t) \/ FriendGoRoom(t) \/ FriendGoSession(t) \/ FriendGoList(t)
  BY <1>4 DEF FriendGo, FriendGoRoom, FriendGoSession, FriendGoList, PushBack
<1>5. CASE ExitLive(t) \/ ExitFind(t) \/ ReadId(t) \/ EraseId(t) \/ ReadStatus(t) \/ Drop(t)
  BY <1>5 DEF ExitLive, ExitFind, ReadId, EraseId, ReadStatus, Drop, EraseSession
<1>6. CASE ReadRoom(t) \/ LeaveList(t) \/ ResetSession(t) \/ EraseRoom(t)
  BY <1>6 DEF ReadRoom, LeaveList, ResetSession, EraseRoom
<1>7. CASE BanCopy(t)
  BY <1>7, StartFacts DEF BanCopy
<1>8. QED
  BY <1>1, <1>2, <1>3, <1>4, <1>5, <1>6, <1>7 DEF Step

(* BanCopy ends, or turns to the connection of the session it has found.     *)
LEMMA BanCopyEffect ==
  ASSUME Inv, NEW t \in Threads, BanCopy(t)
  PROVE  /\ pc[t] = "banCopy" /\ UNCHANGED <<conns, tables>>
         /\ \A u \in Threads \ {t} : pc'[u] = pc[u] /\ loc'[u] = loc[u]
         /\ \/ pc'[t] = "idle" /\ loc'[t] = NoLoc /\ UNCHANGED history
            \/ \E s \in Sockets :
                 /\ HasSession(s) /\ Start(s)
                 /\ pc'[t] = "readId" /\ loc'[t].sock = s /\ loc'[t].op = loc[t].op
<1>1. pc[t] = "banCopy" /\ UNCHANGED <<conns, tables>>
  BY DEF BanCopy, At
<1>2. \A u \in Threads \ {t} : pc'[u] = pc[u] /\ loc'[u] = loc[u]
  BY OthersKept DEF Inv, Step
<1>3. CASE Done(t) /\ UNCHANGED history
  BY <1>1, <1>2, <1>3 DEF Done, Inv, TypeOK
<1>4. ASSUME NEW s \in Sockets, HasSession(s), Start(s),
             pc' = [pc EXCEPT ![t] = "readId"], loc' = [loc EXCEPT ![t].sock = s]
      PROVE  pc'[t] = "readId" /\ loc'[t].sock = s /\ loc'[t].op = loc[t].op
  BY <1>4 DEF Inv, TypeOK, Local
<1>5. QED
  BY <1>1, <1>2, <1>3, <1>4 DEF BanCopy

(* What Dispatch and ClientExit do to the threads and to the history.        *)
LEMMA StartEffect ==
  ASSUME Inv,
         \/ \E t \in Workers, s \in Sockets, p \in Packets : Dispatch(t, s, p[1], p[2], p[3])
         \/ \E t \in Receivers, s \in Sockets : ClientExit(t, s)
  PROVE  \E t \in Threads, s \in Sockets :
           /\ pc[t] = "idle" /\ UNCHANGED <<server, accepting, live, tables>>
           /\ \A u \in Threads \ {t} : pc'[u] = pc[u] /\ loc'[u] = loc[u]
           /\ loc'[t].sock = s
           /\ \/ /\ t \in Workers /\ pc'[t] = "getStatus" /\ Start(s)
                 /\ s \in live /\ open' = open
              \/ /\ t \in Workers /\ pc'[t] = "banCopy" /\ loc'[t].op = "BAN" /\ UNCHANGED history
                 /\ open' = open
              \/ /\ t \in Receivers /\ pc'[t] = "exitLive" /\ loc'[t].op = "HANGUP" /\ Start(s)
                 /\ s \in open /\ s # accepting /\ open' = open \ {s}
<1>1. ASSUME NEW t \in Workers, NEW s \in Sockets, NEW p \in Packets, Dispatch(t, s, p[1], p[2], p[3])
      PROVE  /\ pc[t] = "idle" /\ UNCHANGED <<server, accepting, live, tables>>
             /\ \A u \in Threads \ {t} : pc'[u] = pc[u] /\ loc'[u] = loc[u]
             /\ loc'[t].sock = s
             /\ \/ pc'[t] = "getStatus" /\ Start(s) /\ s \in live /\ open' = open
                \/ pc'[t] = "banCopy" /\ loc'[t].op = "BAN" /\ UNCHANGED history /\ open' = open
  BY <1>1 DEF Dispatch, At, IsSocketDead, conns, Inv, TypeOK, Threads, NoLoc
<1>2. ASSUME NEW t \in Receivers, NEW s \in Sockets, ClientExit(t, s)
      PROVE  /\ pc[t] = "idle" /\ UNCHANGED <<server, accepting, live, tables>>
             /\ \A u \in Threads \ {t} : pc'[u] = pc[u] /\ loc'[u] = loc[u]
             /\ loc'[t].sock = s
             /\ pc'[t] = "exitLive" /\ loc'[t].op = "HANGUP" /\ Start(s)
             /\ s \in open /\ s # accepting /\ open' = open \ {s}
  BY <1>2 DEF ClientExit, At, Inv, TypeOK, Threads, NoLoc
<1>3. Workers \subseteq Threads /\ Receivers \subseteq Threads
  BY DEF Threads
<1>4. QED
  BY <1>1, <1>2, <1>3

(* Next, sorted by what it does to the threads.                              *)
LEMMA NextCases ==
  ASSUME [Next]_vars
  PROVE  \/ \E t \in Threads : Step(t)
         \/ \E t \in Threads : Exit(t) \/ Fault(t)
         \/ \/ \E t \in Workers, s \in Sockets, p \in Packets : Dispatch(t, s, p[1], p[2], p[3])
            \/ \E t \in Receivers, s \in Sockets : ClientExit(t, s)
         \/ \E s \in Sockets : Accept(s)
         \/ InsertLiveSocket
         \/ UNCHANGED vars
BY DEF Next, Down

(* Every step keeps one handler per connection that is not overlapped.       *)
LEMMA ControlStep ==
  ASSUME Inv, Control, [Next]_vars
  PROVE  Control'
<1> USE DEF Inv, Control
<1>1. ASSUME NEW t \in Threads, Step(t), ~BanCopy(t)
      PROVE  Control'
  <2>1. OneHandler'
    BY <1>1, OthersKept, SockKept, HistoryStep DEF OneHandler, Busy
  <2>2. OpsOK'
    BY <1>1, OthersKept, OpsStep DEF OpsOK
  <2>3. QED
    BY <2>1, <2>2
<1>2. ASSUME NEW t \in Threads, NEW s \in Sockets, ~Busy(t), loc'[t].sock = s,
             overlapped \subseteq overlapped',
             pc'[t] # "banCopy" /\ Concerned(s) => s \in overlapped',
             pc'[t] \in {"getStatus", "banCopy", "exitLive", "readId"},
             pc'[t] # "getStatus" => loc'[t].op \in {"HANGUP", "BAN"},
             \A u \in Threads \ {t} : pc'[u] = pc[u] /\ loc'[u] = loc[u]
      PROVE  Control'
  <2>1. OpsOK'
    BY <1>2 DEF OpsOK
  <2>3. CASE ~Busy(t)'
    BY <1>2, <2>1, <2>3 DEF OneHandler, Busy
  <2>4. CASE Busy(t)'
    <3>1. Concerned(s) => s \in overlapped'
      BY <1>2, <2>4 DEF Busy
    <3>2. \A u \in Threads \ {t} : Busy(u) /\ loc[u].sock = s => s \in overlapped'
      BY <3>1 DEF Concerned, Busy
    <3>3. OneHandler'
      BY <1>2, <3>2 DEF OneHandler, Busy
    <3>4. QED
      BY <2>1, <3>3
  <2>5. QED
    BY <2>1, <2>3, <2>4
<1>3. ASSUME NEW t \in Threads, BanCopy(t)
      PROVE  Control'
  <2>1. ~Busy(t) /\ loc[t].op \in {"HANGUP", "BAN"}
    BY <1>3, BanCopyEffect DEF Busy, OpsOK
  <2>2. CASE pc'[t] = "idle" /\ UNCHANGED history
    BY <1>3, <2>2, BanCopyEffect DEF OneHandler, OpsOK, Busy, history
  <2>3. ASSUME NEW s \in Sockets, Start(s), pc'[t] = "readId", loc'[t].sock = s, loc'[t].op = loc[t].op
        PROVE  Control'
    <3>1. \A u \in Threads \ {t} : pc'[u] = pc[u] /\ loc'[u] = loc[u]
      BY <1>3, BanCopyEffect
    <3>2. overlapped \subseteq overlapped' /\ (Concerned(s) => s \in overlapped')
      BY <2>3, StartFacts
    <3>3. QED
      BY <1>2, <2>1, <2>3, <3>1, <3>2
  <2>4. QED
    BY <1>3, <2>2, <2>3, BanCopyEffect
<1>4. CASE \/ \E t \in Workers, s \in Sockets, p \in Packets : Dispatch(t, s, p[1], p[2], p[3])
           \/ \E t \in Receivers, s \in Sockets : ClientExit(t, s)
  <2>1. PICK t \in Threads, s \in Sockets :
           /\ pc[t] = "idle" /\ loc'[t].sock = s
           /\ \A u \in Threads \ {t} : pc'[u] = pc[u] /\ loc'[u] = loc[u]
           /\ \/ pc'[t] = "getStatus" /\ Start(s)
              \/ pc'[t] = "banCopy" /\ loc'[t].op = "BAN" /\ UNCHANGED history
              \/ pc'[t] = "exitLive" /\ loc'[t].op = "HANGUP" /\ Start(s)
    BY <1>4, StartEffect
  <2>2. ~Busy(t)
    BY <2>1 DEF Busy
  <2>3. overlapped \subseteq overlapped' /\ (pc'[t] # "banCopy" /\ Concerned(s) => s \in overlapped')
    BY <2>1, StartFacts DEF history
  <2>4. QED
    BY <1>2, <2>1, <2>2, <2>3
<1>5. ASSUME UNCHANGED <<pc, loc>>, overlapped \subseteq overlapped'
      PROVE  Control'
  BY <1>5 DEF OneHandler, OpsOK, Busy
<1>6. ASSUME NEW s \in Sockets, Accept(s)
      PROVE  Control'
  BY <1>5, <1>6, StartFacts DEF Accept
<1>7. CASE InsertLiveSocket \/ UNCHANGED vars
  BY <1>5, <1>7 DEF InsertLiveSocket, vars, history
<1>8. ASSUME NEW t \in Threads, Exit(t) \/ Fault(t)
      PROVE  Control'
  BY <1>8 DEF Exit, Fault, GoDown, OneHandler, OpsOK, Busy, NoLoc
<1>9. QED
  BY <1>1, <1>3, <1>4, <1>6, <1>7, <1>8, NextCases

-----------------------------------------------------------------------------
(* Logins.                                                                   *)

(* A step of t that neither changes idSet, nor adds, removes or renames a    *)
(* session, nor starts a login or an erasure, keeps Logins.                  *)
LEMMA LoginsFrame ==
  ASSUME TypeOK, Logins, NEW t \in Threads,
         \A u \in Threads \ {t} : pc'[u] = pc[u] /\ loc'[u] = loc[u],
         idSet' = idSet,
         overlapped \subseteq overlapped', spoiled \subseteq spoiled',
         \A s \in Sockets : HasSession(s)' = HasSession(s) /\ userMap'[s].id = userMap[s].id,
         TearsDown(t) => TearsDown(t)' /\ loc'[t].sock = loc[t].sock,
         pc'[t] \notin {"initUser", "eraseId"},
         \A u \in Threads : pc[u] = "eraseId" => loc[u].sock \in Sockets
  PROVE  Logins'
<1>1. \A u \in Threads \ {t} : TearsDown(u)' = TearsDown(u)
  BY DEF TearsDown
<1>2. \A s \in Sockets : LoggedIn(s)' => LoggedIn(s)
  BY <1>1 DEF LoggedIn, TearingDown
<1>3. IdRead'
  BY DEF Logins, IdRead
<1>4. IdsHeld' /\ IdsDistinct'
  BY <1>2 DEF Logins, IdsHeld, IdsDistinct, Sound
<1>5. LoginsHeld'
  BY <1>2 DEF Logins, LoginsHeld, Sound
<1>6. QED
  BY <1>3, <1>4, <1>5 DEF Logins

(* Changing room and status of a session that exists leaves it a session of  *)
(* the same account.                                                         *)
LEMMA SessionUpdate ==
  ASSUME TypeOK, NEW s \in Sockets, HasSession(s), NEW r, NEW st \in {"WAITING", "CHATTING"},
         userMap' = [userMap EXCEPT ![s].room = r, ![s].status = st]
  PROVE  \A x \in Sockets : HasSession(x)' = HasSession(x) /\ userMap'[x].id = userMap[x].id
<1>1. userMap[s] \in Session
  BY DEF TypeOK, HasSession
<1>2. userMap'[s].id = userMap[s].id /\ userMap'[s].status = st
  BY <1>1 DEF TypeOK, Session
<1>3. NoSession.status = "LOGOUT"
  BY DEF NoSession
<1>4. \A x \in Sockets \ {s} : userMap'[x] = userMap[x]
  BY DEF TypeOK
<1>5. userMap'[s] # NoSession
  BY <1>2, <1>3, Zenon
<1>6. QED
  BY <1>2, <1>4, <1>5 DEF HasSession

(* The steps that leave ids and sessions alone.                              *)
LEMMA QuietSteps ==
  ASSUME Inv, Control, NEW t \in Threads, Step(t),
         ~UserEnter(t), ~InitUser(t), ~LogOutId(t), ~LogOutErase(t),
         ~ReadId(t), ~EraseId(t), ~Drop(t)
  PROVE  /\ idSet' = idSet
         /\ \A s \in Sockets : HasSession(s)' = HasSession(s) /\ userMap'[s].id = userMap[s].id
         /\ TearsDown(t) => TearsDown(t)' /\ loc'[t].sock = loc[t].sock
         /\ pc'[t] \notin {"initUser", "eraseId"}
<1> USE DEF Inv, Control, TypeOK, Goto, Done, At, AtSession, TearsDown
<1>1. CASE GetStatus(t) \/ StatusWait(t) \/ StatusChat(t) \/ Handler(t) \/ Talk(t)
  BY <1>1 DEF GetStatus, StatusLogout, StatusWait, StatusChat, Handler, Talk, tables, HasSession
<1>2. CASE RoomMake(t) \/ RoomEnter(t) \/ RoomEnterList(t)
  BY <1>2 DEF RoomMake, RoomEnter, RoomEnterList, PushBack, tables, HasSession
<1>3. CASE FriendGo(t) \/ FriendGoRoom(t) \/ FriendGoList(t)
  BY <1>3 DEF FriendGo, FriendGoRoom, FriendGoList, PushBack, tables, HasSession
<1>4. CASE RoomMakeSession(t) \/ RoomEnterSession(t) \/ FriendGoSession(t)
  <2>1. /\ SetChatting(t)
        /\ HasSession(loc[t].sock)
        /\ pc[t] \in {"makeSession", "enterSession", "friendSession"}
        /\ idSet' = idSet
        /\ Done(t) \/ Goto(t, "enterList") \/ Goto(t, "friendList")
    BY <1>4 DEF RoomMakeSession, RoomEnterSession, FriendGoSession
  <2>2. \A s \in Sockets : HasSession(s)' = HasSession(s) /\ userMap'[s].id = userMap[s].id
    BY <2>1, SessionUpdate DEF SetChatting, LocalsOK
  <2>3. QED
    BY <2>1, <2>2
<1>5. CASE ExitLive(t) \/ ExitFind(t) \/ BanCopy(t)
  BY <1>5 DEF ExitLive, ExitFind, BanCopy, tables, HasSession
<1>6. CASE ReadStatus(t)
  BY <1>6 DEF ReadStatus, tables, HasSession, OpsOK
<1>7. CASE ReadRoom(t) \/ LeaveList(t)
  BY <1>7 DEF ReadRoom, LeaveList, tables, HasSession, Local
<1>8. CASE ResetSession(t)
  <2>1. \A s \in Sockets : HasSession(s)' = HasSession(s) /\ userMap'[s].id = userMap[s].id
    BY <1>8, SessionUpdate DEF ResetSession, LocalsOK
  <2>2. QED
    BY <1>8, <2>1 DEF ResetSession
<1>9. CASE EraseRoom(t)
  BY <1>9 DEF EraseRoom, HasSession
<1>10. QED
  BY <1>1, <1>2, <1>3, <1>4, <1>5, <1>6, <1>7, <1>8, <1>9 DEF Step

(* When a handler of s starts, the texts that s holds are spoiled if s is    *)
(* overlapped from now on.                                                   *)
LEMMA SpoiltStart ==
  ASSUME Inv, Spoilt, NEW s \in Sockets, userMap' = userMap,
         overlapped \subseteq overlapped', overlapped' \subseteq overlapped \cup {s},
         spoiled \subseteq spoiled', s \in overlapped' => s \in overlapped \/ HeldIds(s) \subseteq spoiled',
         \A u \in Threads :
           pc'[u] \in {"initUser", "eraseId"} => pc'[u] = pc[u] /\ loc'[u] = loc[u]
  PROVE  Spoilt'
<1> USE DEF Inv
<1>1. CASE HeldIds(s) \subseteq spoiled'
  <2>1. HasSession(s) => userMap[s].id \in Unsound'
    BY <1>1 DEF HeldIds, HasSession, TypeOK, Session, LoginIds, Unsound
  <2>2. ASSUME NEW u \in Threads, pc[u] \in {"initUser", "eraseId"}, loc[u].sock = s
        PROVE  loc[u].id \in Unsound'
    <3>1. loc[u].id \in LoginIds
      BY <2>2 DEF LocalsOK, Spoilt, LoginIds
    <3>2. QED
      BY <1>1, <2>2, <3>1 DEF HeldIds, UsesId, LoginIds, Unsound
  <2>3. QED
    BY <2>1, <2>2 DEF Spoilt, Unsound, HasSession
<1>2. CASE overlapped' = overlapped
  BY <1>2 DEF Spoilt, Unsound, HasSession
<1>3. QED
  BY <1>1, <1>2

(* Handlers of overlapped connections bring in spoiled texts only.           *)
LEMMA SpoiltHandlerStep ==
  ASSUME Inv, Control, Spoilt, NEW t \in Threads, Step(t)
  PROVE  Spoilt'
<1> USE DEF Inv
<1>1. \A u \in Threads \ {t} : pc'[u] = pc[u] /\ loc'[u] = loc[u]
  BY OthersKept
<1>2. pc[t] # "idle" => loc[t].sock \in Sockets
  BY DEF LocalsOK
<1>3. CASE UserEnter(t)
  <2>1. /\ UNCHANGED <<userMap, overlapped>> /\ spoiled \subseteq spoiled'
        /\ pc'[t] \in {"idle", "initUser"}
        /\ pc'[t] = "initUser" =>
             loc'[t] = loc[t] /\ (loc[t].sock \in overlapped => loc[t].id \in spoiled')
    BY <1>3 DEF UserEnter, Goto, Done, TypeOK
  <2>2. QED
    BY <1>1, <2>1 DEF Spoilt, Unsound, HasSession
<1>4. CASE InitUser(t)
  <2>1. PICK s \in Sockets :
          /\ s = loc[t].sock /\ pc[t] = "initUser" /\ pc'[t] = "idle" /\ UNCHANGED history
          /\ userMap' = [userMap EXCEPT ![s] = NewSession(loc[t].id, "WAITING")]
    BY <1>2, <1>4 DEF InitUser, At, Done, TypeOK
  <2>2. userMap'[s].id = StoredName(loc[t].id)
    BY <2>1 DEF TypeOK, NewSession
  <2>3. s \in overlapped => userMap'[s].id \in Unsound
    BY <2>1, <2>2 DEF Spoilt, StoredName, Unsound
  <2>4. \A x \in Sockets \ {s} : userMap'[x] = userMap[x]
    BY <2>1 DEF TypeOK
  <2>5. overlapped' = overlapped /\ spoiled' = spoiled /\ overlapped \subseteq Sockets
    BY <2>1 DEF history, TypeOK
  <2>6. QED
    BY <1>1, <2>1, <2>3, <2>4, <2>5 DEF Spoilt, Unsound, HasSession
<1>5. CASE ReadId(t)
  <2>1. PICK s \in Sockets :
          /\ s = loc[t].sock /\ HasSession(s) /\ UNCHANGED <<userMap, overlapped, spoiled>>
          /\ loc'[t].sock = s /\ loc'[t].id = userMap[s].id
    BY <1>2, <1>5 DEF ReadId, At, AtSession, tables, history, TypeOK, Local
  <2>2. userMap[s].id \in LoginIds
    BY <2>1 DEF HasSession, TypeOK, Session
  <2>3. QED
    BY <1>1, <2>1, <2>2 DEF Spoilt, Unsound, HasSession
<1>6. CASE LogOutErase(t) \/ Drop(t)
  <2>1. /\ userMap' = [userMap EXCEPT ![loc[t].sock] = NoSession]
        /\ pc'[t] = "idle" /\ overlapped' = overlapped /\ spoiled' = spoiled
        /\ overlapped \subseteq Sockets
    BY <1>6 DEF LogOutErase, Drop, EraseSession, Done, history, TypeOK
  <2>2. \A x \in Sockets : HasSession(x)' => userMap'[x] = userMap[x]
    BY <2>1 DEF HasSession, TypeOK
  <2>3. QED
    BY <1>1, <2>1, <2>2 DEF Spoilt, Unsound, HasSession
<1>7. CASE LogOutId(t) \/ EraseId(t)
  <2>1. UNCHANGED <<userMap, overlapped, spoiled>> /\ pc'[t] \notin {"initUser", "eraseId"}
    BY <1>7 DEF LogOutId, EraseId, Goto, history, TypeOK
  <2>2. QED
    BY <1>1, <2>1 DEF Spoilt, Unsound, HasSession
<1>8. CASE BanCopy(t)
  <2>1. userMap' = userMap
    BY <1>8 DEF BanCopy, tables
  <2>2. CASE pc'[t] = "idle" /\ UNCHANGED history
    BY <1>1, <2>1, <2>2 DEF Spoilt, Unsound, HasSession, history
  <2>3. ASSUME NEW s \in Sockets, Start(s), pc'[t] = "readId"
        PROVE  Spoilt'
    <3>1. /\ overlapped \subseteq overlapped' /\ overlapped' \subseteq overlapped \cup {s}
          /\ spoiled \subseteq spoiled'
          /\ s \in overlapped' => s \in overlapped \/ HeldIds(s) \subseteq spoiled'
      BY <2>3, StartFacts DEF history
    <3>2. \A u \in Threads :
            pc'[u] \in {"initUser", "eraseId"} => pc'[u] = pc[u] /\ loc'[u] = loc[u]
      BY <1>1, <2>3
    <3>3. QED
      BY <2>1, <3>1, <3>2, SpoiltStart
  <2>4. QED
    BY <1>8, <2>2, <2>3, BanCopyEffect
<1>9. CASE /\ ~UserEnter(t) /\ ~InitUser(t) /\ ~LogOutId(t) /\ ~LogOutErase(t)
           /\ ~ReadId(t) /\ ~EraseId(t) /\ ~Drop(t) /\ ~BanCopy(t)
  <2>1. /\ \A s \in Sockets : HasSession(s)' = HasSession(s) /\ userMap'[s].id = userMap[s].id
        /\ pc'[t] \notin {"initUser", "eraseId"}
    BY <1>9, QuietSteps
  <2>2. overlapped' = overlapped /\ spoiled' = spoiled /\ overlapped \subseteq Sockets
    BY <1>9, HistoryStep DEF TypeOK
  <2>3. QED
    BY <1>1, <2>1, <2>2 DEF Spoilt, Unsound
<1>10. QED
  BY <1>3, <1>4, <1>5, <1>6, <1>7, <1>8, <1>9

(* Every step of a thread keeps the relation of idSet, sessions and logins.  *)
LEMMA LoginsStep ==
  ASSUME Inv, Control, Spoilt, Logins, NEW t \in Threads, Step(t)
  PROVE  Logins'
<1> USE DEF Inv, Control
<1>1. \A u \in Threads \ {t} : pc'[u] = pc[u] /\ loc'[u] = loc[u]
  BY OthersKept
<1>2. \A u \in Threads \ {t} : TearsDown(u)' = TearsDown(u)
  BY <1>1 DEF TearsDown
<1>3. \A u \in Threads : pc[u] # "idle" => loc[u].sock \in Sockets
  BY DEF LocalsOK
<1>0. /\ overlapped \subseteq overlapped' /\ spoiled \subseteq spoiled'
      /\ \A id : Sound(id)' => Sound(id)
  BY HistoryStep DEF Sound
<1>4. CASE UserEnter(t)
  <2>1. pc[t] = "userEnter" /\ userMap' = userMap
    BY <1>4 DEF UserEnter, At
  <2>2. ~TearsDown(t) /\ \A s \in Sockets : HasSession(s)' = HasSession(s)
    BY <2>1 DEF TearsDown, HasSession
  <2>3. CASE Done(t) /\ idSet' = idSet
    <3>1. pc'[t] = "idle"
      BY <2>3 DEF Done, TypeOK
    <3>2. QED
      BY <1>0, <1>1, <1>3, <2>1, <2>2, <2>3, <3>1, LoginsFrame
  <2>4. CASE /\ loc[t].id \notin idSet
             /\ idSet' = idSet \cup {loc[t].id}
             /\ pc' = [pc EXCEPT ![t] = "initUser"]
             /\ loc' = loc
    <3>1. pc'[t] = "initUser" /\ ~TearsDown(t)'
      BY <2>4 DEF TypeOK, TearsDown
    <3>2. \A s \in Sockets : LoggedIn(s)' = LoggedIn(s)
      BY <1>1, <1>2, <2>2, <2>4, <3>1 DEF LoggedIn, TearingDown
    <3>3. IdRead'
      BY <1>0, <1>1, <1>3, <2>1, <2>2, <3>1 DEF Logins, IdRead
    <3>4. IdsHeld' /\ IdsDistinct'
      BY <1>0, <2>1, <2>4, <3>2 DEF Logins, IdsHeld, IdsDistinct
    <3>5. LoginsHeld'
      BY <1>0, <1>1, <2>1, <2>4, <3>1, <3>2 DEF Logins, LoginsHeld, IdsHeld
    <3>6. QED
      BY <3>3, <3>4, <3>5 DEF Logins
  <2>5. QED
    BY <1>4, <2>3, <2>4 DEF UserEnter, IdTaken, Goto
<1>5. CASE InitUser(t)
  <2> DEFINE s == loc[t].sock
  <2>1. /\ pc[t] = "initUser" /\ s \in Sockets /\ loc[t].id \in Ids
        /\ pc'[t] = "idle"
        /\ idSet' = idSet /\ overlapped' = overlapped
        /\ userMap'[s].id = StoredName(loc[t].id)
        /\ \A x \in Sockets \ {s} : userMap'[x] = userMap[x]
    BY <1>5 DEF InitUser, At, Done, TypeOK, LocalsOK, NewSession, history
  <2>2. ~TearsDown(t) /\ ~TearsDown(t)'
    BY <2>1 DEF TearsDown
  <2>3. \A x \in Sockets \ {s} : HasSession(x)' = HasSession(x) /\ LoggedIn(x)' = LoggedIn(x)
    BY <1>1, <1>2, <2>1, <2>2 DEF HasSession, LoggedIn, TearingDown
  <2>4. \A u \in Threads \ {t} : pc[u] = "eraseId" /\ loc[u].sock \notin overlapped => loc[u].sock # s
    BY <2>1 DEF OneHandler, Busy
  <2>5. IdRead'
    BY <1>1, <1>3, <2>1, <2>3, <2>4 DEF Logins, IdRead
  <2>6. Sound(userMap'[s].id) => userMap'[s].id = loc[t].id
    BY <2>1 DEF Sound, StoredName
  <2>7. IdsHeld' /\ IdsDistinct'
    BY <1>0, <2>1, <2>3, <2>6 DEF Logins, IdsHeld, IdsDistinct, LoginsHeld
  <2>8. LoginsHeld'
    BY <1>0, <1>1, <2>1, <2>3, <2>6 DEF Logins, LoginsHeld
  <2>9. QED
    BY <2>5, <2>7, <2>8 DEF Logins
<1>6. CASE LogOutId(t) \/ EraseId(t)
  <2> DEFINE s == loc[t].sock
  <2>1. /\ pc[t] \in {"logout", "eraseId"} /\ s \in Sockets
        /\ pc'[t] \in {"logoutErase", "readStatus"}
        /\ loc' = loc /\ userMap' = userMap /\ overlapped' = overlapped
    BY <1>3, <1>6 DEF LogOutId, EraseId, At, AtSession, Goto, TypeOK, history
  <2>2. ~TearsDown(t) /\ TearsDown(t)'
    BY <2>1 DEF TearsDown
  <2>3. \A x \in Sockets : HasSession(x)' = HasSession(x)
    BY <2>1 DEF HasSession
  <2>4. \A id \in idSet \ idSet' : Sound(id) => LoggedIn(s) /\ id = userMap[s].id
    <3>1. CASE s \in overlapped
      <4>1. \A id \in idSet \ idSet' : id \in Unsound
        BY <1>6, <3>1 DEF LogOutId, EraseId, At, AtSession, Spoilt
      <4>2. QED
        BY <4>1 DEF Sound, Unsound
    <3>2. CASE s \notin overlapped
      <4>1. HasSession(s) /\ idSet' = idSet \ {userMap[s].id}
        BY <1>6, <3>2 DEF LogOutId, EraseId, At, AtSession, Logins, IdRead
      <4>2. LoggedIn(s)
        BY <2>1, <2>2, <3>2, <4>1 DEF LoggedIn, TearingDown, OneHandler, Busy, TearsDown
      <4>3. QED
        BY <4>1, <4>2
    <3>3. QED
      BY <3>1, <3>2
  <2>5. ~LoggedIn(s)'
    BY <2>1, <2>2 DEF LoggedIn, TearingDown
  <2>6. \A x \in Sockets : LoggedIn(x)' => LoggedIn(x) /\ x # s
    BY <1>2, <2>2, <2>3, <2>5, <2>1 DEF LoggedIn, TearingDown
  <2>7. IdRead'
    BY <1>1, <1>3, <2>1, <2>3 DEF Logins, IdRead
  <2>8. IdsHeld' /\ IdsDistinct'
    BY <1>0, <2>1, <2>4, <2>6 DEF Logins, IdsHeld, IdsDistinct
  <2>9. LoginsHeld'
    BY <1>0, <1>1, <2>1, <2>4, <2>6 DEF Logins, LoginsHeld
  <2>10. QED
    BY <2>7, <2>8, <2>9 DEF Logins
<1>7. CASE LogOutErase(t) \/ Drop(t)
  <2> DEFINE s == loc[t].sock
  <2>1. /\ pc[t] \in {"logoutErase", "drop"} /\ s \in Sockets
        /\ pc'[t] = "idle"
        /\ idSet' = idSet /\ overlapped' = overlapped
        /\ userMap'[s] = NoSession
        /\ \A x \in Sockets \ {s} : userMap'[x] = userMap[x]
    BY <1>3, <1>7 DEF LogOutErase, Drop, EraseSession, At, Done, TypeOK, history
  <2>2. \A x \in Sockets : LoggedIn(x)' => LoggedIn(x) /\ x # s
    BY <1>1, <1>2, <2>1 DEF LoggedIn, TearingDown, HasSession
  <2>3. \A u \in Threads \ {t} : pc[u] = "eraseId" /\ loc[u].sock \notin overlapped => loc[u].sock # s
    BY <2>1 DEF OneHandler, Busy
  <2>4. IdRead'
    BY <1>1, <1>3, <2>1, <2>3 DEF Logins, IdRead, HasSession
  <2>5. IdsHeld' /\ IdsDistinct'
    BY <1>0, <2>1, <2>2 DEF Logins, IdsHeld, IdsDistinct
  <2>6. LoginsHeld'
    BY <1>0, <1>1, <2>1, <2>2 DEF Logins, LoginsHeld
  <2>7. QED
    BY <2>4, <2>5, <2>6 DEF Logins
<1>8. CASE ReadId(t)
  <2> DEFINE s == loc[t].sock
  <2>1. /\ pc[t] = "readId" /\ s \in Sockets /\ HasSession(s)
        /\ pc'[t] = "eraseId"
        /\ loc'[t].sock = s /\ loc'[t].id = userMap[s].id
        /\ idSet' = idSet /\ userMap' = userMap /\ overlapped' = overlapped
    BY <1>3, <1>8 DEF ReadId, At, AtSession, TypeOK, tables, history, Local
  <2>2. ~TearsDown(t) /\ ~TearsDown(t)'
    BY <2>1 DEF TearsDown
  <2>3. \A x \in Sockets : HasSession(x)' = HasSession(x) /\ LoggedIn(x)' = LoggedIn(x)
    BY <1>1, <1>2, <2>1, <2>2 DEF HasSession, LoggedIn, TearingDown
  <2>4. IdRead'
    BY <1>1, <1>3, <2>1, <2>3 DEF Logins, IdRead
  <2>5. IdsHeld' /\ IdsDistinct'
    BY <1>0, <2>1, <2>3 DEF Logins, IdsHeld, IdsDistinct
  <2>6. LoginsHeld'
    BY <1>0, <1>1, <2>1, <2>3 DEF Logins, LoginsHeld
  <2>7. QED
    BY <2>4, <2>5, <2>6 DEF Logins
<1>9. QED
  BY <1>0, <1>1, <1>3, <1>4, <1>5, <1>6, <1>7, <1>8, QuietSteps, LoginsFrame

-----------------------------------------------------------------------------
(* A step of no handler keeps the relation as well: when a handler starts on *)
(* a connection in hand, the texts of that connection are spoiled.           *)
LEMMA LoginsOtherStep ==
  ASSUME Inv, Control, Spoilt, Logins, NEW s \in Sockets, UNCHANGED <<idSet, userMap>>,
         overlapped \subseteq overlapped', overlapped' \subseteq overlapped \cup {s},
         spoiled \subseteq spoiled', s \in overlapped' => s \in overlapped \/ HeldIds(s) \subseteq spoiled',
         \A u \in Threads : \/ pc'[u] = pc[u] /\ loc'[u] = loc[u]
                            \/ pc[u] = "idle" /\ pc'[u] \in {"getStatus", "banCopy", "exitLive"}
  PROVE  Spoilt' /\ Logins'
<1>1. \A u \in Threads : /\ TearsDown(u)' <=> TearsDown(u)
                         /\ TearsDown(u) => loc'[u] = loc[u]
                         /\ pc'[u] \in {"initUser", "eraseId"} => pc'[u] = pc[u] /\ loc'[u] = loc[u]
  BY DEF TearsDown
<1>2. \A x \in Sockets : HasSession(x)' = HasSession(x) /\ (LoggedIn(x)' <=> LoggedIn(x))
  BY <1>1 DEF LoggedIn, TearingDown, HasSession
<1>3. \A u \in Threads : pc[u] = "eraseId" => loc[u].sock \in Sockets
  BY DEF Inv, LocalsOK
<1>4. IdRead' /\ IdsHeld' /\ IdsDistinct'
  BY <1>1, <1>2, <1>3 DEF Logins, IdRead, IdsHeld, IdsDistinct, Sound
<1>5. LoginsHeld'
  BY <1>1, <1>2 DEF Logins, LoginsHeld, Sound
<1>6. Spoilt'
  BY <1>1, SpoiltStart
<1>7. QED
  BY <1>4, <1>5, <1>6 DEF Logins

(* When the process ends nothing is left to relate.                          *)
LEMMA LoginsGone ==
  ASSUME NEW how, GoDown(how)
  PROVE  Spoilt' /\ Logins'
BY DEF GoDown, Spoilt, Logins, IdRead, IdsHeld, IdsDistinct, LoginsHeld, LoggedIn, HasSession

(* The whole invariant is inductive.                                         *)
LEMMA LoginInvStep ==
  ASSUME LoginInv, [Next]_vars
  PROVE  LoginInv'
<1> USE DEF LoginInv
<1>1. Inv' /\ Control'
  BY InvStep, ControlStep
<1>2. ASSUME NEW t \in Threads, Step(t)
      PROVE  Spoilt' /\ Logins'
  BY <1>2, SpoiltHandlerStep, LoginsStep
<1>3. CASE \/ \E t \in Workers, s \in Sockets, p \in Packets : Dispatch(t, s, p[1], p[2], p[3])
           \/ \E t \in Receivers, s \in Sockets : ClientExit(t, s)
  <2>1. PICK t \in Threads, s \in Sockets :
           /\ pc[t] = "idle" /\ UNCHANGED tables
           /\ \A u \in Threads \ {t} : pc'[u] = pc[u] /\ loc'[u] = loc[u]
           /\ pc'[t] \in {"getStatus", "banCopy", "exitLive"}
           /\ Start(s) \/ UNCHANGED history
    BY <1>3, StartEffect
  <2>2. /\ overlapped \subseteq overlapped' /\ overlapped' \subseteq overlapped \cup {s}
        /\ spoiled \subseteq spoiled'
        /\ s \in overlapped' => s \in overlapped \/ HeldIds(s) \subseteq spoiled'
    BY <2>1, StartFacts DEF Inv, history
  <2>3. UNCHANGED <<idSet, userMap>>
    BY <2>1 DEF tables
  <2>4. \A u \in Threads : \/ pc'[u] = pc[u] /\ loc'[u] = loc[u]
                           \/ pc[u] = "idle" /\ pc'[u] \in {"getStatus", "banCopy", "exitLive"}
    BY <2>1
  <2>5. QED
    BY <1>1, <2>2, <2>3, <2>4, LoginsOtherStep
<1>4. ASSUME NEW s \in Sockets, Accept(s)
      PROVE  Spoilt' /\ Logins'
  <2>1. /\ overlapped \subseteq overlapped' /\ overlapped' \subseteq overlapped \cup {s}
        /\ spoiled \subseteq spoiled'
        /\ s \in overlapped' => s \in overlapped \/ HeldIds(s) \subseteq spoiled'
    BY <1>4, StartFacts DEF Accept, Inv, history
  <2>2. UNCHANGED <<idSet, userMap, pc, loc>>
    BY <1>4 DEF Accept, tables
  <2>3. QED
    BY <2>1, <2>2, LoginsOtherStep
<1>5. CASE InsertLiveSocket \/ UNCHANGED vars
  <2>1. UNCHANGED <<idSet, userMap, pc, loc, overlapped, spoiled>>
    BY <1>5 DEF InsertLiveSocket, vars, tables, history
  <2>2. QED
    BY <1>1, <2>1 DEF Spoilt, Unsound, Logins, IdRead, IdsHeld, IdsDistinct, LoginsHeld, LoggedIn, HasSession,
                TearingDown, TearsDown, Sound
<1>6. ASSUME NEW t \in Threads, Exit(t) \/ Fault(t)
      PROVE  Spoilt' /\ Logins'
  BY <1>6, LoginsGone DEF Exit, Fault
<1>7. QED
  BY <1>1, <1>2, <1>3, <1>4, <1>5, <1>6, NextCases

(* The parts of the invariant hold at first.                                 *)
LEMMA InitLoginInv == Init => LoginInv
<1>1. Init => Control /\ Spoilt /\ Logins
  BY DEF Init, Control, OneHandler, OpsOK, Busy, Spoilt, Logins, IdRead, IdsHeld, IdsDistinct,
         LoginsHeld, LoggedIn, HasSession
<1>2. QED
  BY <1>1, InitInv DEF LoginInv

(* UserEnter's check of idSet does prevent duplicate logins: two connections *)
(* never have sessions of one text, unless a connection that two handlers    *)
(* have had in hand has used the text, or one of the sessions is on its way  *)
(* out.                                                                      *)
THEOREM LoginsAreUnique == Spec => []NoDuplicateLogin
<1>1. Init => LoginInv
  BY InitLoginInv
<1>2. LoginInv /\ [Next]_vars => LoginInv'
  BY LoginInvStep
<1>3. LoginInv => NoDuplicateLogin
  BY DEF LoginInv, Logins, IdsDistinct, LoggedIn, NoDuplicateLogin
<1>4. QED
  BY <1>1, <1>2, <1>3, PTL DEF Spec

-----------------------------------------------------------------------------
(* What a handler may rely on between its critical sections.  While no other *)
(* handler has its connection in hand, the session that a handler has read   *)
(* keeps its status, the text in idSet keeps its owner, and the tables of    *)
(* connections, sessions and rooms agree.                                    *)

(* The steps that follow a read of STATUS_WAITING, of STATUS_CHATTING, and   *)
(* of either.                                                                *)
LobbySteps == {"statusWait", "handler", "roomMake", "makeSession", "roomEnter", "enterSession",
               "friendGo", "friendRoom", "friendSession", "logout", "logoutErase", "erase", "drop"}
RoomSteps  == {"statusChat", "enterList", "friendList", "readRoom", "list", "reset"}
EitherSteps == {"talk", "readId", "eraseId", "readStatus"}

(* The session a handler of t concerns has the status the handler has read.  *)
Status(t) == userMap[loc[t].sock].status
StatusKept(t) ==
  /\ pc[t] \in {"userEnter", "initUser"} => Status(t) = "LOGOUT"
  /\ pc[t] \in LobbySteps => Status(t) = "WAITING"
  /\ pc[t] \in RoomSteps => Status(t) = "CHATTING"
  /\ pc[t] \in EitherSteps => Status(t) # "LOGOUT"
StatusOK == \A t \in Threads : loc[t].sock \notin overlapped => StatusKept(t)

SessionInv == LoginInv /\ StatusOK

-----------------------------------------------------------------------------
(* Connections.  RecvThreads run ClientExit only, on a connection that is    *)
(* closed; WorkThreads handle packets of open connections, unless handlers   *)
(* of the connection have overlapped.                                        *)

ExitSteps == {"exitLive", "exitFind", "readId", "eraseId", "readStatus", "readRoom", "list",
              "reset", "erase", "drop"}
ReceiversExit ==
  \A t \in Receivers : pc[t] # "idle" =>
    /\ pc[t] \in ExitSteps /\ loc[t].op = "HANGUP"
    /\ loc[t].sock \in overlapped \/ loc[t].sock \notin open
WorkersServe ==
  \A t \in Workers : pc[t] # "exitLive" /\ (Busy(t) => loc[t].sock \in open \cup overlapped)
LiveIsOpen ==
  \A s \in live \ overlapped :
    s \in open \/ \E t \in Receivers : pc[t] = "exitLive" /\ loc[t].sock = s

AcceptedIsOpen == accepting \in open \cup {Empty}

Connections ==
  /\ ReceiversExit /\ WorkersServe /\ LiveIsOpen /\ AcceptedIsOpen
  /\ SessionsOfConnectedUsers /\ ConnectedSocketsAreLive
ConnInv == SessionInv /\ Connections

-----------------------------------------------------------------------------
(* Rooms.                                                                    *)

(* A session, and a handler that leaves, never hold a name that is too long. *)
ShortNames ==
  /\ \A s \in Sockets : userMap[s].room \notin LongNames
  /\ \A t \in Threads : pc[t] \in {"list", "reset"} => loc[t].room \notin LongNames
(* The room a handler enters or leaves is the one its session names.         *)
RoomRead ==
  \A t \in Threads :
    (pc[t] \in {"enterList", "friendList", "list", "reset"} /\ loc[t].sock \notin overlapped) =>
      userMap[loc[t].sock].room = StoredName(loc[t].room)
(* The maker of a room is its member before its session says so; a handler   *)
(* that has left the list is not in it, while its session still names it.    *)
Makers ==
  \A t \in Threads : (pc[t] = "makeSession" /\ loc[t].sock \notin overlapped) =>
    loc[t].room \in rooms /\ loc[t].sock \in userList[loc[t].room]
Leavers ==
  \A t \in Threads : (pc[t] = "reset" /\ loc[t].sock \notin overlapped) =>
    loc[t].room \in Rooms /\ loc[t].sock \notin userList[loc[t].room]
(* The room of a session exists, except while its handler enters or leaves.  *)
ChatRoomExists ==
  \A s \in Sockets \ overlapped : userMap[s].status = "CHATTING" =>
    \/ userMap[s].room \in rooms \cup {Garbled}
    \/ \E t \in Threads : loc[t].sock = s /\ pc[t] \in {"enterList", "friendList", "reset"}

Lists == RoomRead /\ Makers /\ Leavers /\ ChatRoomExists /\ RoomsMatchSessions
Membership == ShortNames /\ Lists
RoomInv == SessionInv /\ Membership
-----------------------------------------------------------------------------
(* Sessions.                                                                 *)

(* The statuses, and the one that GetStatus answers without a session.       *)
LEMMA StatusFacts ==
  ASSUME TypeOK, NEW s \in Sockets
  PROVE  /\ userMap[s].status \in {"LOGOUT", "WAITING", "CHATTING"}
         /\ HasSession(s) <=> userMap[s].status # "LOGOUT"
         /\ HasSession(s) => userMap[s] \in Session
<1>1. CASE userMap[s] = NoSession
  BY <1>1 DEF HasSession, NoSession
<1>2. CASE userMap[s] # NoSession
  BY <1>2 DEF TypeOK, HasSession, Session
<1>3. QED
  BY <1>1, <1>2

(* A step changes the session of its own connection only.                    *)
LEMMA OwnSession ==
  ASSUME Inv, NEW t \in Threads, Step(t)
  PROVE  \A x \in Sockets : x # loc[t].sock => userMap'[x] = userMap[x]
<1> USE DEF Inv, TypeOK
<1>1. CASE GetStatus(t) \/ StatusWait(t) \/ StatusChat(t) \/ Handler(t) \/ Talk(t)
  BY <1>1 DEF GetStatus, StatusWait, StatusChat, Handler, Talk, tables
<1>2. CASE UserEnter(t) \/ InitUser(t) \/ LogOutId(t) \/ LogOutErase(t)
  BY <1>2 DEF UserEnter, InitUser, LogOutId, LogOutErase, EraseSession
<1>3. CASE RoomMake(t) \/ RoomEnter(t) \/ RoomEnterList(t) \/ FriendGo(t) \/ FriendGoRoom(t) \/ FriendGoList(t)
  BY <1>3 DEF RoomMake, RoomEnter, RoomEnterList, FriendGo, FriendGoRoom, FriendGoList, PushBack, tables
<1>4. CASE RoomMakeSession(t) \/ RoomEnterSession(t) \/ FriendGoSession(t)
  BY <1>4 DEF RoomMakeSession, RoomEnterSession, FriendGoSession, SetChatting
<1>5. CASE ExitLive(t) \/ ExitFind(t) \/ BanCopy(t) \/ ReadId(t) \/ EraseId(t) \/ ReadStatus(t) \/ Drop(t)
  BY <1>5 DEF ExitLive, ExitFind, BanCopy, ReadId, EraseId, ReadStatus, Drop, EraseSession, tables
<1>6. CASE ReadRoom(t) \/ LeaveList(t) \/ ResetSession(t) \/ EraseRoom(t)
  BY <1>6 DEF ReadRoom, LeaveList, ResetSession, EraseRoom, tables
<1>7. QED
  BY <1>1, <1>2, <1>3, <1>4, <1>5, <1>6 DEF Step

(* What SetChatting and ResetSession store.                                  *)
LEMMA SessionStored ==
  ASSUME TypeOK, NEW s \in Sockets, HasSession(s), NEW r, NEW st \in {"WAITING", "CHATTING"},
         userMap' = [userMap EXCEPT ![s].room = r, ![s].status = st]
  PROVE  /\ userMap'[s].room = r /\ userMap'[s].status = st
         /\ userMap'[s].id = userMap[s].id
BY StatusFacts DEF TypeOK, Session

(* A step of t leaves its session the status its next step relies on.        *)
LEMMA StatusStep ==
  ASSUME Inv, Control, NEW t \in Threads, StatusKept(t), Step(t)
  PROVE  StatusKept(t)'
<1> USE DEF Inv, TypeOK, StatusKept, Status, At, AtSession, Goto, Done
<1>0. pc[t] # "idle" => loc[t].sock \in Sockets
  BY DEF LocalsOK
<1>1. CASE GetStatus(t)
  BY <1>1 DEF GetStatus, StatusLogout, tables, LobbySteps, RoomSteps, EitherSteps
<1>2. CASE StatusWait(t) \/ StatusChat(t) \/ Handler(t) \/ Talk(t)
  BY <1>2 DEF StatusWait, StatusChat, Handler, Talk, tables, LobbySteps, RoomSteps, EitherSteps
<1>3. CASE UserEnter(t) \/ InitUser(t) \/ LogOutId(t) \/ LogOutErase(t)
  BY <1>3 DEF UserEnter, InitUser, LogOutId, LogOutErase, EraseSession, LobbySteps, RoomSteps, EitherSteps
<1>4. CASE RoomMake(t) \/ RoomEnter(t) \/ RoomEnterList(t)
  BY <1>4 DEF RoomMake, RoomEnter, RoomEnterList, PushBack, tables, LobbySteps, RoomSteps, EitherSteps, Local
<1>5. CASE FriendGo(t) \/ FriendGoRoom(t) \/ FriendGoList(t)
  BY <1>5 DEF FriendGo, FriendGoRoom, FriendGoList, PushBack, tables, LobbySteps, RoomSteps, EitherSteps, Local
<1>6. CASE RoomMakeSession(t) \/ RoomEnterSession(t) \/ FriendGoSession(t)
  <2>1. /\ SetChatting(t) /\ HasSession(loc[t].sock) /\ loc[t].sock \in Sockets
        /\ Done(t) \/ Goto(t, "enterList") \/ Goto(t, "friendList")
    BY <1>0, <1>6 DEF RoomMakeSession, RoomEnterSession, FriendGoSession
  <2>2. userMap'[loc[t].sock].status = "CHATTING"
    BY <2>1, SessionStored DEF SetChatting
  <2>3. QED
    BY <2>1, <2>2 DEF LobbySteps, RoomSteps, EitherSteps
<1>7. CASE ExitLive(t) \/ ExitFind(t) \/ ReadId(t) \/ EraseId(t)
  BY <1>0, <1>7, StatusFacts
    DEF ExitLive, ExitFind, ReadId, EraseId, tables, LobbySteps, RoomSteps, EitherSteps, Local
<1>8. CASE BanCopy(t)
  BY <1>8, StatusFacts DEF BanCopy, tables, LobbySteps, RoomSteps, EitherSteps, Local
<1>9. CASE ReadStatus(t) \/ Drop(t)
  BY <1>0, <1>9, StatusFacts DEF ReadStatus, Drop, EraseSession, tables, LobbySteps, RoomSteps, EitherSteps
<1>10. CASE ReadRoom(t) \/ LeaveList(t) \/ EraseRoom(t)
  BY <1>10 DEF ReadRoom, LeaveList, EraseRoom, tables, LobbySteps, RoomSteps, EitherSteps, Local
<1>11. CASE ResetSession(t)
  <2>1. userMap'[loc[t].sock].status = "WAITING"
    BY <1>0, <1>11, SessionStored DEF ResetSession
  <2>2. QED
    BY <1>11, <2>1 DEF ResetSession, LobbySteps, RoomSteps, EitherSteps
<1>12. QED
  BY <1>1, <1>2, <1>3, <1>4, <1>5, <1>6, <1>7, <1>8, <1>9, <1>10, <1>11 DEF Step

(* Every step keeps the status of the session in the hands of one handler:   *)
(* the handlers of other connections do not touch it.                        *)
LEMMA StatusOKStep ==
  ASSUME Inv, Control, StatusOK, [Next]_vars
  PROVE  StatusOK'
<1> USE DEF Inv, Control
<1>1. ASSUME NEW t \in Threads, Step(t)
      PROVE  StatusOK'
  <2>0. overlapped \subseteq overlapped' /\ (~BanCopy(t) => overlapped' = overlapped)
    BY <1>1, HistoryStep
  <2>1. loc'[t].sock \notin overlapped' => StatusKept(t)'
    <3>1. CASE BanCopy(t)
      <4>1. StatusKept(t)
        BY <3>1 DEF BanCopy, At, StatusKept, LobbySteps, RoomSteps, EitherSteps
      <4>2. QED
        BY <1>1, <4>1, StatusStep
    <3>2. CASE ~BanCopy(t)
      <4>1. pc'[t] = "idle" \/ loc'[t].sock = loc[t].sock
        BY <1>1, <3>2, SockKept
      <4>2. CASE pc'[t] = "idle"
        BY <4>2 DEF StatusKept, LobbySteps, RoomSteps, EitherSteps
      <4>3. QED
        BY <1>1, <2>0, <3>2, <4>1, <4>2, StatusStep DEF StatusOK
    <3>3. QED
      BY <3>1, <3>2
  <2>2. ASSUME NEW u \in Threads \ {t}, loc'[u].sock \notin overlapped'
        PROVE  StatusKept(u)'
    <3>1. pc'[u] = pc[u] /\ loc'[u] = loc[u] /\ StatusKept(u) /\ loc[u].sock \notin overlapped
      BY <1>1, <2>0, <2>2, OthersKept DEF StatusOK
    <3>2. CASE ~Busy(u)
      BY <3>1, <3>2 DEF Busy, StatusKept, LobbySteps, RoomSteps, EitherSteps
    <3>3. CASE Busy(u) /\ Busy(t)
      <4>1. loc[u].sock \in Sockets /\ loc[u].sock # loc[t].sock
        BY <3>1, <3>3 DEF LocalsOK, OneHandler, Busy
      <4>2. userMap'[loc[u].sock] = userMap[loc[u].sock]
        BY <1>1, <4>1, OwnSession
      <4>3. QED
        BY <3>1, <4>2 DEF StatusKept, Status
    <3>4. CASE ~Busy(t)
      <4>1. userMap' = userMap
        BY <1>1, <3>4, SockKept DEF BanCopy, tables
      <4>2. QED
        BY <3>1, <4>1 DEF StatusKept, Status
    <3>5. QED
      BY <3>2, <3>3, <3>4
  <2>3. QED
    BY <2>1, <2>2 DEF StatusOK
<1>2. ASSUME userMap' = userMap, overlapped \subseteq overlapped',
             \A u \in Threads : \/ pc'[u] = pc[u] /\ loc'[u] = loc[u]
                                \/ pc'[u] \in {"getStatus", "banCopy", "exitLive"}
      PROVE  StatusOK'
  BY <1>2 DEF StatusOK, StatusKept, Status, LobbySteps, RoomSteps, EitherSteps
<1>3. CASE \/ \E t \in Workers, s \in Sockets, p \in Packets : Dispatch(t, s, p[1], p[2], p[3])
           \/ \E t \in Receivers, s \in Sockets : ClientExit(t, s)
  <2>1. PICK t \in Threads, s \in Sockets :
           /\ UNCHANGED tables
           /\ \A u \in Threads \ {t} : pc'[u] = pc[u] /\ loc'[u] = loc[u]
           /\ pc'[t] \in {"getStatus", "banCopy", "exitLive"}
           /\ Start(s) \/ UNCHANGED history
    BY <1>3, StartEffect
  <2>2. overlapped \subseteq overlapped' /\ userMap' = userMap
    BY <2>1, StartFacts DEF history, tables
  <2>3. \A u \in Threads : \/ pc'[u] = pc[u] /\ loc'[u] = loc[u]
                           \/ pc'[u] \in {"getStatus", "banCopy", "exitLive"}
    BY <2>1
  <2>4. QED
    BY <1>2, <2>2, <2>3
<1>4. ASSUME NEW s \in Sockets, Accept(s)
      PROVE  StatusOK'
  BY <1>2, <1>4, StartFacts DEF Accept, tables
<1>5. CASE InsertLiveSocket \/ UNCHANGED vars
  BY <1>2, <1>5 DEF InsertLiveSocket, vars, tables, history
<1>6. ASSUME NEW t \in Threads, Exit(t) \/ Fault(t)
      PROVE  StatusOK'
  BY <1>6 DEF Exit, Fault, GoDown, StatusOK, StatusKept, LobbySteps, RoomSteps, EitherSteps
<1>7. QED
  BY <1>1, <1>3, <1>4, <1>5, <1>6, NextCases

(* All parts together hold at first.                                         *)
LEMMA InitSessionInv == Init => SessionInv
<1>1. Init => StatusOK
  BY DEF Init, StatusOK, StatusKept, LobbySteps, RoomSteps, EitherSteps
<1>2. QED
  BY <1>1, InitLoginInv DEF SessionInv

(* Every step keeps them.                                                    *)
LEMMA SessionInvStep ==
  ASSUME SessionInv, [Next]_vars
  PROVE  SessionInv'
BY LoginInvStep, StatusOKStep DEF SessionInv, LoginInv

-----------------------------------------------------------------------------
(* Logins, step by step.                                                     *)

(* The steps that leave ids and sessions alone start and end no tear-down    *)
(* and no login.                                                             *)
LEMMA QuietTears ==
  ASSUME Inv, Control, NEW t \in Threads, Step(t),
         ~UserEnter(t), ~InitUser(t), ~LogOutId(t), ~LogOutErase(t),
         ~ReadId(t), ~EraseId(t), ~Drop(t)
  PROVE  /\ TearsDown(t)' => TearsDown(t) /\ loc'[t].sock = loc[t].sock
         /\ pc[t] # "initUser"
<1> USE DEF Inv, Control, TypeOK, Goto, Done, At, AtSession, TearsDown
<1>1. CASE GetStatus(t) \/ StatusWait(t) \/ StatusChat(t) \/ Handler(t) \/ Talk(t)
  BY <1>1 DEF GetStatus, StatusLogout, StatusWait, StatusChat, Handler, Talk
<1>2. CASE RoomMake(t) \/ RoomEnter(t) \/ RoomEnterList(t)
  BY <1>2 DEF RoomMake, RoomEnter, RoomEnterList, PushBack
<1>3. CASE FriendGo(t) \/ FriendGoRoom(t) \/ FriendGoList(t)
  BY <1>3 DEF FriendGo, FriendGoRoom, FriendGoList, PushBack
<1>4. CASE RoomMakeSession(t) \/ RoomEnterSession(t) \/ FriendGoSession(t)
  BY <1>4 DEF RoomMakeSession, RoomEnterSession, FriendGoSession
<1>5. CASE ExitLive(t) \/ ExitFind(t) \/ BanCopy(t)
  BY <1>5 DEF ExitLive, ExitFind, BanCopy
<1>6. CASE ReadStatus(t)
  BY <1>6 DEF ReadStatus, OpsOK
<1>7. CASE ReadRoom(t) \/ LeaveList(t)
  BY <1>7 DEF ReadRoom, LeaveList, Local
<1>8. CASE ResetSession(t) \/ EraseRoom(t)
  BY <1>8 DEF ResetSession, EraseRoom, OpsOK
<1>9. QED
  BY <1>1, <1>2, <1>3, <1>4, <1>5, <1>6, <1>7, <1>8 DEF Step

(* Nothing changes in who is logged in and who is logging in.                *)
SameLogins ==
  /\ idSet' = idSet
  /\ \A s \in Sockets : /\ LoggedIn(s)' <=> LoggedIn(s)
                        /\ LoggedIn(s) => userMap'[s].id = userMap[s].id
  /\ \A u \in Threads : /\ (pc'[u] = "initUser" <=> pc[u] = "initUser")
                        /\ pc[u] = "initUser" => loc'[u] = loc[u]

(* Only four steps change it; those that erase a session find it already     *)
(* being torn down.                                                          *)
LEMMA LoginsSame ==
  ASSUME Inv, Control, NEW t \in Threads, Step(t),
         ~UserEnter(t), ~InitUser(t), ~LogOutId(t), ~EraseId(t)
  PROVE  SameLogins
<1> USE DEF Inv, Control
<1>1. \A u \in Threads \ {t} : pc'[u] = pc[u] /\ loc'[u] = loc[u] /\ (TearsDown(u)' <=> TearsDown(u))
  BY OthersKept DEF TearsDown
<1>2. CASE ReadId(t)
  <2>1. /\ pc[t] = "readId" /\ pc'[t] = "eraseId" /\ loc'[t].sock = loc[t].sock
        /\ UNCHANGED <<idSet, userMap>>
    BY <1>2 DEF ReadId, At, AtSession, TypeOK, tables, Local
  <2>2. ~TearsDown(t) /\ ~TearsDown(t)'
    BY <2>1 DEF TearsDown
  <2>3. QED
    BY <1>1, <2>1, <2>2 DEF SameLogins, LoggedIn, TearingDown, HasSession
<1>3. CASE LogOutErase(t) \/ Drop(t)
  <2>1. PICK s \in Sockets :
          /\ s = loc[t].sock
          /\ pc[t] \in {"logoutErase", "drop"} /\ pc'[t] = "idle"
          /\ userMap' = [userMap EXCEPT ![s] = NoSession]
          /\ idSet' = idSet
    BY <1>3 DEF LogOutErase, Drop, EraseSession, At, Done, TypeOK, LocalsOK
  <2>2. TearsDown(t) /\ ~TearsDown(t)'
    BY <2>1 DEF TearsDown
  <2>3. ~LoggedIn(s) /\ ~LoggedIn(s)'
    BY <2>1, <2>2 DEF LoggedIn, TearingDown, HasSession, TypeOK
  <2>4. ASSUME NEW x \in Sockets \ {s}
        PROVE  userMap'[x] = userMap[x] /\ (LoggedIn(x)' <=> LoggedIn(x))
    BY <1>1, <2>1, <2>2 DEF LoggedIn, TearingDown, HasSession, TypeOK
  <2>5. QED
    BY <1>1, <2>1, <2>3, <2>4 DEF SameLogins
<1>4. CASE ~ReadId(t) /\ ~LogOutErase(t) /\ ~Drop(t)
  <2>1. /\ idSet' = idSet
        /\ \A s \in Sockets : HasSession(s)' = HasSession(s) /\ userMap'[s].id = userMap[s].id
        /\ TearsDown(t) => TearsDown(t)' /\ loc'[t].sock = loc[t].sock
        /\ pc'[t] # "initUser"
    BY <1>4, QuietSteps
  <2>2. /\ TearsDown(t)' => TearsDown(t) /\ loc'[t].sock = loc[t].sock
        /\ pc[t] # "initUser"
    BY <1>4, QuietTears
  <2>3. \A s \in Sockets : TearingDown(s)' <=> TearingDown(s)
    BY <1>1, <2>1, <2>2 DEF TearingDown
  <2>4. QED
    BY <1>1, <2>1, <2>2, <2>3 DEF SameLogins, LoggedIn
<1>5. QED
  BY <1>2, <1>3, <1>4

(* UserEnter puts a new id into idSet and starts a login, or ends.           *)
LEMMA UserEnterEffect ==
  ASSUME Inv, Control, NEW t \in Threads, UserEnter(t)
  PROVE  \/ SameLogins
         \/ /\ pc[t] = "userEnter" /\ pc'[t] = "initUser" /\ loc' = loc
            /\ loc[t].id \notin idSet /\ idSet' = idSet \cup {loc[t].id}
            /\ userMap' = userMap
            /\ \A s \in Sockets : LoggedIn(s)' <=> LoggedIn(s)
            /\ \A u \in Threads \ {t} : pc'[u] = pc[u]
<1> USE DEF Inv, Control
<1>1. \A u \in Threads \ {t} : pc'[u] = pc[u] /\ loc'[u] = loc[u] /\ (TearsDown(u)' <=> TearsDown(u))
  BY OthersKept DEF TearsDown, Step
<1>2. /\ pc[t] = "userEnter" /\ pc'[t] \in {"initUser", "idle"}
      /\ userMap' = userMap
      /\ \/ pc'[t] = "idle" /\ idSet' = idSet
         \/ /\ pc'[t] = "initUser" /\ loc' = loc
            /\ loc[t].id \notin idSet /\ idSet' = idSet \cup {loc[t].id}
  BY DEF UserEnter, IdTaken, At, Goto, Done, TypeOK
<1>3. ~TearsDown(t) /\ ~TearsDown(t)'
  BY <1>2 DEF TearsDown
<1>4. \A s \in Sockets : LoggedIn(s)' <=> LoggedIn(s)
  BY <1>1, <1>2, <1>3 DEF LoggedIn, TearingDown, HasSession
<1>5. QED
  BY <1>1, <1>2, <1>4 DEF SameLogins

(* A step of no handler leaves the logins as they are.                       *)
LEMMA OtherStepsSame ==
  ASSUME Inv, UNCHANGED <<idSet, userMap>>,
         \A u \in Threads : \/ pc'[u] = pc[u] /\ loc'[u] = loc[u]
                            \/ pc[u] = "idle" /\ pc'[u] \in {"getStatus", "banCopy", "exitLive"}
  PROVE  SameLogins
<1>1. \A u \in Threads : /\ TearsDown(u)' <=> TearsDown(u)
                         /\ TearsDown(u) => loc'[u] = loc[u]
  BY DEF TearsDown
<1>2. \A s \in Sockets : TearingDown(s)' <=> TearingDown(s)
  BY <1>1 DEF TearingDown
<1>3. QED
  BY <1>2 DEF SameLogins, LoggedIn, HasSession

(* Connection s has the sound text id: its login is under way, or done and   *)
(* nobody tears the session down.                                            *)
Holds(s, id) ==
  /\ Sound(id)
  /\ \/ \E t \in Threads : pc[t] = "initUser" /\ loc[t].sock = s /\ loc[t].id = id
     \/ LoggedIn(s) /\ userMap[s].id = id

(* Whoever holds a sound text is not overlapped, holds no other one, and the *)
(* text is in idSet.                                                         *)
LEMMA HoldsFacts ==
  ASSUME SessionInv, NEW s \in Sockets, NEW id, Holds(s, id)
  PROVE  /\ s \notin overlapped /\ id \in idSet /\ id \in Ids /\ id # Garbled
         /\ \A t \in Threads : pc[t] = "initUser" /\ loc[t].sock = s => loc[t].id = id /\ ~LoggedIn(s)
         /\ LoggedIn(s) => userMap[s].id = id
<1> USE DEF SessionInv, LoginInv
<1>0. id \in Ids /\ id \notin Unsound
  BY DEF Holds, Sound, Unsound
<1>1. CASE LoggedIn(s) /\ userMap[s].id = id
  <2>1. s \notin overlapped
    BY <1>0, <1>1 DEF Spoilt, LoggedIn
  <2>2. \A t \in Threads : ~(pc[t] = "initUser" /\ loc[t].sock = s)
    BY <1>1, <2>1, StatusFacts DEF StatusOK, StatusKept, Status, LoggedIn, Inv
  <2>3. QED
    BY <1>0, <1>1, <2>1, <2>2 DEF Holds, Logins, IdsHeld, Unsound
<1>2. ASSUME NEW t \in Threads, pc[t] = "initUser", loc[t].sock = s, loc[t].id = id
      PROVE  /\ s \notin overlapped /\ id \in idSet
             /\ \A u \in Threads : pc[u] = "initUser" /\ loc[u].sock = s => u = t
             /\ ~LoggedIn(s)
  <2>1. s \notin overlapped
    BY <1>0, <1>2 DEF Spoilt
  <2>2. ~LoggedIn(s)
    BY <1>2, <2>1, StatusFacts DEF StatusOK, StatusKept, Status, LoggedIn, Inv
  <2>3. QED
    BY <1>2, <2>1, <2>2 DEF Holds, Logins, LoginsHeld, Control, OneHandler, Busy
<1>3. QED
  BY <1>0, <1>1, <1>2 DEF Holds, Unsound

(* What a step does to the sound texts: nothing, but that some are spoiled;  *)
(* or a connection that holds none gets one that is not in idSet; or one     *)
(* gives up the text it has.                                                 *)
Fresh(id) == id \notin spoiled'
HeldAsBefore ==
  /\ spoiled \subseteq spoiled'
  /\ \A id : Sound(id)' => (id \in idSet' <=> id \in idSet)
  /\ \A s \in Sockets : \A id : Holds(s, id)' <=> Holds(s, id) /\ Fresh(id)
Taken(c, a) ==
  /\ spoiled' = spoiled /\ Sound(a) /\ a \notin idSet /\ idSet' = idSet \cup {a}
  /\ \A id : ~Holds(c, id)
  /\ \A s \in Sockets : \A id : Holds(s, id)' <=> Holds(s, id) \/ (s = c /\ id = a)
GivenUp(c, a) ==
  /\ spoiled' = spoiled /\ Holds(c, a) /\ idSet' = idSet \ {a}
  /\ \A s \in Sockets : \A id : Holds(s, id)' <=> Holds(s, id) /\ s # c

(* If nobody logs in or out, the texts are held as before.                   *)
LEMMA SameHeld ==
  ASSUME SameLogins, spoiled \subseteq spoiled'
  PROVE  HeldAsBefore
<1>1. \A id : Sound(id)' <=> Sound(id) /\ Fresh(id)
  BY DEF Sound, Fresh
<1>2. ASSUME NEW s \in Sockets, NEW id
      PROVE  Holds(s, id)' <=> Holds(s, id) /\ Fresh(id)
  BY <1>1 DEF SameLogins, Holds
<1>3. QED
  BY <1>1, <1>2 DEF HeldAsBefore, SameLogins

(* UserEnter takes a text for its connection, unless that is overlapped or   *)
(* the text is not sound.                                                    *)
LEMMA UserEnterHolds ==
  ASSUME SessionInv, NEW t \in Threads, UserEnter(t)
  PROVE  HeldAsBefore \/ \E c \in Sockets, a \in Ids : Taken(c, a)
<1> USE DEF SessionInv, LoginInv
<1>0. spoiled \subseteq spoiled' /\ overlapped' = overlapped
  BY DEF UserEnter
<1>1. CASE SameLogins
  BY <1>0, <1>1, SameHeld
<1>2. CASE ~SameLogins
  <2>1. /\ pc[t] = "userEnter" /\ pc'[t] = "initUser" /\ loc' = loc
        /\ loc[t].id \notin idSet /\ idSet' = idSet \cup {loc[t].id}
        /\ userMap' = userMap
        /\ \A s \in Sockets : LoggedIn(s)' <=> LoggedIn(s)
        /\ \A u \in Threads \ {t} : pc'[u] = pc[u]
    BY <1>2, UserEnterEffect
  <2>2. /\ loc[t].sock \in Sockets /\ loc[t].id \in Ids
        /\ loc[t].sock \in overlapped => loc[t].id \in spoiled'
        /\ loc[t].sock \notin overlapped => spoiled' = spoiled
    <3>1. loc[t].sock \in Sockets /\ loc[t].id \in Ids
      BY <2>1 DEF Inv, LocalsOK
    <3>2. ~Done(t)
      BY <2>1 DEF Done, Inv, TypeOK
    <3>3. QED
      BY <3>1, <3>2 DEF UserEnter
  <2>3. \A id : Sound(id)' <=> Sound(id) /\ Fresh(id)
    BY <1>0 DEF Sound, Fresh
  <2>4. ASSUME NEW s \in Sockets, NEW id
        PROVE  Holds(s, id)' <=> /\ Fresh(id)
                                 /\ Holds(s, id) \/ (Sound(id) /\ s = loc[t].sock /\ id = loc[t].id)
    <3>1. (\E u \in Threads : pc'[u] = "initUser" /\ loc'[u].sock = s /\ loc'[u].id = id)
            <=> \/ \E u \in Threads : pc[u] = "initUser" /\ loc[u].sock = s /\ loc[u].id = id
                \/ s = loc[t].sock /\ id = loc[t].id
      BY <2>1
    <3>2. LoggedIn(s)' <=> LoggedIn(s)
      BY <2>1
    <3>3. Sound(id)' <=> Sound(id) /\ Fresh(id)
      BY <2>3
    <3>4. QED
      BY <2>1, <3>1, <3>2, <3>3 DEF Holds
  <2>5. CASE ~Sound(loc[t].id) \/ loc[t].sock \in overlapped
    <3>1. ~(Sound(loc[t].id) /\ Fresh(loc[t].id))
      BY <2>2, <2>5 DEF Fresh
    <3>2. \A id : Sound(id)' => (id \in idSet' <=> id \in idSet)
      BY <2>1, <2>3, <3>1
    <3>3. ASSUME NEW s \in Sockets, NEW id
          PROVE  Holds(s, id)' <=> Holds(s, id) /\ Fresh(id)
      <4>1. id = loc[t].id => ~(Sound(id) /\ Fresh(id))
        BY <3>1
      <4>2. QED
        BY <2>4, <4>1
    <3>4. QED
      BY <1>0, <3>2, <3>3 DEF HeldAsBefore
  <2>6. CASE Sound(loc[t].id) /\ loc[t].sock \notin overlapped
    <3>1. PICK c \in Sockets : c = loc[t].sock
      BY <2>2
    <3>2. ~LoggedIn(c)
      BY <2>1, <2>6, <3>1, StatusFacts DEF StatusOK, StatusKept, Status, LoggedIn, Inv
    <3>3. ~ \E u \in Threads : pc[u] = "initUser" /\ loc[u].sock = c
      BY <2>1, <2>6, <3>1 DEF Control, OneHandler, Busy
    <3>4. \A id : ~Holds(c, id)
      BY <3>2, <3>3 DEF Holds
    <3>5. \A id : Sound(id) => Fresh(id)
      BY <2>2, <2>6 DEF Sound, Fresh
    <3>6. \A s \in Sockets : \A id : Holds(s, id)' <=> Holds(s, id) \/ (s = c /\ id = loc[t].id)
      <4> SUFFICES ASSUME NEW s \in Sockets, NEW id
                   PROVE  Holds(s, id)' <=> Holds(s, id) \/ (s = c /\ id = loc[t].id)
        OBVIOUS
      <4>1. Holds(s, id) => Fresh(id)
        BY <3>5 DEF Holds
      <4>2. id = loc[t].id => Sound(id) /\ Fresh(id)
        BY <2>6, <3>5
      <4>3. QED
        BY <2>4, <3>1, <4>1, <4>2
    <3>7. Taken(c, loc[t].id)
      BY <2>1, <2>2, <2>6, <3>4, <3>6 DEF Taken
    <3>8. QED
      BY <2>2, <3>7
  <2>7. QED
    BY <2>5, <2>6
<1>3. QED
  BY <1>1, <1>2

(* InitUser moves a text from the login to the session.                      *)
LEMMA InitUserHolds ==
  ASSUME SessionInv, SessionInv', NEW t \in Threads, InitUser(t)
  PROVE  HeldAsBefore
<1> USE DEF SessionInv, LoginInv
<1>1. PICK c \in Sockets :
        /\ c = loc[t].sock /\ pc[t] = "initUser" /\ pc'[t] = "idle" /\ loc[t].id \in Ids
        /\ idSet' = idSet /\ overlapped' = overlapped /\ spoiled' = spoiled
        /\ userMap' = [userMap EXCEPT ![c] = NewSession(loc[t].id, "WAITING")]
  BY DEF InitUser, At, Done, Inv, TypeOK, LocalsOK, history
<1>2. \A u \in Threads \ {t} : pc'[u] = pc[u] /\ loc'[u] = loc[u] /\ (TearsDown(u)' <=> TearsDown(u))
  BY OthersKept DEF TearsDown, Step, Inv
<1>3. ~TearsDown(t) /\ ~TearsDown(t)'
  BY <1>1 DEF TearsDown
<1>4. \A id : Sound(id)' <=> Sound(id)
  BY <1>1 DEF Sound
<1>5. ASSUME NEW s \in Sockets \ {c}, NEW id
      PROVE  Holds(s, id)' <=> Holds(s, id)
  <2>1. userMap'[s] = userMap[s]
    BY <1>1 DEF Inv, TypeOK
  <2>2. LoggedIn(s)' <=> LoggedIn(s)
    BY <1>2, <1>3, <2>1 DEF LoggedIn, TearingDown, HasSession
  <2>3. QED
    BY <1>1, <1>2, <1>4, <2>1, <2>2 DEF Holds
<1>6. HasSession(c)' /\ userMap'[c].id = StoredName(loc[t].id)
  BY <1>1 DEF Inv, TypeOK, HasSession, NewSession, NoSession
<1>7. ASSUME NEW id
      PROVE  Holds(c, id)' <=> Holds(c, id)
  <2>1. CASE c \in overlapped
    <3>1. ~Holds(c, id)
      BY <2>1, HoldsFacts
    <3>2. ASSUME Holds(c, id)' PROVE FALSE
      <4>1. id \notin Unsound /\ c \in overlapped' /\ Unsound' = Unsound
        BY <1>1, <2>1, <3>2 DEF Holds, Sound, Unsound
      <4>2. userMap'[c].id \in Unsound
        BY <1>6, <4>1 DEF Spoilt, HasSession
      <4>3. \A u \in Threads : pc'[u] = "initUser" /\ loc'[u].sock = c => loc'[u].id \in Unsound
        BY <4>1 DEF Spoilt
      <4>4. QED
        BY <3>2, <4>1, <4>2, <4>3 DEF Holds
    <3>3. QED
      BY <3>1, <3>2
  <2>2. CASE c \notin overlapped
    <3>1. ~LoggedIn(c)
      BY <1>1, <2>2, StatusFacts DEF StatusOK, StatusKept, Status, LoggedIn, Inv
    <3>2. \A u \in Threads \ {t} : Busy(u) => loc[u].sock # c
      BY <1>1, <2>2 DEF Control, OneHandler, Busy
    <3>3. Holds(c, id) <=> Sound(id) /\ id = loc[t].id
      BY <1>1, <3>1, <3>2 DEF Holds, Busy
    <3>4. LoggedIn(c)'
      BY <1>2, <1>3, <1>6, <3>2 DEF LoggedIn, TearingDown, Busy, TearsDown
    <3>5. Holds(c, id)' <=> Sound(id) /\ id = StoredName(loc[t].id)
      BY <1>1, <1>2, <1>4, <1>6, <3>2, <3>4 DEF Holds, Busy
    <3>6. Sound(id) => (id = StoredName(loc[t].id) <=> id = loc[t].id)
      BY <1>1 DEF Sound, StoredName
    <3>7. QED
      BY <3>3, <3>5, <3>6
  <2>3. QED
    BY <2>1, <2>2
<1>8. \A s \in Sockets : \A id : Holds(s, id)' <=> Holds(s, id)
  BY <1>5, <1>7
<1>9. \A s \in Sockets : \A id : Holds(s, id) => Fresh(id)
  BY <1>1 DEF Holds, Sound, Fresh
<1>10. QED
  BY <1>1, <1>8, <1>9 DEF HeldAsBefore

(* LOG_OUT, ClientExit and BanUser give up the text of the session they tear *)
(* down; on an overlapped connection they touch no sound text.               *)
LEMMA LogOutHolds ==
  ASSUME SessionInv, NEW t \in Threads, LogOutId(t) \/ EraseId(t)
  PROVE  HeldAsBefore \/ \E c \in Sockets, a \in Ids : GivenUp(c, a)
<1> USE DEF SessionInv, LoginInv
<1>1. PICK c \in Sockets :
        /\ c = loc[t].sock /\ pc[t] \in {"logout", "eraseId"} /\ pc'[t] \in {"logoutErase", "readStatus"}
        /\ loc' = loc /\ userMap' = userMap /\ overlapped' = overlapped /\ spoiled' = spoiled
  BY DEF LogOutId, EraseId, At, AtSession, Goto, Inv, TypeOK, LocalsOK, history
<1>2. \A u \in Threads \ {t} : pc'[u] = pc[u] /\ loc'[u] = loc[u] /\ (TearsDown(u)' <=> TearsDown(u))
  BY OthersKept DEF TearsDown, Step, Inv
<1>3. ~TearsDown(t) /\ TearsDown(t)'
  BY <1>1 DEF TearsDown
<1>4. ~LoggedIn(c)' /\ \A s \in Sockets \ {c} : LoggedIn(s)' <=> LoggedIn(s)
  BY <1>1, <1>2, <1>3 DEF LoggedIn, TearingDown, HasSession
<1>5. \A id : /\ Sound(id)' <=> Sound(id)
              /\ Sound(id) => Fresh(id)
  BY <1>1 DEF Sound, Fresh
<1>6. \A u \in Threads : pc'[u] = "initUser" <=> pc[u] = "initUser"
  BY <1>1, <1>2
<1>7. \A s \in Sockets : \A id :
        Holds(s, id)' <=> /\ Sound(id)
                          /\ \/ \E u \in Threads : pc[u] = "initUser" /\ loc[u].sock = s /\ loc[u].id = id
                             \/ s # c /\ LoggedIn(s) /\ userMap[s].id = id
  <2> SUFFICES ASSUME NEW s \in Sockets, NEW id
               PROVE  Holds(s, id)' <=>
                        /\ Sound(id)
                        /\ \/ \E u \in Threads : pc[u] = "initUser" /\ loc[u].sock = s /\ loc[u].id = id
                           \/ s # c /\ LoggedIn(s) /\ userMap[s].id = id
    OBVIOUS
  <2>1. Sound(id)' <=> Sound(id)
    BY <1>5
  <2>2. LoggedIn(s)' <=> s # c /\ LoggedIn(s)
    BY <1>4
  <2>3. (\E u \in Threads : pc'[u] = "initUser" /\ loc'[u].sock = s /\ loc'[u].id = id)
          <=> \E u \in Threads : pc[u] = "initUser" /\ loc[u].sock = s /\ loc[u].id = id
    BY <1>1, <1>6
  <2>4. QED
    BY <1>1, <2>1, <2>2, <2>3 DEF Holds
<1>8. CASE c \in overlapped
  <2>1. \A id \in idSet \ idSet' : id \in Unsound
    BY <1>1, <1>8 DEF LogOutId, EraseId, At, AtSession, Spoilt
  <2>2. idSet' \subseteq idSet
    BY DEF LogOutId, EraseId
  <2>3. LoggedIn(c) => ~Sound(userMap[c].id)
    BY <1>8 DEF Spoilt, LoggedIn, Sound, Unsound
  <2>4. \A s \in Sockets : \A id : Holds(s, id)' <=> Holds(s, id) /\ Fresh(id)
    BY <1>5, <1>7, <2>3 DEF Holds
  <2>5. QED
    BY <1>1, <1>5, <2>1, <2>2, <2>4 DEF HeldAsBefore, Sound, Unsound
<1>9. CASE c \notin overlapped
  <2>1. HasSession(c) /\ idSet' = idSet \ {userMap[c].id}
    BY <1>1, <1>9 DEF LogOutId, EraseId, At, AtSession, Logins, IdRead
  <2>2. \A u \in Threads \ {t} : Busy(u) => loc[u].sock # c
    BY <1>1, <1>9 DEF Control, OneHandler, Busy
  <2>3. LoggedIn(c)
    BY <1>3, <2>1, <2>2 DEF LoggedIn, TearingDown, Busy, TearsDown
  <2>4. \A u \in Threads : pc[u] = "initUser" => loc[u].sock # c
    BY <1>1, <2>2 DEF Busy
  <2>5. CASE Sound(userMap[c].id)
    <3>1. Holds(c, userMap[c].id) /\ userMap[c].id \in Ids
      BY <2>3, <2>5 DEF Holds, Sound
    <3>2. \A s \in Sockets : \A id : Holds(s, id)' <=> Holds(s, id) /\ s # c
      BY <1>7, <2>4 DEF Holds
    <3>3. GivenUp(c, userMap[c].id)
      BY <1>1, <2>1, <3>1, <3>2 DEF GivenUp
    <3>4. QED
      BY <3>1, <3>3
  <2>6. CASE ~Sound(userMap[c].id)
    <3>1. \A s \in Sockets : \A id : Holds(s, id)' <=> Holds(s, id) /\ Fresh(id)
      <4> SUFFICES ASSUME NEW s \in Sockets, NEW id
                   PROVE  Holds(s, id)' <=> Holds(s, id) /\ Fresh(id)
        OBVIOUS
      <4>1. s = c /\ userMap[s].id = id => ~Sound(id)
        BY <2>6
      <4>2. Sound(id) => Fresh(id)
        BY <1>5
      <4>3. QED
        BY <1>7, <4>1, <4>2 DEF Holds
    <3>2. QED
      BY <1>1, <1>5, <2>1, <2>6, <3>1 DEF HeldAsBefore
  <2>7. QED
    BY <2>5, <2>6
<1>10. QED
  BY <1>8, <1>9

(* The three together, for every step that does not end the process.         *)
LEMMA HoldsStep ==
  ASSUME SessionInv, SessionInv', [Next]_vars
  PROVE  \/ HeldAsBefore
         \/ \E c \in Sockets, a \in Ids : Taken(c, a) \/ GivenUp(c, a)
         \/ \E t \in Threads : Exit(t) \/ Fault(t)
<1> USE DEF SessionInv, LoginInv
<1>1. ASSUME NEW t \in Threads, Step(t)
      PROVE  HeldAsBefore \/ \E c \in Sockets, a \in Ids : Taken(c, a) \/ GivenUp(c, a)
  <2>1. spoiled \subseteq spoiled'
    BY <1>1, HistoryStep DEF Inv
  <2>2. CASE ~UserEnter(t) /\ ~InitUser(t) /\ ~LogOutId(t) /\ ~EraseId(t)
    BY <1>1, <2>1, <2>2, LoginsSame, SameHeld
  <2>3. QED
    BY <2>2, UserEnterHolds, InitUserHolds, LogOutHolds
<1>2. CASE \/ \E t \in Workers, s \in Sockets, p \in Packets : Dispatch(t, s, p[1], p[2], p[3])
           \/ \E t \in Receivers, s \in Sockets : ClientExit(t, s)
  <2>1. PICK t \in Threads, s \in Sockets :
           /\ pc[t] = "idle" /\ UNCHANGED tables
           /\ \A u \in Threads \ {t} : pc'[u] = pc[u] /\ loc'[u] = loc[u]
           /\ pc'[t] \in {"getStatus", "banCopy", "exitLive"}
           /\ Start(s) \/ UNCHANGED history
    BY <1>2, StartEffect
  <2>2. spoiled \subseteq spoiled' /\ UNCHANGED <<idSet, userMap>>
    BY <2>1, StartFacts DEF Inv, history, tables
  <2>3. \A u \in Threads : \/ pc'[u] = pc[u] /\ loc'[u] = loc[u]
                           \/ pc[u] = "idle" /\ pc'[u] \in {"getStatus", "banCopy", "exitLive"}
    BY <2>1
  <2>4. QED
    BY <2>2, <2>3, OtherStepsSame, SameHeld
<1>3. ASSUME NEW s \in Sockets, Accept(s)
      PROVE  HeldAsBefore
  <2>1. spoiled \subseteq spoiled' /\ UNCHANGED <<idSet, userMap, pc, loc>>
    BY <1>3, StartFacts DEF Accept, Inv, tables
  <2>2. QED
    BY <2>1, OtherStepsSame, SameHeld
<1>4. CASE InsertLiveSocket \/ UNCHANGED vars
  <2>1. UNCHANGED <<idSet, userMap, pc, loc, spoiled>>
    BY <1>4 DEF InsertLiveSocket, vars, tables, history
  <2>2. QED
    BY <2>1, OtherStepsSame, SameHeld
<1>5. QED
  BY <1>1, <1>2, <1>3, <1>4, NextCases

(* A sound text in idSet is held by a connection.                            *)
IdsAreHeld == \A id \in idSet : Sound(id) => \E s \in Sockets : Holds(s, id)

(* No login text is locked out: a text that UserEnter finds in idSet belongs *)
(* to a session nobody tears down or to a login under way, unless a          *)
(* connection that two handlers have had in hand has used it.                *)
THEOREM NoAccountLockedOut == Spec => []NoOrphanId
<1> DEFINE I == SessionInv /\ IdsAreHeld
<1>1. Init => I
  BY InitSessionInv DEF Init, IdsAreHeld
<1>2. I /\ [Next]_vars => I'
  <2> SUFFICES ASSUME I, [Next]_vars PROVE I'
    OBVIOUS
  <2>1. SessionInv'
    BY SessionInvStep
  <2>2. CASE HeldAsBefore
    <3>1. \A id : Sound(id)' => Sound(id) /\ Fresh(id)
      BY <2>2 DEF HeldAsBefore, Sound, Fresh
    <3>2. QED
      BY <2>1, <2>2, <3>1 DEF HeldAsBefore, IdsAreHeld
  <2>3. ASSUME NEW c \in Sockets, NEW a \in Ids, Taken(c, a) \/ GivenUp(c, a)
        PROVE  I'
    <3>1. \A id : Sound(id)' <=> Sound(id)
      BY <2>3 DEF Taken, GivenUp, Sound
    <3>2. \A id : GivenUp(c, a) /\ Holds(c, id) => id = a
      BY <2>3, HoldsFacts DEF GivenUp, Holds
    <3>3. ASSUME NEW id \in idSet', Sound(id)'
          PROVE  \E s \in Sockets : Holds(s, id)'
      <4>1. Sound(id)
        BY <3>1, <3>3
      <4>2. CASE Taken(c, a)
        <5>1. CASE id = a
          BY <4>2, <5>1 DEF Taken
        <5>2. CASE id # a
          <6>1. PICK s \in Sockets : Holds(s, id)
            BY <3>3, <4>1, <4>2, <5>2 DEF Taken, IdsAreHeld
          <6>2. Holds(s, id)'
            BY <4>2, <6>1 DEF Taken
          <6>3. QED
            BY <6>2
        <5>3. QED
          BY <5>1, <5>2
      <4>3. CASE GivenUp(c, a)
        <5>1. PICK s \in Sockets : Holds(s, id)
          BY <3>3, <4>1, <4>3 DEF GivenUp, IdsAreHeld
        <5>2. s # c
          BY <3>2, <3>3, <4>3, <5>1 DEF GivenUp
        <5>3. Holds(s, id)'
          BY <4>3, <5>1, <5>2 DEF GivenUp
        <5>4. QED
          BY <5>3
      <4>4. QED
        BY <2>3, <4>2, <4>3
    <3>4. QED
      BY <2>1, <3>3 DEF IdsAreHeld
  <2>4. ASSUME NEW t \in Threads, Exit(t) \/ Fault(t)
        PROVE  I'
    BY <2>1, <2>4 DEF Exit, Fault, GoDown, IdsAreHeld
  <2>5. QED
    BY <2>1, <2>2, <2>3, <2>4, HoldsStep
<1>3. I => NoOrphanId
  BY DEF IdsAreHeld, NoOrphanId, Holds, LoggedIn
<1>4. QED
  BY <1>1, <1>2, <1>3, PTL DEF Spec

-----------------------------------------------------------------------------
(* BusinessService implements LoginService.                                  *)

(* The refinement mapping, without LoggedInAs's choice: what is promised to  *)
(* a connection is the sound text it holds.                                  *)
MappingOK ==
  \A s \in Sockets : /\ \A id : Holds(s, id) => Promised(s) = id
                     /\ (\A id : ~Holds(s, id)) => Promised(s) = Empty

(* The login LoggedInAs chooses is one that is under way.                    *)
LEMMA ChosenLogin ==
  ASSUME NEW s, \E t \in Threads : pc[t] = "initUser" /\ loc[t].sock = s
  PROVE  \E t \in Threads : pc[t] = "initUser" /\ loc[t].sock = s /\ LoggedInAs(s) = loc[t].id
<1>1. PICK c : c = CHOOSE t \in Threads : pc[t] = "initUser" /\ loc[t].sock = s
  OBVIOUS
<1>2. c \in Threads /\ pc[c] = "initUser" /\ loc[c].sock = s
  BY <1>1, Zenon
<1>3. LoggedInAs(s) = loc[c].id
  BY <1>1, Zenon DEF LoggedInAs
<1>4. QED
  BY <1>2, <1>3

(* The mapping is as described in every state the invariant allows.          *)
LEMMA Mapping == SessionInv => MappingOK
<1> SUFFICES ASSUME SessionInv, NEW s \in Sockets
             PROVE  /\ \A id : Holds(s, id) => Promised(s) = id
                    /\ (\A id : ~Holds(s, id)) => Promised(s) = Empty
  BY DEF MappingOK
<1>1. CASE \E t \in Threads : pc[t] = "initUser" /\ loc[t].sock = s
  <2>1. PICK t \in Threads : pc[t] = "initUser" /\ loc[t].sock = s /\ LoggedInAs(s) = loc[t].id
    BY <1>1, ChosenLogin
  <2>2. ASSUME NEW id, Holds(s, id) PROVE Promised(s) = id
    <3>1. loc[t].id = id
      BY <2>1, <2>2, HoldsFacts
    <3>2. QED
      BY <2>1, <2>2, <3>1 DEF Promised, Holds
  <2>3. ASSUME \A id : ~Holds(s, id) PROVE Promised(s) = Empty
    <3>1. ~Sound(loc[t].id)
      BY <2>1, <2>3 DEF Holds
    <3>2. QED
      BY <2>1, <3>1 DEF Promised
  <2>4. QED
    BY <2>2, <2>3
<1>2. CASE ~ \E t \in Threads : pc[t] = "initUser" /\ loc[t].sock = s
  <2>1. LoggedInAs(s) = IF LoggedIn(s) THEN userMap[s].id ELSE Empty
    BY <1>2 DEF LoggedInAs, LoggedIn
  <2>2. \A id : Holds(s, id) <=> Sound(id) /\ LoggedIn(s) /\ userMap[s].id = id
    BY <1>2 DEF Holds
  <2>3. ~Sound(Empty)
    BY ConstantsAssumption DEF Sound
  <2>4. QED
    BY <2>1, <2>2, <2>3 DEF Promised
<1>3. QED
  BY <1>1, <1>2

(* The same in the next state.                                               *)
LEMMA MappingNext == SessionInv' => MappingOK'
  BY Mapping, PTL

(* What is promised to a connection is nothing or a text it holds.           *)
LEMMA PromisedIsHeld ==
  ASSUME MappingOK, NEW s \in Sockets
  PROVE  Promised(s) = Empty \/ Holds(s, Promised(s))
<1>1. CASE \A id : ~Holds(s, id)
  BY <1>1 DEF MappingOK
<1>2. ASSUME NEW id, Holds(s, id) PROVE Holds(s, Promised(s))
  BY <1>2 DEF MappingOK
<1>3. QED
  BY <1>1, <1>2

(* Where the texts are held as before, those that are spoiled are forsaken.  *)
LEMMA PromisedForsake ==
  ASSUME SessionInv, TypeOK', MappingOK, MappingOK', HeldAsBefore
  PROVE  Promise!Next
<1> DEFINE A == (spoiled' \ spoiled) \ LongNames
<1>1. A \in SUBSET (Ids \ LongNames)
  BY DEF TypeOK
<1>2. (spoiled \ LongNames)' = (spoiled \ LongNames) \cup A
  BY DEF HeldAsBefore
<1>3. ASSUME NEW s \in Sockets
      PROVE  Promised(s)' = IF Promised(s) \in A THEN Empty ELSE Promised(s)
  <2>1. ASSUME NEW id, Holds(s, id)
        PROVE  Promised(s)' = IF Promised(s) \in A THEN Empty ELSE Promised(s)
    <3>1. Promised(s) = id
      BY <2>1 DEF MappingOK
    <3>2. id \in A <=> ~Fresh(id)
      BY <2>1 DEF Holds, Sound, Fresh
    <3>3. CASE Fresh(id)
      <4>1. Holds(s, id)'
        BY <2>1, <3>3 DEF HeldAsBefore
      <4>2. Promised(s)' = id
        BY <4>1 DEF MappingOK
      <4>3. QED
        BY <3>1, <3>2, <3>3, <4>2
    <3>4. CASE ~Fresh(id)
      <4>1. ASSUME NEW j, Holds(s, j)' PROVE FALSE
        <5>1. Holds(s, j) /\ Fresh(j)
          BY <4>1 DEF HeldAsBefore
        <5>2. j = id
          BY <3>1, <5>1 DEF MappingOK
        <5>3. QED
          BY <3>4, <5>1, <5>2
      <4>2. Promised(s)' = Empty
        BY <4>1 DEF MappingOK
      <4>3. QED
        BY <3>1, <3>2, <3>4, <4>2
    <3>5. QED
      BY <3>3, <3>4
  <2>2. CASE \A id : ~Holds(s, id)
    <3>1. Promised(s) = Empty
      BY <2>2 DEF MappingOK
    <3>2. \A id : ~Holds(s, id)'
      BY <2>2 DEF HeldAsBefore
    <3>3. Promised(s)' = Empty
      BY <3>2 DEF MappingOK
    <3>4. QED
      BY <3>1, <3>3
  <2>3. QED
    BY <2>1, <2>2
<1>4. [s \in Sockets |-> Promised(s)]'
        = [s \in Sockets |-> IF Promised(s) \in A THEN Empty ELSE Promised(s)]
  BY <1>3
<1>5. Promise!Forsake(A)
  BY <1>2, <1>4 DEF Promise!Forsake
<1>6. QED
  BY <1>1, <1>5 DEF Promise!Next

(* A text that is taken is a login.                                          *)
LEMMA PromisedEnter ==
  ASSUME SessionInv, MappingOK, MappingOK', NEW c \in Sockets, NEW a \in Ids, Taken(c, a)
  PROVE  Promise!Next
<1>1. Sound(a) /\ a \notin idSet /\ a # Empty /\ spoiled' = spoiled
  BY ConstantsAssumption DEF Taken
<1>2. Promised(c) = Empty
  BY DEF Taken, MappingOK
<1>3. ASSUME NEW d \in Sockets, Promised(d) = a PROVE FALSE
  <2>1. Holds(d, a)
    BY <1>1, <1>3, PromisedIsHeld
  <2>2. QED
    BY <1>1, <2>1, HoldsFacts
<1>4. ASSUME NEW s \in Sockets
      PROVE  Promised(s)' = IF s = c THEN a ELSE Promised(s)
  <2>1. CASE s = c
    <3>1. Holds(s, a)'
      BY <2>1 DEF Taken
    <3>2. QED
      BY <2>1, <3>1 DEF MappingOK
  <2>2. CASE s # c
    <3>1. \A id : Holds(s, id)' <=> Holds(s, id)
      BY <2>2 DEF Taken
    <3>2. CASE \A id : ~Holds(s, id)
      <4>1. \A id : ~Holds(s, id)'
        BY <3>1, <3>2
      <4>2. Promised(s)' = Empty /\ Promised(s) = Empty
        BY <3>2, <4>1 DEF MappingOK
      <4>3. QED
        BY <2>2, <4>2
    <3>3. ASSUME NEW id, Holds(s, id) PROVE Promised(s)' = Promised(s)
      <4>1. Holds(s, id)'
        BY <3>1, <3>3
      <4>2. QED
        BY <3>3, <4>1 DEF MappingOK
    <3>4. QED
      BY <2>2, <3>2, <3>3
  <2>3. QED
    BY <2>1, <2>2
<1>5. [s \in Sockets |-> Promised(s)]' = [[s \in Sockets |-> Promised(s)] EXCEPT ![c] = a]
  BY <1>4
<1>6. Promise!Enter(c, a)
  BY <1>1, <1>2, <1>3, <1>5 DEF Promise!Enter, Sound
<1>7. a \in Ids \ LongNames
  BY <1>1 DEF Sound
<1>8. QED
  BY <1>6, <1>7 DEF Promise!Next

(* A text that is given up is a logout.                                      *)
LEMMA PromisedLeave ==
  ASSUME SessionInv, MappingOK, MappingOK', NEW c \in Sockets, NEW a \in Ids, GivenUp(c, a)
  PROVE  Promise!Next
<1>1. Promised(c) = a /\ a # Empty /\ spoiled' = spoiled
  BY ConstantsAssumption DEF GivenUp, MappingOK
<1>2. ASSUME NEW s \in Sockets
      PROVE  Promised(s)' = IF s = c THEN Empty ELSE Promised(s)
  <2>1. CASE s = c
    <3>1. \A id : ~Holds(s, id)'
      BY <2>1 DEF GivenUp
    <3>2. QED
      BY <2>1, <3>1 DEF MappingOK
  <2>2. CASE s # c
    <3>1. \A id : Holds(s, id)' <=> Holds(s, id)
      BY <2>2 DEF GivenUp
    <3>2. CASE \A id : ~Holds(s, id)
      <4>1. \A id : ~Holds(s, id)'
        BY <3>1, <3>2
      <4>2. Promised(s)' = Empty /\ Promised(s) = Empty
        BY <3>2, <4>1 DEF MappingOK
      <4>3. QED
        BY <2>2, <4>2
    <3>3. ASSUME NEW id, Holds(s, id) PROVE Promised(s)' = Promised(s)
      <4>1. Holds(s, id)'
        BY <3>1, <3>3
      <4>2. QED
        BY <3>3, <4>1 DEF MappingOK
    <3>4. QED
      BY <2>2, <3>2, <3>3
  <2>3. QED
    BY <2>1, <2>2
<1>3. [s \in Sockets |-> Promised(s)]' = [[s \in Sockets |-> Promised(s)] EXCEPT ![c] = Empty]
  BY <1>2
<1>4. Promise!Leave(c)
  BY <1>1, <1>3 DEF Promise!Leave
<1>5. QED
  BY <1>4 DEF Promise!Next

(* When the process ends nobody is logged in.                                *)
LEMMA PromisedStop ==
  ASSUME MappingOK', NEW t \in Threads, Exit(t) \/ Fault(t)
  PROVE  Promise!Next
<1>1. /\ spoiled' = {} /\ userMap' = [s \in Sockets |-> NoSession]
      /\ pc' = [u \in Threads |-> "idle"]
  BY DEF Exit, Fault, GoDown
<1>2. ASSUME NEW s \in Sockets PROVE Promised(s)' = Empty
  <2>1. ~LoggedIn(s)' /\ \A u \in Threads : pc'[u] # "initUser"
    BY <1>1 DEF LoggedIn, HasSession
  <2>2. \A id : ~Holds(s, id)'
    BY <2>1 DEF Holds
  <2>3. QED
    BY <2>2 DEF MappingOK
<1>3. [s \in Sockets |-> Promised(s)]' = [s \in Sockets |-> Empty] /\ (spoiled \ LongNames)' = {}
  BY <1>1, <1>2
<1>4. Promise!Stop
  BY <1>3 DEF Promise!Stop
<1>5. QED
  BY <1>4 DEF Promise!Next

(* UserEnter, LOG_OUT, ClientExit and BanUser implement LoginService, also   *)
(* while handlers of other connections overlap: every login text stays with  *)
(* one connection until that gives it up or the text is forsaken.            *)
THEOREM ImplementsLoginService == Spec => IsLoginService
<1> DEFINE user == [s \in Sockets |-> Promised(s)]
           forsaken == spoiled \ LongNames
<1>1. Init => SessionInv
  BY InitSessionInv
<1>2. SessionInv /\ [Next]_vars => SessionInv'
  BY SessionInvStep
<1>3. Init => Promise!Init
  <2>1. ASSUME Init, NEW s \in Sockets PROVE Promised(s) = Empty
    BY <2>1 DEF Init, Promised, LoggedInAs, HasSession
  <2>2. Init => spoiled \ LongNames = {}
    BY DEF Init
  <2>3. QED
    BY <2>1, <2>2 DEF Promise!Init
<1>4. SessionInv /\ SessionInv' /\ [Next]_vars => [Promise!Next]_<<user, forsaken>>
  <2> SUFFICES ASSUME SessionInv, SessionInv', [Next]_vars PROVE Promise!Next
    OBVIOUS
  <2>1. MappingOK /\ MappingOK'
    BY Mapping, MappingNext
  <2>2. TypeOK'
    BY DEF SessionInv, LoginInv, Inv
  <2>3. QED
    BY <2>1, <2>2, HoldsStep, PromisedForsake, PromisedEnter, PromisedLeave, PromisedStop
<1>5. QED
  BY <1>1, <1>2, <1>3, <1>4, PTL DEF Spec, IsLoginService, Promise!Spec

-----------------------------------------------------------------------------
(* Rooms are changed through the lobby.                                      *)

(* The handlers store CHATTING only in a session that is WAITING.            *)
LEMMA LobbyStep ==
  ASSUME SessionInv, [Next]_vars, NEW s \in Sockets \ overlapped,
         userMap[s].status = "CHATTING", userMap'[s].status = "CHATTING"
  PROVE  userMap'[s] = userMap[s]
<1> USE DEF SessionInv, LoginInv, Inv
<1>1. ASSUME NEW t \in Threads, Step(t), s = loc[t].sock
      PROVE  userMap'[s] = userMap[s]
  <2> USE DEF At, AtSession, TypeOK, StatusOK, StatusKept, Status
  <2>1. CASE GetStatus(t) \/ StatusWait(t) \/ StatusChat(t) \/ Handler(t) \/ Talk(t)
    BY <2>1 DEF GetStatus, StatusWait, StatusChat, Handler, Talk, tables
  <2>2. CASE InitUser(t)
    BY <1>1, <2>2 DEF InitUser, NewSession
  <2>3. CASE LogOutErase(t) \/ Drop(t)
    BY <1>1, <2>3 DEF LogOutErase, Drop, EraseSession, NoSession
  <2>4. CASE RoomMakeSession(t) \/ RoomEnterSession(t) \/ FriendGoSession(t)
    BY <1>1, <2>4 DEF RoomMakeSession, RoomEnterSession, FriendGoSession, LobbySteps
  <2>5. CASE ResetSession(t)
    <3>1. userMap'[s].status = "WAITING"
      BY <1>1, <2>5, SessionStored DEF ResetSession
    <3>2. QED
      BY <3>1
  <2>6. CASE UserEnter(t) \/ LogOutId(t) \/ RoomMake(t) \/ RoomEnter(t) \/ RoomEnterList(t)
    BY <2>6 DEF UserEnter, LogOutId, RoomMake, RoomEnter, RoomEnterList, PushBack, tables
  <2>7. CASE FriendGo(t) \/ FriendGoRoom(t) \/ FriendGoList(t) \/ ExitLive(t) \/ ExitFind(t) \/ BanCopy(t)
    BY <2>7 DEF FriendGo, FriendGoRoom, FriendGoList, PushBack, ExitLive, ExitFind, BanCopy, tables
  <2>8. CASE ReadId(t) \/ EraseId(t) \/ ReadStatus(t) \/ ReadRoom(t) \/ LeaveList(t) \/ EraseRoom(t)
    BY <2>8 DEF ReadId, EraseId, ReadStatus, ReadRoom, LeaveList, EraseRoom, tables
  <2>9. QED
    BY <1>1, <2>1, <2>2, <2>3, <2>4, <2>5, <2>6, <2>7, <2>8 DEF Step
<1>2. ASSUME NEW t \in Threads, Step(t), s # loc[t].sock
      PROVE  userMap'[s] = userMap[s]
  BY <1>2, OwnSession
<1>3. CASE userMap' = userMap
  BY <1>3
<1>4. ASSUME NEW t \in Threads, Exit(t) \/ Fault(t)
      PROVE  userMap'[s] = userMap[s]
  BY <1>4 DEF Exit, Fault, GoDown, NoSession
<1>5. QED
  BY <1>1, <1>2, <1>3, <1>4, NextCases
     DEF Dispatch, ClientExit, Accept, InsertLiveSocket, vars, tables

(* A session changes rooms only through the lobby, whatever packets its      *)
(* client sends and whatever handlers of other connections overlap.          *)
THEOREM RoomsChangeViaLobby == Spec => RoomChangeViaLobby
<1> DEFINE Change == \A s \in Sockets \ overlapped :
                       (userMap[s].status = "CHATTING" /\ userMap'[s].status = "CHATTING")
                         => userMap'[s] = userMap[s]
<1>1. Init => SessionInv
  BY InitSessionInv
<1>2. SessionInv /\ [Next]_vars => SessionInv'
  BY SessionInvStep
<1>3. SessionInv /\ [Next]_vars => [Change]_vars
  BY LobbyStep
<1>4. QED
  BY <1>1, <1>2, <1>3, PTL DEF Spec, RoomChangeViaLobby

-----------------------------------------------------------------------------
(* Connections.                                                              *)

(* Handlers open and close no connection, and only ClientExit unregisters.   *)
LEMMA StepConns ==
  ASSUME TypeOK, NEW t \in Threads, Step(t)
  PROVE  /\ UNCHANGED <<open, accepting>>
         /\ live' = IF pc[t] = "exitLive" THEN live \ {loc[t].sock} ELSE live
         /\ pc'[t] # "exitLive"
<1> USE DEF TypeOK, Goto, Done, conns, At, AtSession
<1>1. CASE GetStatus(t) \/ StatusWait(t) \/ StatusChat(t) \/ Handler(t) \/ Talk(t)
  BY <1>1 DEF GetStatus, StatusLogout, StatusWait, StatusChat, Handler, Talk
<1>2. CASE UserEnter(t) \/ InitUser(t) \/ LogOutId(t) \/ LogOutErase(t)
  BY <1>2 DEF UserEnter, InitUser, LogOutId, LogOutErase, EraseSession
<1>3. CASE RoomMake(t) \/ RoomMakeSession(t) \/ RoomEnter(t) \/ RoomEnterSession(t) \/ RoomEnterList(t)
  BY <1>3 DEF RoomMake, RoomMakeSession, RoomEnter, RoomEnterSession, RoomEnterList, PushBack
<1>4. CASE FriendGo(t) \/ FriendGoRoom(t) \/ FriendGoSession(t) \/ FriendGoList(t)
  BY <1>4 DEF FriendGo, FriendGoRoom, FriendGoSession, FriendGoList, PushBack
<1>5. CASE ExitLive(t) \/ ExitFind(t) \/ BanCopy(t) \/ ReadId(t) \/ EraseId(t) \/ ReadStatus(t) \/ Drop(t)
  BY <1>5 DEF ExitLive, ExitFind, BanCopy, ReadId, EraseId, ReadStatus, Drop, EraseSession
<1>6. CASE ReadRoom(t) \/ LeaveList(t) \/ ResetSession(t) \/ EraseRoom(t)
  BY <1>6 DEF ReadRoom, LeaveList, ResetSession, EraseRoom
<1>7. QED
  BY <1>1, <1>2, <1>3, <1>4, <1>5, <1>6 DEF Step

(* Only InitUser adds a session.                                             *)
LEMMA NoNewSession ==
  ASSUME Inv, Control, NEW t \in Threads, Step(t), ~InitUser(t), NEW x \in Sockets, HasSession(x)'
  PROVE  HasSession(x)
<1>1. CASE LogOutErase(t) \/ Drop(t)
  BY <1>1 DEF LogOutErase, Drop, EraseSession, Inv, TypeOK, HasSession
<1>2. CASE UserEnter(t) \/ LogOutId(t) \/ ReadId(t) \/ EraseId(t)
  BY <1>2 DEF UserEnter, LogOutId, ReadId, EraseId, tables, HasSession
<1>3. QED
  BY <1>1, <1>2, QuietSteps

(* ClientExit runs to its end on one connection, and at its end the          *)
(* connection has no session.                                                *)
LEMMA ReceiverStep ==
  ASSUME Inv, NEW t \in Threads, pc[t] \in ExitSteps, loc[t].op = "HANGUP",
         NEW s \in Sockets, s = loc[t].sock, Step(t)
  PROVE  \/ pc'[t] = "idle" /\ ~HasSession(s)'
         \/ pc'[t] \in ExitSteps /\ loc'[t].op = "HANGUP" /\ loc'[t].sock = s
<1> USE DEF Inv, TypeOK, Goto, Done, At, AtSession, ExitSteps
<1>1. CASE ExitLive(t) \/ ExitFind(t)
  BY <1>1 DEF ExitLive, ExitFind, tables, HasSession
<1>2. CASE ReadId(t) \/ EraseId(t) \/ ReadStatus(t)
  BY <1>2 DEF ReadId, EraseId, ReadStatus, Local
<1>3. CASE Drop(t)
  BY <1>3 DEF Drop, EraseSession, HasSession
<1>4. CASE ReadRoom(t) \/ LeaveList(t)
  BY <1>4 DEF ReadRoom, LeaveList, Local
<1>5. CASE ResetSession(t) \/ EraseRoom(t)
  BY <1>5 DEF ResetSession, EraseRoom
<1>6. CASE GetStatus(t) \/ StatusWait(t) \/ StatusChat(t) \/ Handler(t) \/ Talk(t) \/ UserEnter(t) \/ InitUser(t)
  BY <1>6 DEF GetStatus, StatusWait, StatusChat, Handler, Talk, UserEnter, InitUser
<1>7. CASE LogOutId(t) \/ LogOutErase(t) \/ RoomMake(t) \/ RoomMakeSession(t) \/ RoomEnter(t) \/ RoomEnterSession(t)
  BY <1>7 DEF LogOutId, LogOutErase, RoomMake, RoomMakeSession, RoomEnter, RoomEnterSession
<1>8. CASE RoomEnterList(t) \/ FriendGo(t) \/ FriendGoRoom(t) \/ FriendGoSession(t) \/ FriendGoList(t) \/ BanCopy(t)
  BY <1>8 DEF RoomEnterList, FriendGo, FriendGoRoom, FriendGoSession, FriendGoList, BanCopy
<1>9. QED
  BY <1>1, <1>2, <1>3, <1>4, <1>5, <1>6, <1>7, <1>8 DEF Step

(* At most one handler or ClientExit of a connection that is not overlapped, *)
(* so the one whose step is taken knows what the tables hold for it.         *)
LEMMA ConnHandlerStep ==
  ASSUME ConnInv, NEW t \in Threads, Step(t), ~BanCopy(t)
  PROVE  Connections'
<1> USE DEF ConnInv, Connections, SessionInv, LoginInv
<1>0. /\ Inv /\ Control /\ TypeOK
      /\ Busy(t) /\ pc[t] # "idle"
      /\ (pc'[t] # "idle" => loc'[t].sock = loc[t].sock)
      /\ \A u \in Threads \ {t} : pc'[u] = pc[u] /\ loc'[u] = loc[u]
      /\ overlapped' = overlapped
  BY OthersKept, SockKept, HistoryStep DEF Inv, Busy
<1>1. /\ open' = open /\ accepting' = accepting
      /\ live' = IF pc[t] = "exitLive" THEN live \ {loc[t].sock} ELSE live
      /\ pc'[t] # "exitLive"
  BY <1>0, StepConns
<1>2. t \in Receivers =>
        \A s \in Sockets : s = loc[t].sock =>
          \/ pc'[t] = "idle" /\ ~HasSession(s)'
          \/ pc'[t] \in ExitSteps /\ loc'[t].op = "HANGUP" /\ loc'[t].sock = s
  BY <1>0, ReceiverStep DEF ReceiversExit
<1>3. loc[t].sock \in Sockets
  BY <1>0 DEF Inv, LocalsOK
<1>4. ReceiversExit'
  <2>1. ASSUME NEW u \in Receivers, pc'[u] # "idle"
        PROVE  /\ pc'[u] \in ExitSteps /\ loc'[u].op = "HANGUP"
               /\ loc'[u].sock \in overlapped' \/ loc'[u].sock \notin open'
    BY <1>0, <1>1, <1>2, <1>3, <2>1 DEF ReceiversExit, Threads
  <2>2. QED
    BY <2>1 DEF ReceiversExit
<1>5. WorkersServe'
  BY <1>0, <1>1 DEF WorkersServe, Busy, Threads
<1>6. LiveIsOpen' /\ AcceptedIsOpen'
  BY <1>0, <1>1 DEF LiveIsOpen, AcceptedIsOpen, Threads
<1>7. SessionsOfConnectedUsers'
  <2>1. SUFFICES ASSUME NEW s \in Sockets \ overlapped, HasSession(s)', s \notin open
                 PROVE  \E u \in Receivers : pc'[u] # "idle" /\ loc'[u].sock = s
    BY <1>0, <1>1 DEF SessionsOfConnectedUsers
  <2>2. CASE InitUser(t)
    <3>1. t \in Workers /\ loc[t].sock \in open \cup overlapped
      BY <1>0, <2>2 DEF InitUser, At, ReceiversExit, ExitSteps, WorkersServe, Threads
    <3>2. userMap'[s] = userMap[s]
      BY <1>0, <2>1, <3>1, OwnSession
    <3>3. HasSession(s)
      BY <2>1, <3>2 DEF HasSession
    <3>4. PICK u \in Receivers : pc[u] # "idle" /\ loc[u].sock = s
      BY <2>1, <3>3 DEF SessionsOfConnectedUsers
    <3>5. QED
      BY <1>0, <2>1, <3>1, <3>4 DEF Threads
  <2>3. CASE ~InitUser(t)
    <3>1. HasSession(s)
      BY <1>0, <2>1, <2>3, NoNewSession
    <3>2. PICK u \in Receivers : pc[u] # "idle" /\ loc[u].sock = s
      BY <2>1, <3>1 DEF SessionsOfConnectedUsers
    <3>3. QED
      BY <1>0, <1>2, <2>1, <3>2 DEF Threads, ExitSteps
  <2>4. QED
    BY <2>2, <2>3
<1>8. ConnectedSocketsAreLive'
  <2>1. pc[t] = "exitLive" => loc[t].sock \notin open \/ loc[t].sock \in overlapped
    BY <1>0 DEF ReceiversExit, WorkersServe, Threads
  <2>2. QED
    BY <1>0, <1>1, <2>1 DEF ConnectedSocketsAreLive
<1>9. QED
  BY <1>4, <1>5, <1>6, <1>7, <1>8

(* A BAN packet takes a connection in hand that is open, or that is in the   *)
(* hands of another thread and so overlaps.                                  *)
LEMMA ConnBanStep ==
  ASSUME ConnInv, NEW t \in Threads, BanCopy(t)
  PROVE  Connections'
<1> USE DEF ConnInv, Connections, SessionInv, LoginInv, Inv
<1>0. /\ pc[t] = "banCopy" /\ UNCHANGED <<open, accepting, live, userMap>>
      /\ \A u \in Threads \ {t} : pc'[u] = pc[u] /\ loc'[u] = loc[u]
      /\ pc'[t] \in {"idle", "readId"}
      /\ overlapped \subseteq overlapped'
  <2>1. Step(t)
    BY DEF Step
  <2>2. QED
    BY <2>1, BanCopyEffect, HistoryStep DEF conns, tables
<1>1. t \in Workers \ Receivers
  BY <1>0, ConstantsAssumption DEF ReceiversExit, ExitSteps, Threads
<1>2. ReceiversExit'
  BY <1>0, <1>1 DEF ReceiversExit, Threads
<1>3. LiveIsOpen' /\ AcceptedIsOpen' /\ SessionsOfConnectedUsers' /\ ConnectedSocketsAreLive'
  BY <1>0, <1>1 DEF LiveIsOpen, AcceptedIsOpen, SessionsOfConnectedUsers, ConnectedSocketsAreLive,
                    HasSession, Threads
<1>4. CASE pc'[t] = "idle"
  BY <1>0, <1>2, <1>3, <1>4 DEF WorkersServe, Busy, Threads
<1>5. ASSUME NEW s \in Sockets, HasSession(s), Start(s), pc'[t] = "readId", loc'[t].sock = s
      PROVE  Connections'
  <2>1. s \in open \cup overlapped'
    <3>1. CASE Concerned(s)
      BY <1>5, <3>1, StartFacts
    <3>2. CASE ~Concerned(s)
      BY <1>0, <1>5, <3>2 DEF SessionsOfConnectedUsers, Concerned, ReceiversExit, ExitSteps, Threads
    <3>3. QED
      BY <3>1, <3>2
  <2>2. WorkersServe'
    BY <1>0, <1>5, <2>1 DEF WorkersServe, Busy, Threads
  <2>3. QED
    BY <1>2, <1>3, <2>2
<1>6. QED
  BY <1>4, <1>5, BanCopyEffect

(* Every step keeps the tables of connections and sessions together.         *)
LEMMA ConnStep ==
  ASSUME ConnInv, [Next]_vars
  PROVE  Connections'
<1> USE DEF ConnInv, Connections, SessionInv, LoginInv, Inv
<1>1. ASSUME NEW s \in Sockets, Accept(s)
      PROVE  Connections'
  <2>1. /\ open' = open \cup {s} /\ accepting = Empty /\ accepting' = s
        /\ UNCHANGED <<live, userMap, pc, loc>>
        /\ overlapped \subseteq overlapped' /\ (Concerned(s) => s \in overlapped')
    BY <1>1, StartFacts DEF Accept, tables
  <2>2. ReceiversExit'
    BY <2>1 DEF ReceiversExit, Concerned, ExitSteps, Threads
  <2>3. WorkersServe' /\ LiveIsOpen' /\ AcceptedIsOpen' /\ SessionsOfConnectedUsers'
    BY <2>1 DEF WorkersServe, Busy, LiveIsOpen, AcceptedIsOpen, SessionsOfConnectedUsers, HasSession
  <2>4. ConnectedSocketsAreLive'
    BY <2>1, ConstantsAssumption DEF ConnectedSocketsAreLive, TypeOK
  <2>5. QED
    BY <2>2, <2>3, <2>4
<1>2. CASE InsertLiveSocket
  <2>1. /\ live' = live \cup {accepting} /\ accepting # Empty /\ accepting' = Empty
        /\ UNCHANGED <<open, userMap, pc, loc, overlapped>>
    BY <1>2 DEF InsertLiveSocket, tables, history
  <2>2. ReceiversExit' /\ WorkersServe' /\ AcceptedIsOpen' /\ SessionsOfConnectedUsers'
    BY <2>1 DEF ReceiversExit, WorkersServe, Busy, AcceptedIsOpen, SessionsOfConnectedUsers, HasSession
  <2>3. LiveIsOpen' /\ ConnectedSocketsAreLive'
    BY <2>1 DEF LiveIsOpen, AcceptedIsOpen, ConnectedSocketsAreLive
  <2>4. QED
    BY <2>2, <2>3
<1>3. CASE \/ \E t \in Workers, s \in Sockets, p \in Packets : Dispatch(t, s, p[1], p[2], p[3])
           \/ \E t \in Receivers, s \in Sockets : ClientExit(t, s)
  <2>1. PICK t \in Threads, s \in Sockets :
          /\ pc[t] = "idle" /\ UNCHANGED <<accepting, live, tables>>
          /\ \A u \in Threads \ {t} : pc'[u] = pc[u] /\ loc'[u] = loc[u]
          /\ loc'[t].sock = s
          /\ \/ /\ t \in Workers /\ pc'[t] = "getStatus" /\ Start(s)
                /\ s \in live /\ open' = open
             \/ /\ t \in Workers /\ pc'[t] = "banCopy" /\ UNCHANGED history
                /\ open' = open
             \/ /\ t \in Receivers /\ pc'[t] = "exitLive" /\ loc'[t].op = "HANGUP" /\ Start(s)
                /\ s \in open /\ s # accepting /\ open' = open \ {s}
    BY <1>3, StartEffect
  <2>2. userMap' = userMap /\ Workers \cap Receivers = {}
    BY <2>1, ConstantsAssumption DEF tables
  <2>3. CASE t \in Workers
    <3>1. /\ open' = open /\ pc'[t] \in {"getStatus", "banCopy"} /\ t \notin Receivers
          /\ overlapped \subseteq overlapped'
      BY <2>1, <2>2, <2>3, StartFacts DEF history
    <3>2. pc'[t] = "getStatus" => s \in open \cup overlapped'
      <4>1. ASSUME pc'[t] = "getStatus", ~Concerned(s), s \notin overlapped PROVE s \in open
        BY <2>1, <2>2, <2>3, <4>1 DEF LiveIsOpen, Concerned, Threads
      <4>2. ASSUME pc'[t] = "getStatus", Concerned(s) PROVE s \in overlapped'
        BY <2>1, <2>2, <2>3, <4>2, StartFacts
      <4>3. QED
        BY <3>1, <4>1, <4>2
    <3>3. ReceiversExit' /\ LiveIsOpen' /\ AcceptedIsOpen' /\ SessionsOfConnectedUsers' /\ ConnectedSocketsAreLive'
      BY <2>1, <2>2, <3>1 DEF ReceiversExit, LiveIsOpen, AcceptedIsOpen, SessionsOfConnectedUsers,
                        ConnectedSocketsAreLive, HasSession, Threads
    <3>4. WorkersServe'
      BY <2>1, <3>1, <3>2 DEF WorkersServe, Busy, Threads
    <3>5. QED
      BY <3>3, <3>4
  <2>4. CASE t \in Receivers
    <3>1. /\ pc'[t] = "exitLive" /\ loc'[t].op = "HANGUP" /\ t \notin Workers
          /\ s # accepting /\ open' = open \ {s}
          /\ overlapped \subseteq overlapped' /\ (Concerned(s) => s \in overlapped')
      BY <2>1, <2>2, <2>4, StartFacts
    <3>2. ReceiversExit' /\ AcceptedIsOpen' /\ ConnectedSocketsAreLive'
      BY <2>1, <3>1 DEF ReceiversExit, AcceptedIsOpen, ConnectedSocketsAreLive, ExitSteps, Threads
    <3>3. WorkersServe'
      BY <2>1, <3>1 DEF WorkersServe, Busy, Concerned, Threads
    <3>4. LiveIsOpen' /\ SessionsOfConnectedUsers'
      BY <2>1, <2>2, <2>4, <3>1 DEF LiveIsOpen, SessionsOfConnectedUsers, HasSession, Threads
    <3>5. QED
      BY <3>2, <3>3, <3>4
  <2>5. QED
    BY <2>3, <2>4 DEF Threads
<1>4. CASE UNCHANGED vars
  BY <1>4 DEF ReceiversExit, WorkersServe, Busy, LiveIsOpen, AcceptedIsOpen, vars, conns, tables, history,
              SessionsOfConnectedUsers, ConnectedSocketsAreLive, HasSession
<1>5. ASSUME NEW t \in Threads, Exit(t) \/ Fault(t)
      PROVE  Connections'
  BY <1>5 DEF Exit, Fault, GoDown, ReceiversExit, WorkersServe, Busy, LiveIsOpen, AcceptedIsOpen,
              SessionsOfConnectedUsers, ConnectedSocketsAreLive, HasSession, Threads
<1>6. QED
  BY <1>1, <1>2, <1>3, <1>4, <1>5, ConnHandlerStep, ConnBanStep, NextCases

(* The invariant of connections and sessions holds at first and is kept.     *)
LEMMA ConnInvHolds ==
  /\ Init => ConnInv
  /\ ConnInv /\ [Next]_vars => ConnInv'
<1>1. Init => Connections
  BY DEF Init, Connections, ReceiversExit, WorkersServe, Busy, LiveIsOpen, AcceptedIsOpen,
         SessionsOfConnectedUsers, ConnectedSocketsAreLive, HasSession, Threads
<1>2. Init => ConnInv
  BY <1>1, InitSessionInv DEF ConnInv
<1>3. ConnInv /\ [Next]_vars => ConnInv'
  BY ConnStep, SessionInvStep DEF ConnInv
<1>4. QED
  BY <1>2, <1>3

(* userMap has sessions of connected users only: a session's connection is   *)
(* open, or its ClientExit has yet to reach the end.                         *)
THEOREM SessionsAreConnected == Spec => []SessionsOfConnectedUsers
<1>1. ConnInv => SessionsOfConnectedUsers
  BY DEF ConnInv, Connections
<1>2. QED
  BY <1>1, ConnInvHolds, PTL DEF Spec

(* WorkThread drops no packet of a registered connection that is open,       *)
(* unless the handle was given out again while ClientExit still ran.         *)
THEOREM OpenSocketsAreLive == Spec => []ConnectedSocketsAreLive
<1>1. ConnInv => ConnectedSocketsAreLive
  BY DEF ConnInv, Connections
<1>2. QED
  BY <1>1, ConnInvHolds, PTL DEF Spec

-----------------------------------------------------------------------------
(* Rooms.                                                                    *)

(* The labels at which RoomsMatchSessions has an exception.                  *)
Between == {"makeSession", "enterList", "friendList", "reset"}

(* No name a session holds is too long, nor one that a handler has read from *)
(* a session: too long a name is stored as another one.                      *)
LEMMA ShortStored ==
  ASSUME NEW r
  PROVE  StoredName(r) \notin LongNames /\ (StoredName(r) \in Rooms => r = StoredName(r))
BY DEF StoredName

(* Every step keeps it so.                                                   *)
LEMMA ShortNamesStep ==
  ASSUME Inv, ShortNames, [Next]_vars
  PROVE  ShortNames'
<1> USE DEF Inv, ShortNames
<1>1. ASSUME NEW t \in Threads, Step(t)
      PROVE  ShortNames'
  <2>0. /\ \A u \in Threads \ {t} : pc'[u] = pc[u] /\ loc'[u] = loc[u]
        /\ \A x \in Sockets : x # loc[t].sock => userMap'[x] = userMap[x]
    BY <1>1, OthersKept, OwnSession
  <2> USE DEF TypeOK, LocalsOK, Goto, Done, At, AtSession
  <2>1. CASE GetStatus(t) \/ StatusWait(t) \/ StatusChat(t) \/ Handler(t) \/ Talk(t)
    BY <2>0, <2>1 DEF GetStatus, StatusLogout, StatusWait, StatusChat, Handler, Talk, tables
  <2>2. CASE UserEnter(t) \/ LogOutId(t) \/ RoomMake(t) \/ RoomEnter(t)
    BY <2>0, <2>2 DEF UserEnter, LogOutId, RoomMake, RoomEnter, tables
  <2>3. CASE InitUser(t) \/ LogOutErase(t) \/ Drop(t)
    <3>1. userMap'[loc[t].sock].room = Empty /\ pc'[t] = "idle"
      BY <2>3 DEF InitUser, NewSession, LogOutErase, Drop, EraseSession, NoSession
    <3>2. QED
      BY <2>0, <3>1
  <2>4. CASE RoomMakeSession(t) \/ RoomEnterSession(t) \/ FriendGoSession(t)
    <3>1. /\ loc[t].sock \in Sockets /\ HasSession(loc[t].sock) /\ SetChatting(t)
          /\ pc'[t] \in {"idle", "enterList", "friendList"}
      BY <2>4 DEF RoomMakeSession, RoomEnterSession, FriendGoSession
    <3>2. userMap'[loc[t].sock].room = StoredName(loc[t].room)
      <4>1. userMap' = [userMap EXCEPT ![loc[t].sock].room = StoredName(loc[t].room),
                                       ![loc[t].sock].status = "CHATTING"]
        BY <3>1 DEF SetChatting
      <4>2. QED
        BY <3>1, <4>1, SessionStored
    <3>3. QED
      BY <2>0, <3>1, <3>2, ShortStored
  <2>5. CASE RoomEnterList(t) \/ FriendGo(t) \/ FriendGoRoom(t) \/ FriendGoList(t)
    BY <2>0, <2>5 DEF RoomEnterList, FriendGo, FriendGoRoom, FriendGoList, PushBack, tables
  <2>6. CASE ExitLive(t) \/ ExitFind(t) \/ BanCopy(t) \/ ReadId(t) \/ EraseId(t) \/ ReadStatus(t)
    BY <2>0, <2>6 DEF ExitLive, ExitFind, BanCopy, ReadId, EraseId, ReadStatus, tables
  <2>7. CASE ReadRoom(t)
    BY <2>0, <2>7 DEF ReadRoom, tables, Local
  <2>8. CASE LeaveList(t) \/ EraseRoom(t)
    BY <2>0, <2>8 DEF LeaveList, EraseRoom
  <2>9. CASE ResetSession(t)
    <3>1. loc[t].sock \in Sockets /\ HasSession(loc[t].sock) /\ pc'[t] = "erase"
      BY <2>9 DEF ResetSession
    <3>2. userMap' = [userMap EXCEPT ![loc[t].sock].room = Empty, ![loc[t].sock].status = "WAITING"]
      BY <2>9 DEF ResetSession
    <3>3. userMap'[loc[t].sock].room = Empty
      BY <3>1, <3>2, SessionStored
    <3>4. QED
      BY <2>0, <3>1, <3>3
  <2>10. QED
    BY <1>1, <2>1, <2>2, <2>3, <2>4, <2>5, <2>6, <2>7, <2>8, <2>9 DEF Step
<1>2. CASE \/ \E t \in Workers, s \in Sockets, p \in Packets : Dispatch(t, s, p[1], p[2], p[3])
           \/ \E t \in Receivers, s \in Sockets : ClientExit(t, s)
  <2>1. PICK t \in Threads :
          /\ \A u \in Threads \ {t} : pc'[u] = pc[u] /\ loc'[u] = loc[u]
          /\ pc'[t] \in {"getStatus", "banCopy", "exitLive"} /\ UNCHANGED tables
    BY <1>2, StartEffect
  <2>2. QED
    BY <2>1 DEF tables
<1>3. ASSUME NEW s \in Sockets, Accept(s)
      PROVE  ShortNames'
  BY <1>3 DEF Accept, tables
<1>4. CASE InsertLiveSocket \/ UNCHANGED vars
  BY <1>4 DEF InsertLiveSocket, vars, tables
<1>5. ASSUME NEW t \in Threads, Exit(t) \/ Fault(t)
      PROVE  ShortNames'
  BY <1>5 DEF Exit, Fault, GoDown, NoSession
<1>6. QED
  BY <1>1, <1>2, <1>3, <1>4, <1>5, NextCases

(* A step that neither changes a room, nor which room a session chats in,    *)
(* nor starts or ends such an exception.                                     *)
RoomQuiet(t) ==
  /\ UNCHANGED <<rooms, userList>>
  /\ overlapped \subseteq overlapped'
  /\ \A s \in Sockets \ overlapped :
       /\ userMap'[s].status = "CHATTING" <=> userMap[s].status = "CHATTING"
       /\ userMap[s].status = "CHATTING" => userMap'[s].room = userMap[s].room
  /\ \A u \in Threads \ {t} : pc'[u] = pc[u] /\ loc'[u] = loc[u]
  /\ pc[t] \notin Between /\ pc'[t] \notin Between
  /\ pc'[t] = "list" => userMap'[loc'[t].sock].room = StoredName(loc'[t].room)

(* Such a step keeps the lists and the sessions together.                    *)
LEMMA RoomsFrame ==
  ASSUME Inv, StatusOK, Lists, NEW t \in Threads, RoomQuiet(t)
  PROVE  Lists'
<1> USE DEF Lists, RoomQuiet
<1>1. RoomRead'
  <2>1. ASSUME NEW u \in Threads \ {t}, pc[u] \in {"enterList", "friendList", "list", "reset"},
               loc[u].sock \notin overlapped
        PROVE  userMap'[loc[u].sock].room = StoredName(loc[u].room)
    <3>1. loc[u].sock \in Sockets /\ userMap[loc[u].sock].status = "CHATTING"
      BY <2>1 DEF Inv, LocalsOK, StatusOK, StatusKept, Status, RoomSteps
    <3>2. QED
      BY <2>1, <3>1 DEF RoomRead
  <2>2. QED
    BY <2>1 DEF RoomRead, Between
<1>2. Makers' /\ Leavers'
  BY DEF Makers, Leavers, Between
<1>3. ChatRoomExists'
  BY DEF ChatRoomExists, Between
<1>4. RoomsMatchSessions'
  BY DEF RoomsMatchSessions, Between
<1>5. QED
  BY <1>1, <1>2, <1>3, <1>4

(* The steps that are quiet in this sense.                                   *)
LEMMA RoomQuietSteps ==
  ASSUME Inv, StatusOK, ShortNames, NEW t \in Threads, Step(t),
         ~RoomMake(t), ~RoomMakeSession(t), ~RoomEnterSession(t), ~FriendGoSession(t),
         ~RoomEnterList(t), ~FriendGoList(t), ~LeaveList(t), ~ResetSession(t), ~EraseRoom(t)
  PROVE  RoomQuiet(t)
<1> USE DEF Inv, TypeOK, Goto, Done, At, AtSession, Between
<1>0. /\ \A u \in Threads \ {t} : pc'[u] = pc[u] /\ loc'[u] = loc[u]
      /\ overlapped \subseteq overlapped'
  BY OthersKept, HistoryStep
<1>1. CASE GetStatus(t) \/ StatusWait(t) \/ StatusChat(t) \/ Handler(t) \/ Talk(t)
  BY <1>0, <1>1 DEF GetStatus, StatusLogout, StatusWait, StatusChat, Handler, Talk, tables, RoomQuiet
<1>2. CASE UserEnter(t) \/ LogOutId(t)
  BY <1>0, <1>2 DEF UserEnter, LogOutId, RoomQuiet
<1>3. CASE InitUser(t)
  BY <1>0, <1>3 DEF InitUser, NewSession, RoomQuiet, StatusOK, StatusKept, Status
<1>4. CASE LogOutErase(t) \/ Drop(t)
  BY <1>0, <1>4
    DEF LogOutErase, Drop, EraseSession, NoSession, RoomQuiet, StatusOK, StatusKept, Status, LobbySteps
<1>5. CASE RoomEnter(t) \/ FriendGo(t) \/ FriendGoRoom(t)
  BY <1>0, <1>5 DEF RoomEnter, FriendGo, FriendGoRoom, tables, RoomQuiet
<1>6. CASE ExitLive(t) \/ ExitFind(t) \/ BanCopy(t) \/ ReadId(t) \/ EraseId(t) \/ ReadStatus(t)
  BY <1>0, <1>6 DEF ExitLive, ExitFind, BanCopy, ReadId, EraseId, ReadStatus, tables, RoomQuiet
<1>7. CASE ReadRoom(t)
  BY <1>0, <1>7 DEF ReadRoom, tables, RoomQuiet, Local, ShortNames, StoredName, LocalsOK
<1>8. QED
  BY <1>1, <1>2, <1>3, <1>4, <1>5, <1>6, <1>7 DEF Step

(* RoomMake: whoever still chats in a room of the same name that is gone is  *)
(* on its way in or out.                                                     *)
LEMMA RoomMakeStep ==
  ASSUME SessionInv, Membership, NEW t \in Threads, RoomMake(t)
  PROVE  Lists'
<1> USE DEF SessionInv, LoginInv, Membership, Lists
<1>0. /\ Inv /\ OneHandler /\ TypeOK
      /\ \A u \in Threads \ {t} : pc'[u] = pc[u] /\ loc'[u] = loc[u]
      /\ overlapped' = overlapped
  BY OthersKept, HistoryStep DEF Inv, Control, Step, BanCopy, At, AtSession,
     RoomMake, RoomMakeSession, RoomEnterSession, FriendGoSession, RoomEnterList, FriendGoList,
     LeaveList, ResetSession
<1>1. CASE loc[t].name \in rooms
  <2>1. RoomQuiet(t)
    BY <1>0, <1>1 DEF RoomMake, At, Done, TypeOK, RoomQuiet, Between
  <2>2. QED
    BY <2>1, RoomsFrame
<1>2. CASE loc[t].name \notin rooms
  <2>1. PICK s \in Sockets, r \in Rooms \ rooms :
          /\ s = loc[t].sock /\ r = loc[t].name
          /\ pc[t] = "roomMake" /\ pc'[t] = "makeSession"
          /\ loc'[t].sock = s /\ loc'[t].room = r
          /\ rooms' = rooms \cup {r} /\ userMap' = userMap
          /\ userList'[r] = {s} /\ \A q \in rooms : userList'[q] = userList[q]
          /\ \A q \in Rooms \ {r} : userList'[q] = userList[q]
    BY <1>0, <1>2 DEF RoomMake, At, Inv, TypeOK, LocalsOK, Local
  <2>2. s \notin overlapped => \A u \in Threads \ {t} : Busy(u) => loc[u].sock # s
    BY <1>0, <2>1 DEF OneHandler, Busy
  <2>3. RoomRead'
    BY <1>0, <2>1 DEF RoomRead
  <2>4. Makers'
    BY <1>0, <2>1 DEF Makers
  <2>5. Leavers'
    BY <1>0, <2>1, <2>2 DEF Leavers, Busy
  <2>6. ChatRoomExists'
    BY <1>0, <2>1 DEF ChatRoomExists
  <2>7. ASSUME NEW x \in Sockets \ overlapped, NEW q \in rooms' \ LongNames
        PROVE  \/ x \in userList'[q] <=> (userMap'[x].status = "CHATTING" /\ userMap'[x].room = q)
               \/ \E u \in Threads : loc'[u].sock = x /\ loc'[u].room = q /\ pc'[u] \in Between
    <3>1. CASE q # r
      <4>1. \/ x \in userList[q] <=> (userMap[x].status = "CHATTING" /\ userMap[x].room = q)
            \/ \E u \in Threads : loc[u].sock = x /\ loc[u].room = q /\ pc[u] \in Between
        BY <2>1, <3>1 DEF RoomsMatchSessions, Between
      <4>2. QED
        BY <1>0, <2>1, <3>1, <4>1 DEF Between
    <3>2. CASE q = r /\ x = s
      BY <2>1, <3>2 DEF Between
    <3>3. CASE q = r /\ x # s
      <4>1. CASE userMap[x].status = "CHATTING" /\ userMap[x].room = r
        <5>1. PICK u \in Threads : loc[u].sock = x /\ pc[u] \in {"enterList", "friendList", "reset"}
          BY <2>1, <4>1 DEF ChatRoomExists
        <5>2. loc[u].room = r /\ u # t
          <6>1. StoredName(loc[u].room) = r
            BY <4>1, <5>1 DEF RoomRead
          <6>2. QED
            BY <2>1, <5>1, <6>1, ShortStored
        <5>3. QED
          BY <1>0, <3>3, <5>1, <5>2 DEF Between
      <4>2. CASE ~(userMap[x].status = "CHATTING" /\ userMap[x].room = r)
        BY <2>1, <3>3, <4>2
      <4>3. QED
        BY <4>1, <4>2
    <3>4. QED
      BY <3>1, <3>2, <3>3
  <2>8. RoomsMatchSessions'
    BY <1>0, <2>7 DEF RoomsMatchSessions, Between
  <2>9. QED
    BY <2>3, <2>4, <2>5, <2>6, <2>8
<1>3. QED
  BY <1>1, <1>2

(* RoomMake, RoomEnter and FriendGo store the room in the session: before,   *)
(* it was in the lobby and in no list but that of the room it made.          *)
LEMMA SetChattingStep ==
  ASSUME SessionInv, Membership, NEW t \in Threads,
         RoomMakeSession(t) \/ RoomEnterSession(t) \/ FriendGoSession(t)
  PROVE  Lists'
<1> USE DEF SessionInv, LoginInv, Membership, Lists
<1>0. /\ Inv /\ OneHandler /\ TypeOK
      /\ \A u \in Threads \ {t} : pc'[u] = pc[u] /\ loc'[u] = loc[u]
      /\ overlapped' = overlapped
  BY OthersKept, HistoryStep DEF Inv, Control, Step, BanCopy, At, AtSession,
     RoomMake, RoomMakeSession, RoomEnterSession, FriendGoSession, RoomEnterList, FriendGoList,
     LeaveList, ResetSession
<1>1. PICK s \in Sockets : s = loc[t].sock /\ pc[t] \in {"makeSession", "enterSession", "friendSession"}
  BY <1>0 DEF RoomMakeSession, RoomEnterSession, FriendGoSession, AtSession, At, Inv, LocalsOK
<1>2. SetChatting(t) /\ HasSession(s) /\ UNCHANGED <<rooms, userList>>
  BY <1>1 DEF RoomMakeSession, RoomEnterSession, FriendGoSession, AtSession
<1>3. userMap' = [userMap EXCEPT ![s].room = StoredName(loc[t].room), ![s].status = "CHATTING"]
  BY <1>1, <1>2 DEF SetChatting
<1>4. /\ userMap'[s].room = StoredName(loc[t].room) /\ userMap'[s].status = "CHATTING"
      /\ \A x \in Sockets \ {s} : userMap'[x] = userMap[x]
  BY <1>0, <1>2, <1>3, SessionStored DEF TypeOK
<1>5. \/ pc[t] = "makeSession" /\ pc'[t] = "idle"
      \/ /\ pc[t] \in {"enterSession", "friendSession"} /\ pc'[t] \in {"enterList", "friendList"}
         /\ loc'[t] = loc[t]
  BY <1>0 DEF RoomMakeSession, RoomEnterSession, FriendGoSession, AtSession, At, Goto, Done, TypeOK
<1>6. s \notin overlapped => \A u \in Threads \ {t} : Busy(u) => loc[u].sock # s
  BY <1>0, <1>1 DEF OneHandler, Busy
<1>7. s \notin overlapped => userMap[s].status = "WAITING"
  BY <1>1 DEF StatusOK, StatusKept, Status, LobbySteps
<1>8. \A u \in Threads \ {t} : Busy(u) /\ loc[u].sock \notin overlapped =>
        loc[u].sock \in Sockets /\ userMap'[loc[u].sock] = userMap[loc[u].sock]
  BY <1>0, <1>4, <1>6 DEF Inv, LocalsOK, Busy
<1>9. RoomRead'
  BY <1>0, <1>1, <1>4, <1>5, <1>8 DEF RoomRead, Busy
<1>10. Makers' /\ Leavers'
  BY <1>0, <1>2, <1>5 DEF Makers, Leavers
<1>11. ChatRoomExists'
  <2>1. ASSUME NEW x \in Sockets \ overlapped, userMap'[x].status = "CHATTING", userMap'[x].room \notin rooms' \cup {Garbled}
        PROVE  \E u \in Threads : loc'[u].sock = x /\ pc'[u] \in {"enterList", "friendList", "reset"}
    <3>1. CASE x = s
      BY <1>1, <1>2, <1>4, <1>5, <2>1, <3>1 DEF Makers, StoredName
    <3>2. CASE x # s
      <4>1. PICK u \in Threads : loc[u].sock = x /\ pc[u] \in {"enterList", "friendList", "reset"}
        BY <1>2, <1>4, <2>1, <3>2 DEF ChatRoomExists
      <4>2. QED
        BY <1>0, <1>1, <3>2, <4>1
    <3>3. QED
      BY <3>1, <3>2
  <2>2. QED
    BY <1>0, <2>1 DEF ChatRoomExists
<1>12. RoomsMatchSessions'
  <2>1. ASSUME NEW x \in Sockets \ overlapped, NEW q \in rooms \ LongNames
        PROVE  \/ x \in userList[q] <=> (userMap'[x].status = "CHATTING" /\ userMap'[x].room = q)
               \/ \E u \in Threads : loc'[u].sock = x /\ loc'[u].room = q /\ pc'[u] \in Between
    <3>0. \/ x \in userList[q] <=> (userMap[x].status = "CHATTING" /\ userMap[x].room = q)
          \/ \E u \in Threads : loc[u].sock = x /\ loc[u].room = q /\ pc[u] \in Between
      BY DEF RoomsMatchSessions, Between
    <3>1. CASE x # s
      BY <1>0, <1>1, <1>4, <3>0, <3>1
    <3>2. CASE x = s /\ q # loc[t].room
      <4>1. x \notin userList[q]
        BY <1>6, <1>7, <3>0, <3>2 DEF Between, Busy
      <4>2. StoredName(loc[t].room) # q
        BY <1>0, <3>2 DEF StoredName, TypeOK
      <4>3. QED
        BY <1>4, <3>2, <4>1, <4>2
    <3>3. CASE x = s /\ q = loc[t].room
      BY <1>1, <1>4, <1>5, <3>3 DEF Makers, Between, StoredName
    <3>4. QED
      BY <3>1, <3>2, <3>3
  <2>2. QED
    BY <1>0, <1>2, <2>1 DEF RoomsMatchSessions, Between
<1>13. QED
  BY <1>9, <1>10, <1>11, <1>12

(* RoomEnter and FriendGo put the socket into the list of the room that its  *)
(* session names.                                                            *)
LEMMA PushBackStep ==
  ASSUME SessionInv, Membership, NEW t \in Threads, RoomEnterList(t) \/ FriendGoList(t)
  PROVE  Lists'
<1> USE DEF SessionInv, LoginInv, Membership, Lists
<1>0. /\ Inv /\ OneHandler /\ TypeOK
      /\ \A u \in Threads \ {t} : pc'[u] = pc[u] /\ loc'[u] = loc[u]
      /\ overlapped' = overlapped
  BY OthersKept, HistoryStep DEF Inv, Control, Step, BanCopy, At, AtSession,
     RoomMake, RoomMakeSession, RoomEnterSession, FriendGoSession, RoomEnterList, FriendGoList,
     LeaveList, ResetSession
<1>1. PICK s \in Sockets, r \in rooms :
        /\ s = loc[t].sock /\ r = loc[t].room
        /\ pc[t] \in {"enterList", "friendList"} /\ pc'[t] = "idle"
        /\ UNCHANGED <<rooms, userMap>>
        /\ userList'[r] = userList[r] \cup {s}
        /\ \A q \in Rooms \ {r} : userList'[q] = userList[q]
  BY <1>0 DEF RoomEnterList, FriendGoList, PushBack, At, Done, Inv, TypeOK, LocalsOK
<1>2. r \in Rooms /\ rooms \subseteq Rooms
  BY <1>0 DEF TypeOK
<1>3. s \notin overlapped => \A u \in Threads \ {t} : Busy(u) => loc[u].sock # s
  BY <1>0, <1>1 DEF OneHandler, Busy
<1>4. s \notin overlapped => userMap[s].status = "CHATTING" /\ userMap[s].room = StoredName(r)
  BY <1>1 DEF StatusOK, StatusKept, Status, RoomSteps, RoomRead
<1>5. RoomRead'
  BY <1>0, <1>1 DEF RoomRead
<1>6. Makers'
  BY <1>0, <1>1, <1>2 DEF Makers
<1>7. Leavers'
  BY <1>0, <1>1, <1>3 DEF Leavers, Busy
<1>8. ChatRoomExists'
  <2>1. s \notin overlapped => userMap[s].room \in rooms \cup {Garbled}
    BY <1>1, <1>4 DEF StoredName
  <2>2. QED
    BY <1>0, <1>1, <2>1 DEF ChatRoomExists
<1>9. RoomsMatchSessions'
  <2>1. ASSUME NEW x \in Sockets \ overlapped, NEW q \in rooms \ LongNames
        PROVE  \/ x \in userList'[q] <=> (userMap[x].status = "CHATTING" /\ userMap[x].room = q)
               \/ \E u \in Threads : loc'[u].sock = x /\ loc'[u].room = q /\ pc'[u] \in Between
    <3>0. \/ x \in userList[q] <=> (userMap[x].status = "CHATTING" /\ userMap[x].room = q)
          \/ \E u \in Threads : loc[u].sock = x /\ loc[u].room = q /\ pc[u] \in Between
      BY DEF RoomsMatchSessions, Between
    <3>1. CASE x # s
      BY <1>0, <1>1, <1>2, <3>0, <3>1
    <3>2. CASE x = s /\ q # r
      <4>1. x \notin userList[q]
        <5>1. StoredName(r) # q
          BY <1>2, <3>2 DEF StoredName
        <5>2. ~ \E u \in Threads : loc[u].sock = x /\ loc[u].room = q /\ pc[u] \in Between
          BY <1>1, <1>3, <3>2 DEF Between, Busy
        <5>3. QED
          BY <1>4, <3>0, <3>2, <5>1, <5>2
      <4>2. StoredName(r) # q
        BY <1>2, <3>2 DEF StoredName
      <4>3. QED
        BY <1>1, <1>2, <1>4, <3>2, <4>1, <4>2
    <3>3. CASE x = s /\ q = r
      BY <1>1, <1>4, <3>3 DEF StoredName
    <3>4. QED
      BY <3>1, <3>2, <3>3
  <2>2. QED
    BY <1>0, <1>1, <2>1 DEF RoomsMatchSessions, Between
<1>10. QED
  BY <1>5, <1>6, <1>7, <1>8, <1>9

(* Leaving: the socket is taken from the list of the room its session names. *)
LEMMA LeaveListStep ==
  ASSUME SessionInv, Membership, NEW t \in Threads, LeaveList(t)
  PROVE  Lists'
<1> USE DEF SessionInv, LoginInv, Membership, Lists
<1>0. /\ Inv /\ OneHandler /\ TypeOK
      /\ \A u \in Threads \ {t} : pc'[u] = pc[u] /\ loc'[u] = loc[u]
      /\ overlapped' = overlapped
  BY OthersKept, HistoryStep DEF Inv, Control, Step, BanCopy, At, AtSession,
     RoomMake, RoomMakeSession, RoomEnterSession, FriendGoSession, RoomEnterList, FriendGoList,
     LeaveList, ResetSession
<1>1. PICK s \in Sockets, r \in rooms :
        /\ s = loc[t].sock /\ r = loc[t].room
        /\ pc[t] = "list" /\ pc'[t] = "reset" /\ loc' = loc
        /\ UNCHANGED <<rooms, userMap>>
        /\ userList'[r] = userList[r] \ {s}
        /\ \A q \in Rooms \ {r} : userList'[q] = userList[q]
  BY <1>0 DEF LeaveList, At, Goto, Inv, TypeOK, LocalsOK
<1>2. r \in Rooms /\ rooms \subseteq Rooms
  BY <1>0 DEF TypeOK
<1>3. s \notin overlapped => \A u \in Threads \ {t} : Busy(u) => loc[u].sock # s
  BY <1>0, <1>1 DEF OneHandler, Busy
<1>4. RoomRead'
  BY <1>0, <1>1 DEF RoomRead
<1>5. Makers'
  BY <1>0, <1>1, <1>2, <1>3 DEF Makers, Busy
<1>6. Leavers'
  BY <1>0, <1>1, <1>2 DEF Leavers
<1>7. ChatRoomExists'
  BY <1>0, <1>1 DEF ChatRoomExists
<1>8. RoomsMatchSessions'
  <2>1. ASSUME NEW x \in Sockets \ overlapped, NEW q \in rooms \ LongNames
        PROVE  \/ x \in userList'[q] <=> (userMap[x].status = "CHATTING" /\ userMap[x].room = q)
               \/ \E u \in Threads : loc'[u].sock = x /\ loc'[u].room = q /\ pc'[u] \in Between
    <3>0. \/ x \in userList[q] <=> (userMap[x].status = "CHATTING" /\ userMap[x].room = q)
          \/ \E u \in Threads : loc[u].sock = x /\ loc[u].room = q /\ pc[u] \in Between
      BY DEF RoomsMatchSessions, Between
    <3>1. CASE x # s \/ q # r
      <4>1. x \in userList'[q] <=> x \in userList[q]
        BY <1>1, <1>2, <3>1
      <4>2. QED
        BY <1>0, <1>1, <3>0, <4>1 DEF Between
    <3>2. CASE x = s /\ q = r
      BY <1>1, <3>2 DEF Between
    <3>3. QED
      BY <3>1, <3>2
  <2>2. QED
    BY <1>0, <1>1, <2>1 DEF RoomsMatchSessions, Between
<1>9. QED
  BY <1>4, <1>5, <1>6, <1>7, <1>8

(* Then its session returns to the lobby.                                    *)
LEMMA ResetStep ==
  ASSUME SessionInv, Membership, NEW t \in Threads, ResetSession(t)
  PROVE  Lists'
<1> USE DEF SessionInv, LoginInv, Membership, Lists
<1>0. /\ Inv /\ OneHandler /\ TypeOK
      /\ \A u \in Threads \ {t} : pc'[u] = pc[u] /\ loc'[u] = loc[u]
      /\ overlapped' = overlapped
  BY OthersKept, HistoryStep DEF Inv, Control, Step, BanCopy, At, AtSession,
     RoomMake, RoomMakeSession, RoomEnterSession, FriendGoSession, RoomEnterList, FriendGoList,
     LeaveList, ResetSession
<1>1. PICK s \in Sockets :
        /\ s = loc[t].sock /\ HasSession(s)
        /\ pc[t] = "reset" /\ pc'[t] = "erase" /\ loc' = loc
        /\ UNCHANGED <<rooms, userList>>
        /\ userMap' = [userMap EXCEPT ![s].room = Empty, ![s].status = "WAITING"]
  BY <1>0 DEF ResetSession, AtSession, At, Goto, Inv, TypeOK, LocalsOK
<1>2. /\ userMap'[s].status = "WAITING"
      /\ \A x \in Sockets \ {s} : userMap'[x] = userMap[x]
  <2>1. userMap'[s].status = "WAITING"
    <3>1. "WAITING" \in {"WAITING", "CHATTING"}
      OBVIOUS
    <3>2. QED
      BY <1>0, <1>1, <3>1, SessionStored
  <2>2. userMap \in [Sockets -> Session \cup {NoSession}]
    BY <1>0 DEF TypeOK
  <2>3. \A x \in Sockets \ {s} : userMap'[x] = userMap[x]
    BY <1>1, <2>2
  <2>4. QED
    BY <2>1, <2>3
<1>3. s \notin overlapped => \A u \in Threads \ {t} : Busy(u) => loc[u].sock # s
  BY <1>0, <1>1 DEF OneHandler, Busy
<1>4. \A u \in Threads \ {t} : Busy(u) /\ loc[u].sock \notin overlapped =>
        loc[u].sock \in Sockets /\ userMap'[loc[u].sock] = userMap[loc[u].sock]
  BY <1>0, <1>2, <1>3 DEF Inv, LocalsOK, Busy
<1>5. RoomRead'
  <2>1. ASSUME NEW u \in Threads, pc'[u] \in {"enterList", "friendList", "list", "reset"},
               loc'[u].sock \notin overlapped
        PROVE  userMap'[loc'[u].sock].room = StoredName(loc'[u].room)
    <3>1. u # t /\ pc[u] = pc'[u] /\ loc'[u] = loc[u]
      BY <1>0, <1>1, <2>1
    <3>2. userMap'[loc[u].sock] = userMap[loc[u].sock]
      BY <1>4, <2>1, <3>1 DEF Busy
    <3>3. QED
      BY <2>1, <3>1, <3>2 DEF RoomRead
  <2>2. QED
    BY <1>0, <2>1 DEF RoomRead
<1>6. Makers' /\ Leavers'
  BY <1>0, <1>1 DEF Makers, Leavers
<1>7. ChatRoomExists'
  <2>1. ASSUME NEW x \in Sockets \ overlapped, userMap'[x].status = "CHATTING", userMap'[x].room \notin rooms \cup {Garbled}
        PROVE  \E u \in Threads : loc'[u].sock = x /\ pc'[u] \in {"enterList", "friendList", "reset"}
    <3>1. x # s /\ userMap'[x] = userMap[x]
      BY <1>2, <2>1
    <3>2. PICK u \in Threads : loc[u].sock = x /\ pc[u] \in {"enterList", "friendList", "reset"}
      BY <2>1, <3>1 DEF ChatRoomExists
    <3>3. QED
      BY <1>0, <1>1, <3>1, <3>2
  <2>2. rooms' = rooms
    BY <1>1
  <2>3. QED
    BY <1>0, <2>1, <2>2 DEF ChatRoomExists
<1>8. RoomsMatchSessions'
  <2>1. ASSUME NEW x \in Sockets \ overlapped, NEW q \in rooms \ LongNames
        PROVE  \/ x \in userList[q] <=> (userMap'[x].status = "CHATTING" /\ userMap'[x].room = q)
               \/ \E u \in Threads : loc'[u].sock = x /\ loc'[u].room = q /\ pc'[u] \in Between
    <3>0. \/ x \in userList[q] <=> (userMap[x].status = "CHATTING" /\ userMap[x].room = q)
          \/ \E u \in Threads : loc[u].sock = x /\ loc[u].room = q /\ pc[u] \in Between
      BY DEF RoomsMatchSessions, Between
    <3>1. CASE x # s
      BY <1>0, <1>1, <1>2, <3>0, <3>1
    <3>2. CASE x = s
      <4>1. userMap[s].room = loc[t].room /\ s \notin userList[loc[t].room]
        BY <1>1, <3>2 DEF RoomRead, Leavers, ShortNames, StoredName
      <4>2. x \notin userList[q]
        BY <1>3, <3>0, <3>2, <4>1 DEF Between, Busy
      <4>3. QED
        BY <1>2, <3>2, <4>2
    <3>3. QED
      BY <3>1, <3>2
  <2>2. rooms' = rooms /\ userList' = userList
    BY <1>1
  <2>3. QED
    BY <1>0, <2>1, <2>2 DEF RoomsMatchSessions, Between
<1>9. QED
  BY <1>5, <1>6, <1>7, <1>8

(* Deleting an empty room leaves no session behind in it, except those that  *)
(* are on their way in or out.                                               *)
LEMMA EraseRoomStep ==
  ASSUME SessionInv, Membership, NEW t \in Threads, EraseRoom(t)
  PROVE  Lists'
<1> USE DEF SessionInv, LoginInv, Membership, Lists
<1>0. /\ \A u \in Threads \ {t} : pc'[u] = pc[u] /\ loc'[u] = loc[u]
      /\ overlapped' = overlapped
  BY OthersKept, HistoryStep DEF Inv, Step, EraseRoom, BanCopy, At
<1>1. /\ pc[t] = "erase" /\ pc'[t] \in {"idle", "drop"}
      /\ UNCHANGED <<userMap, userList>>
      /\ rooms' = IF RoomIsEmpty(loc[t].room) THEN rooms \ {loc[t].room} ELSE rooms
  BY DEF EraseRoom, At, Goto, Done, Inv, TypeOK
<1>2. rooms' \subseteq rooms /\ \A q \in rooms \ rooms' : userList[q] = {}
  BY <1>1 DEF RoomIsEmpty
<1>3. RoomRead' /\ Leavers'
  BY <1>0, <1>1 DEF RoomRead, Leavers
<1>4. Makers'
  BY <1>0, <1>1, <1>2 DEF Makers
<1>5. ChatRoomExists'
  <2>1. ASSUME NEW x \in Sockets \ overlapped, userMap[x].status = "CHATTING", userMap[x].room \notin rooms' \cup {Garbled}
        PROVE  \E u \in Threads : loc[u].sock = x /\ pc[u] \in {"enterList", "friendList", "reset"}
    <3>1. CASE userMap[x].room \notin rooms
      BY <2>1, <3>1 DEF ChatRoomExists
    <3>2. CASE userMap[x].room \in rooms
      <4>1. PICK u \in Threads : loc[u].sock = x /\ pc[u] \in Between
        BY <1>2, <2>1, <3>2 DEF RoomsMatchSessions, Between, ShortNames
      <4>2. pc[u] # "makeSession"
        BY <2>1, <4>1 DEF StatusOK, StatusKept, Status, LobbySteps
      <4>3. QED
        BY <4>1, <4>2 DEF Between
    <3>3. QED
      BY <3>1, <3>2
  <2>2. QED
    BY <1>0, <1>1, <2>1 DEF ChatRoomExists
<1>6. RoomsMatchSessions'
  <2>1. ASSUME NEW x \in Sockets \ overlapped, NEW q \in rooms \ LongNames
        PROVE  \/ x \in userList[q] <=> (userMap[x].status = "CHATTING" /\ userMap[x].room = q)
               \/ \E u \in Threads : loc'[u].sock = x /\ loc'[u].room = q /\ pc'[u] \in Between
    BY <1>0, <1>1 DEF RoomsMatchSessions, Between
  <2>2. QED
    BY <1>0, <1>1, <1>2, <2>1 DEF RoomsMatchSessions, Between
<1>7. QED
  BY <1>3, <1>4, <1>5, <1>6

(* Every step keeps the lists and the sessions together.                     *)
LEMMA ListsStep ==
  ASSUME SessionInv, Membership, [Next]_vars
  PROVE  Lists'
<1> USE DEF SessionInv, LoginInv, Membership
<1>1. ASSUME NEW t \in Threads, Step(t)
      PROVE  Lists'
  BY <1>1, RoomQuietSteps, RoomsFrame, RoomMakeStep, SetChattingStep, PushBackStep,
     LeaveListStep, ResetStep, EraseRoomStep
<1>2. CASE \/ \E t \in Workers, s \in Sockets, p \in Packets : Dispatch(t, s, p[1], p[2], p[3])
           \/ \E t \in Receivers, s \in Sockets : ClientExit(t, s)
  <2>1. PICK t \in Threads, s \in Sockets :
          /\ pc[t] = "idle" /\ UNCHANGED tables
          /\ \A u \in Threads \ {t} : pc'[u] = pc[u] /\ loc'[u] = loc[u]
          /\ pc'[t] \in {"getStatus", "banCopy", "exitLive"}
          /\ Start(s) \/ UNCHANGED history
    BY <1>2, StartEffect
  <2>2. overlapped \subseteq overlapped'
    BY <2>1, StartFacts DEF Inv, history
  <2>3. RoomQuiet(t)
    BY <2>1, <2>2 DEF RoomQuiet, tables, Between
  <2>4. QED
    BY <2>3, RoomsFrame
<1>3. CASE UNCHANGED <<userMap, rooms, userList, pc, loc>> /\ overlapped \subseteq overlapped'
  BY <1>3 DEF Lists, RoomRead, Makers, Leavers, ChatRoomExists, RoomsMatchSessions
<1>4. ASSUME NEW s \in Sockets, Accept(s)
      PROVE  UNCHANGED <<userMap, rooms, userList, pc, loc>> /\ overlapped \subseteq overlapped'
  BY <1>4, StartFacts DEF Accept, Inv, tables
<1>5. CASE InsertLiveSocket \/ UNCHANGED vars
  BY <1>3, <1>5 DEF InsertLiveSocket, vars, tables, history
<1>6. ASSUME NEW t \in Threads, Exit(t) \/ Fault(t)
      PROVE  Lists'
  BY <1>6 DEF Exit, Fault, GoDown, Lists, RoomRead, Makers, Leavers, ChatRoomExists,
              RoomsMatchSessions, NoSession
<1>7. QED
  BY <1>1, <1>2, <1>3, <1>4, <1>5, <1>6, NextCases

(* The invariant of the rooms holds at first and is kept.                    *)
LEMMA RoomInvHolds ==
  /\ Init => RoomInv
  /\ RoomInv /\ [Next]_vars => RoomInv'
<1>1. Init => Membership
  BY DEF Init, Membership, Lists, ShortNames, RoomRead, Makers, Leavers, ChatRoomExists,
         RoomsMatchSessions, NoSession
<1>2. Init => RoomInv
  BY <1>1, InitSessionInv DEF RoomInv
<1>3. RoomInv /\ [Next]_vars => RoomInv'
  BY ListsStep, ShortNamesStep, SessionInvStep DEF RoomInv, Membership, SessionInv, LoginInv
<1>4. QED
  BY <1>2, <1>3

(* Member lists and sessions agree, for every connection that two handlers   *)
(* have not had in hand at one time and every room whose name a session can  *)
(* hold, whatever handlers of other connections do.                          *)
THEOREM RoomsMatch == Spec => []RoomsMatchSessions
<1>1. RoomInv => RoomsMatchSessions
  BY DEF RoomInv, Membership, Lists
<1>2. QED
  BY <1>1, RoomInvHolds, PTL DEF Spec

(* The unchecked lookups of sessions and of the room to leave find their     *)
(* entry, with the exceptions that LookupsFind names.                        *)
THEOREM LookupsSucceed == Spec => []LookupsFind
<1>1. RoomInv => LookupsFind
  <2> SUFFICES ASSUME RoomInv, NEW t \in Threads, BadDeref(t), loc[t].sock \notin overlapped
               PROVE  \/ pc[t] \in {"enterList", "friendList"}
                      \/ pc[t] = "list" /\ loc[t].room = Garbled
    BY DEF LookupsFind
  <2> USE DEF RoomInv, SessionInv, LoginInv, Membership, Lists
  <2>1. pc[t] # "idle" => loc[t].sock \in Sockets
    BY DEF Inv, LocalsOK
  <2>2. ~(pc[t] \in SessionSteps /\ ~HasSession(loc[t].sock))
    <3>1. pc[t] \in SessionSteps => loc[t].sock \in Sockets /\ Status(t) # "LOGOUT"
      BY <2>1 DEF SessionSteps, StatusOK, StatusKept, LobbySteps, RoomSteps, EitherSteps
    <3>2. QED
      BY <3>1, StatusFacts DEF Inv, Status
  <2>3. pc[t] = "list" /\ loc[t].room \notin rooms => loc[t].room = Garbled
    <3>1. ASSUME pc[t] = "list", loc[t].room \notin rooms, loc[t].room # Garbled PROVE FALSE
      <4>1. userMap[loc[t].sock].status = "CHATTING" /\ userMap[loc[t].sock].room = loc[t].room
        BY <3>1 DEF StatusOK, StatusKept, Status, RoomSteps, RoomRead, ShortNames, StoredName
      <4>2. PICK u \in Threads : loc[u].sock = loc[t].sock /\ pc[u] \in {"enterList", "friendList", "reset"}
        BY <2>1, <3>1, <4>1 DEF ChatRoomExists
      <4>3. u = t
        BY <3>1, <4>2 DEF Control, OneHandler, Busy
      <4>4. QED
        BY <3>1, <4>2, <4>3
    <3>2. QED
      BY <3>1
  <2>4. QED
    BY <2>2, <2>3 DEF BadDeref
<1>2. QED
  BY <1>1, RoomInvHolds, PTL DEF Spec
=============================================================================
