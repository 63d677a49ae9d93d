------------------------- MODULE ConsoleClientProofs -------------------------
(***************************************************************************)
(* Theorems about ConsoleClient for any lines the user types, any number of *)
(* packets and broadcasts and any WorkThreads: until two handlers of the    *)
(* connection overlap, the client's view ends in the status that the server *)
(* has.                                                                     *)
(***************************************************************************)
EXTENDS ConsoleClient, SequenceTheorems, TLAPS

-----------------------------------------------------------------------------
(* The last element of q that is in T, and that there is none.               *)
LastIn(q, T, x) ==
  \E i \in DOMAIN q : q[i] = x /\ x \in T /\ \A j \in DOMAIN q : j > i => q[j] \notin T
NoneIn(q, T) == \A i \in DOMAIN q : q[i] \notin T

(* A push makes its element the last, if it is one of those that count.      *)
LEMMA LastAppend ==
  ASSUME NEW S, NEW q \in Seq(S), NEW e \in S, NEW T
  PROVE  /\ Append(q, e) \in Seq(S)
         /\ e \in T => LastIn(Append(q, e), T, e)
         /\ e \notin T => \A x : LastIn(q, T, x) => LastIn(Append(q, e), T, x)
         /\ e \notin T => (NoneIn(q, T) => NoneIn(Append(q, e), T))
<1>1. /\ Append(q, e) \in Seq(S)
      /\ DOMAIN Append(q, e) = 1 .. Len(q) + 1
      /\ DOMAIN q = 1 .. Len(q) /\ Len(q) \in Nat
      /\ \A i \in 1 .. Len(q) : Append(q, e)[i] = q[i]
      /\ Append(q, e)[Len(q) + 1] = e
  OBVIOUS
<1>2. ASSUME e \in T PROVE LastIn(Append(q, e), T, e)
  <2>1. Len(q) + 1 \in DOMAIN Append(q, e) /\ \A j \in DOMAIN Append(q, e) : ~(j > Len(q) + 1)
    BY <1>1
  <2>2. QED
    BY <1>1, <1>2, <2>1 DEF LastIn
<1>3. ASSUME e \notin T, NEW x, LastIn(q, T, x) PROVE LastIn(Append(q, e), T, x)
  <2>1. PICK i \in 1 .. Len(q) : q[i] = x /\ x \in T /\ \A j \in 1 .. Len(q) : j > i => q[j] \notin T
    BY <1>1, <1>3 DEF LastIn
  <2>2. i \in DOMAIN Append(q, e) /\ Append(q, e)[i] = x
    BY <1>1, <2>1
  <2>3. ASSUME NEW j \in 1 .. Len(q) + 1, j > i PROVE Append(q, e)[j] \notin T
    BY <1>1, <1>3, <2>1, <2>3
  <2>4. QED
    BY <1>1, <2>1, <2>2, <2>3 DEF LastIn
<1>4. ASSUME e \notin T, NoneIn(q, T) PROVE NoneIn(Append(q, e), T)
  BY <1>1, <1>4 DEF NoneIn
<1>5. QED
  BY <1>1, <1>2, <1>3, <1>4

(* A pop leaves the last one, unless it was that.                            *)
LEMMA LastTail ==
  ASSUME NEW S, NEW q \in Seq(S), q # <<>>, NEW T
  PROVE  /\ Tail(q) \in Seq(S) /\ Head(q) \in S
         /\ \A x : LastIn(q, T, x) => LastIn(Tail(q), T, x) \/ (NoneIn(Tail(q), T) /\ x = Head(q) /\ x \in T)
         /\ NoneIn(q, T) => NoneIn(Tail(q), T) /\ Head(q) \notin T
<1>1. /\ Tail(q) \in Seq(S) /\ Head(q) = q[1] /\ Head(q) \in S
      /\ Len(q) \in Nat /\ Len(q) > 0
      /\ DOMAIN q = 1 .. Len(q) /\ DOMAIN Tail(q) = 1 .. Len(q) - 1
      /\ \A i \in 1 .. Len(q) - 1 : Tail(q)[i] = q[i + 1]
  OBVIOUS
<1>2. ASSUME NEW x, LastIn(q, T, x)
      PROVE  LastIn(Tail(q), T, x) \/ (NoneIn(Tail(q), T) /\ x = Head(q) /\ x \in T)
  <2>1. PICK i \in 1 .. Len(q) : q[i] = x /\ x \in T /\ \A j \in 1 .. Len(q) : j > i => q[j] \notin T
    BY <1>1, <1>2 DEF LastIn
  <2>2. CASE i = 1
    <3>1. ASSUME NEW j \in 1 .. Len(q) - 1 PROVE Tail(q)[j] \notin T
      BY <1>1, <2>1, <2>2
    <3>2. QED
      BY <1>1, <2>1, <2>2, <3>1 DEF NoneIn
  <2>3. CASE i > 1
    <3>1. i - 1 \in 1 .. Len(q) - 1 /\ Tail(q)[i - 1] = x
      BY <1>1, <2>1, <2>3
    <3>2. ASSUME NEW j \in 1 .. Len(q) - 1, j > i - 1 PROVE Tail(q)[j] \notin T
      <4>1. j + 1 \in 1 .. Len(q) /\ j + 1 > i /\ Tail(q)[j] = q[j + 1]
        BY <1>1, <2>1, <3>2
      <4>2. QED
        BY <2>1, <4>1
    <3>3. QED
      BY <1>1, <2>1, <3>1, <3>2 DEF LastIn
  <2>4. QED
    BY <2>1, <2>2, <2>3
<1>3. ASSUME NoneIn(q, T) PROVE NoneIn(Tail(q), T) /\ Head(q) \notin T
  BY <1>1, <1>3 DEF NoneIn
<1>4. QED
  BY <1>1, <1>2, <1>3

(* There is a last one or none, and no other.                                *)
LEMMA LastIsMax ==
  ASSUME NEW S, NEW q \in Seq(S), NEW T, NEW x
  PROVE  LET I == {i \in DOMAIN q : q[i] \in T}
         IN  /\ LastIn(q, T, x) => I # {} /\ q[Max(I)] = x
             /\ NoneIn(q, T) => I = {}
<1> DEFINE I == {i \in DOMAIN q : q[i] \in T}
<1>1. ASSUME LastIn(q, T, x) PROVE I # {} /\ q[Max(I)] = x
  <2>1. PICK i \in DOMAIN q : q[i] = x /\ x \in T /\ \A j \in DOMAIN q : j > i => q[j] \notin T
    BY <1>1 DEF LastIn
  <2>2. i \in I /\ I \subseteq Nat
    BY <2>1
  <2>3. \A j \in I : i >= j
    BY <2>1, <2>2
  <2>4. Max(I) \in I /\ \A j \in I : Max(I) >= j
    BY <2>2, <2>3 DEF Max
  <2>5. Max(I) = i
    <3>1. PICK m : m = Max(I)
      OBVIOUS
    <3>2. m \in Nat /\ i \in Nat /\ m >= i /\ i >= m
      BY <2>2, <2>3, <2>4, <3>1
    <3>3. QED
      BY <3>1, <3>2
  <2>6. QED
    BY <2>1, <2>2, <2>5
<1>2. NoneIn(q, T) => I = {}
  BY DEF NoneIn
<1>3. QED
  BY <1>1, <1>2

-----------------------------------------------------------------------------
(* What the client is told.                                                  *)

(* The queued replies that reach the client, if its membership stays, and    *)
(* set its status.                                                           *)
Telling == {e \in Replies : e.status \in Statuses /\ (e.kind = "ME" \/ member)}

(* The status t is the last one that the client is told, once all replies    *)
(* have been sent.                                                           *)
LastQueued(q, t) == \E e \in Replies : LastIn(q, Telling, e) /\ e.status = t
Told(t) ==
  \/ LastQueued(sendQueue, t)
  \/ NoneIn(sendQueue, Telling) /\ LastQueued(batch, t)
  \/ NoneIn(sendQueue, Telling) /\ NoneIn(batch, Telling) /\ LastIn(down, Statuses, t)
  \/ /\ NoneIn(sendQueue, Telling) /\ NoneIn(batch, Telling) /\ NoneIn(down, Statuses)
     /\ clientStatus = t

Packets == Statuses \cup {"WHISPER", "FILE_SEND"}

QueuesTyped ==
  /\ sendQueue \in Seq(Replies) /\ batch \in Seq(Replies) /\ down \in Seq(Packets)
  /\ session \in Statuses /\ member \in BOOLEAN

(* Until handlers overlap one of them runs at most, and Current is what is   *)
(* left of it.                                                               *)
Busy == {w \in Workers : handler[w] # <<>>}
Alone == \A u, w \in Busy : u = w
Current == IF Busy = {} THEN <<>> ELSE handler[CHOOSE w \in Busy : TRUE]

Settled == member = (session = "CHATTING")

(* What is left of a handler, and what it relies on.                         *)
Between ==
  \/ Current = <<>> /\ Settled /\ Told(session)
  \/ Current = <<Me(session)>> /\ Settled
  \/ Current = <<Room("CHATTING")>> /\ session = "CHATTING" /\ member
  \/ Current = <<RecvFile, Room("FILE_SEND")>> /\ session = "CHATTING" /\ member /\ Told(session)
  \/ Current = <<Room("FILE_SEND")>> /\ session = "CHATTING" /\ member /\ Told(session)
Entering ==
  \/ Current = <<Login, Me("WAITING")>> /\ ~member
  \/ /\ session # "LOGOUT"
     /\ \/ Current = <<Join, Set("CHATTING"), Me("CHATTING")>>
        \/ Current = <<Set("CHATTING"), Me("CHATTING")>> /\ member
        \/ Current = <<Set("CHATTING"), Join, Room("CHATTING")>>
        \/ Current = <<Join, Room("CHATTING")>> /\ session = "CHATTING"
Leaving ==
  /\ session # "LOGOUT"
  /\ \/ Current = <<Set("LOGOUT"), Me("LOGOUT")>> /\ ~member
     \/ Current = LeaveRoom
     \/ Current = <<Leave, Set("WAITING"), Me("LOGOUT"), Set("LOGOUT")>>
     \/ Current = <<Set("WAITING"), Me("LOGOUT"), Set("LOGOUT")>> /\ ~member
     \/ \E s \in {"WAITING", "LOGOUT"} : Current = <<Me(s), Set(s)>> /\ ~member
     \/ \E s \in {"WAITING", "LOGOUT"} : Current = <<Set(s)>> /\ ~member /\ Told(s)

ToldInv ==
  /\ DOMAIN handler = Workers
  /\ ~overlapped => QueuesTyped /\ (proc = "run" => Alone /\ (Between \/ Entering \/ Leaving))

(* The effects are no replies, and these reach the client.                   *)
LEMMA Kinds ==
  /\ \A s \in Statuses : Set(s) \notin Replies /\ Set(s).kind = "set" /\ Set(s).status = s
  /\ \A s \in Statuses : Me(s) \in Replies /\ Me(s).kind = "ME" /\ Me(s).status = s /\ Me(s) \in Telling
  /\ Login \notin Replies /\ Login.kind = "login" /\ Login.status = "WAITING"
  /\ RecvFile \notin Replies /\ RecvFile.kind = "recvfrom"
  /\ Join \notin Replies /\ Join.kind = "join"
  /\ Leave \notin Replies /\ Leave.kind = "leave" /\ Leave.status = "CHATTING"
  /\ Room("CHATTING") \in Replies /\ Room("CHATTING").kind = "ROOM" /\ Room("CHATTING").status = "CHATTING"
  /\ Room("FILE_SEND") \in Replies /\ Room("FILE_SEND").kind = "ROOM" /\ Room("FILE_SEND").status = "FILE_SEND"
  /\ Me("WHISPER") \in Replies /\ Me("WHISPER").kind = "ME" /\ Me("WHISPER").status = "WHISPER"
  /\ Room("FILE_SEND") \notin Telling /\ Me("WHISPER") \notin Telling
  /\ member => Room("CHATTING") \in Telling
  /\ ~member => Room("CHATTING") \notin Telling
  /\ \A e \in Replies : e.kind \in {"ME", "ROOM"} /\ e.status \in Packets
<1>1. \A e \in Replies : e.kind \in {"ME", "ROOM"} /\ e.status \in Packets
  <2>1. ASSUME NEW s \in Packets PROVE /\ Me(s).kind = "ME" /\ Me(s).status = s
                                       /\ Room(s).kind = "ROOM" /\ Room(s).status = s
    BY DEF Me, Room
  <2>2. ASSUME NEW e \in Replies PROVE \E s \in Packets : e = Me(s) \/ e = Room(s)
    BY DEF Replies, Packets, Statuses
  <2>3. QED
    BY <2>1, <2>2
<1>2. \A s \in Statuses : Set(s) \notin Replies /\ Set(s).kind = "set" /\ Set(s).status = s
  BY <1>1 DEF Set
<1>3. \A s \in Statuses : Me(s) \in Replies /\ Me(s).kind = "ME" /\ Me(s).status = s
  BY DEF Me, Replies
<1>4. /\ Join \notin Replies /\ Join.kind = "join"
      /\ Leave \notin Replies /\ Leave.kind = "leave" /\ Leave.status = "CHATTING"
      /\ Login \notin Replies /\ Login.kind = "login" /\ Login.status = "WAITING"
      /\ RecvFile \notin Replies /\ RecvFile.kind = "recvfrom"
  BY <1>1 DEF Join, Leave, Login, RecvFile
<1>5. /\ Room("CHATTING") \in Replies /\ Room("CHATTING").kind = "ROOM" /\ Room("CHATTING").status = "CHATTING"
      /\ Room("FILE_SEND") \in Replies /\ Room("FILE_SEND").kind = "ROOM" /\ Room("FILE_SEND").status = "FILE_SEND"
  BY DEF Room, Replies
<1>6. Me("WHISPER") \in Replies /\ Me("WHISPER").kind = "ME" /\ Me("WHISPER").status = "WHISPER"
  BY DEF Me, Replies
<1>7. QED
  BY <1>1, <1>2, <1>3, <1>4, <1>5, <1>6 DEF Telling, Statuses

(* At first the server has no session for the client, and the client knows   *)
(* it.                                                                       *)
LEMMA ToldInit == Init => ToldInv
<1> SUFFICES ASSUME Init PROVE ToldInv
  OBVIOUS
<1> USE DEF Init
<1>1. QueuesTyped
  <2>1. <<"LOGOUT">> \in Seq(Packets)
    BY DEF Packets, Statuses
  <2>2. sendQueue \in Seq(Replies) /\ batch \in Seq(Replies) /\ down \in Seq(Packets)
    BY <2>1
  <2>3. QED
    BY <2>2 DEF QueuesTyped, Statuses
<1>2. LastIn(down, Statuses, "LOGOUT")
  BY DEF LastIn, Statuses
<1>3. NoneIn(sendQueue, Telling) /\ NoneIn(batch, Telling)
  BY DEF NoneIn
<1>4. Told(session)
  BY <1>2, <1>3 DEF Told
<1>5. Busy = {} /\ Current = <<>> /\ Alone /\ DOMAIN handler = Workers
  BY DEF Busy, Current, Alone
<1>6. Between
  BY <1>4, <1>5 DEF Between, Settled
<1>7. QED
  BY <1>1, <1>5, <1>6 DEF ToldInv

(* The invariant is what the property asks for.                              *)
LEMMA ToldSuffices == ToldInv => InStep
<1> SUFFICES ASSUME ToldInv, proc = "run", ~overlapped, Idle, sendQueue = <<>>, batch = <<>>
             PROVE  LastStatus = session
  BY DEF InStep, Queued
<1>0. Current = <<>>
  BY DEF Idle, Current, Busy
<1>1. Told(session)
  BY <1>0 DEF ToldInv, Between, Entering, Leaving, LeaveRoom
<1>2. LastIn(down, Statuses, session) \/ (NoneIn(down, Statuses) /\ clientStatus = session)
  BY <1>1 DEF Told, LastQueued, LastIn
<1>3. down \in Seq(Packets)
  BY DEF ToldInv, QueuesTyped
<1> DEFINE I == {i \in DOMAIN down : down[i] \in Statuses}
<1>4. /\ LastIn(down, Statuses, session) => I # {} /\ down[Max(I)] = session
      /\ NoneIn(down, Statuses) => I = {}
  BY <1>3, LastIsMax
<1>5. LastStatus = IF I = {} THEN clientStatus ELSE down[Max(I)]
  BY DEF LastStatus
<1>6. QED
  BY <1>2, <1>4, <1>5

-----------------------------------------------------------------------------
(* Steps that leave the handler and the session alone keep what the client   *)
(* is told, but for other members' texts while it is a member itself.        *)

KeepsTold == \A t \in Statuses : Told(t) /\ (member => t = "CHATTING") => Told(t)'

(* The client takes a packet: what it was told last stays what it is told    *)
(* last.                                                                     *)
LEMMA RecvMsgKeeps ==
  ASSUME QueuesTyped, RecvMsg
  PROVE  QueuesTyped' /\ KeepsTold
<1>1. /\ down \in Seq(Packets) /\ down # <<>> /\ down' = Tail(down)
      /\ clientStatus' = IF Head(down) \in Statuses THEN Head(down) ELSE clientStatus
      /\ UNCHANGED <<sendQueue, batch, session, member>>
  BY DEF RecvMsg, server, QueuesTyped
<1>2. Tail(down) \in Seq(Packets)
  BY <1>1, LastTail
<1>3. QueuesTyped'
  BY <1>1, <1>2 DEF QueuesTyped
<1>4. Telling' = Telling
  BY <1>1 DEF Telling
<1>5. ASSUME NEW t \in Statuses, LastIn(down, Statuses, t)
      PROVE  LastIn(down', Statuses, t) \/ (NoneIn(down', Statuses) /\ clientStatus' = t)
  BY <1>1, <1>5, LastTail
<1>6. ASSUME NoneIn(down, Statuses) PROVE NoneIn(down', Statuses) /\ clientStatus' = clientStatus
  BY <1>1, <1>6, LastTail
<1>7. ASSUME NEW t \in Statuses, Told(t) PROVE Told(t)'
  BY <1>1, <1>4, <1>5, <1>6, <1>7 DEF Told, LastQueued
<1>8. QED
  BY <1>3, <1>7 DEF KeepsTold

(* A packet that goes to the client directly.                                *)
LEMMA DownKeeps ==
  ASSUME QueuesTyped, member, down' = Append(down, "CHATTING"),
         UNCHANGED <<sendQueue, batch, session, member, clientStatus>>
  PROVE  QueuesTyped' /\ KeepsTold
<1>1. down \in Seq(Packets) /\ "CHATTING" \in Packets /\ "CHATTING" \in Statuses
  BY DEF QueuesTyped, Packets, Statuses
<1>2. down' \in Seq(Packets) /\ LastIn(down', Statuses, "CHATTING")
  BY <1>1, LastAppend
<1>3. QueuesTyped'
  BY <1>2 DEF QueuesTyped
<1>4. Telling' = Telling
  BY DEF Telling
<1>5. ASSUME Told("CHATTING") PROVE Told("CHATTING")'
  BY <1>2, <1>4, <1>5 DEF Told, LastQueued
<1>6. QED
  BY <1>3, <1>5 DEF KeepsTold

(* A reply that is queued.                                                   *)
LEMMA QueuedKeeps ==
  ASSUME QueuesTyped, NEW e \in Replies, e \in Telling => member /\ e.status = "CHATTING",
         sendQueue' = Append(sendQueue, e), UNCHANGED <<down, batch, session, member, clientStatus>>
  PROVE  QueuesTyped' /\ KeepsTold
<1>1. sendQueue \in Seq(Replies)
  BY DEF QueuesTyped
<1>2. sendQueue' \in Seq(Replies)
  BY <1>1, LastAppend
<1>3. QueuesTyped'
  BY <1>2 DEF QueuesTyped
<1>4. Telling' = Telling
  BY DEF Telling
<1>5. CASE e \in Telling
  <2>1. LastIn(sendQueue', Telling, e) /\ e.status = "CHATTING" /\ member
    BY <1>1, <1>5, LastAppend
  <2>2. LastQueued(sendQueue, "CHATTING")'
    BY <1>4, <2>1 DEF LastQueued
  <2>3. Told("CHATTING")'
    BY <2>2 DEF Told
  <2>4. QED
    BY <1>3, <2>1, <2>3 DEF KeepsTold
<1>6. CASE e \notin Telling
  <2>1. /\ \A x : LastIn(sendQueue, Telling, x) => LastIn(sendQueue', Telling, x)
        /\ NoneIn(sendQueue, Telling) => NoneIn(sendQueue', Telling)
    BY <1>1, <1>6, LastAppend
  <2>2. ASSUME NEW t \in Statuses, Told(t) PROVE Told(t)'
    BY <1>4, <2>1, <2>2 DEF Told, LastQueued
  <2>3. QED
    BY <1>3, <2>2 DEF KeepsTold
<1>7. QED
  BY <1>5, <1>6

(* Sendwork takes the send queue: the same.                                  *)
LEMMA TakeQueueKeeps ==
  ASSUME QueuesTyped, TakeQueue
  PROVE  QueuesTyped' /\ KeepsTold
<1>1. /\ batch = <<>> /\ batch' = sendQueue /\ sendQueue' = <<>>
      /\ UNCHANGED <<session, member, down, clientStatus>>
  BY DEF TakeQueue, client
<1>2. QueuesTyped'
  BY <1>1 DEF QueuesTyped
<1>3. Telling' = Telling
  BY <1>1 DEF Telling
<1>4. NoneIn(sendQueue', Telling) /\ \A x : ~LastIn(batch, Telling, x)
  BY <1>1 DEF NoneIn, LastIn
<1>5. ASSUME NEW t \in Statuses, Told(t) PROVE Told(t)'
  BY <1>1, <1>3, <1>4, <1>5 DEF Told, LastQueued
<1>6. QED
  BY <1>2, <1>5 DEF KeepsTold

(* A reply that is sent, or not, as its kind and the membership say.         *)
LEMMA SendOneKeeps ==
  ASSUME QueuesTyped, SendOne
  PROVE  QueuesTyped' /\ KeepsTold
<1>1. /\ batch \in Seq(Replies) /\ batch # <<>> /\ batch' = Tail(batch)
      /\ down \in Seq(Packets)
      /\ down' = IF Head(batch).kind = "ME" \/ member THEN Append(down, Head(batch).status) ELSE down
      /\ UNCHANGED <<session, member, sendQueue, clientStatus>>
  BY DEF SendOne, client, QueuesTyped
<1>2. PICK e \in Replies : e = Head(batch)
  BY <1>1, LastTail
<1>3. e.status \in Packets /\ batch' \in Seq(Replies)
  BY <1>1, Kinds, LastTail
<1>4. down' \in Seq(Packets)
  BY <1>1, <1>2, <1>3, LastAppend
<1>5. QueuesTyped'
  BY <1>1, <1>3, <1>4 DEF QueuesTyped
<1>6. Telling' = Telling
  BY <1>1 DEF Telling
<1>7. /\ \A x : LastIn(batch, Telling, x) => LastIn(batch', Telling, x) \/ (NoneIn(batch', Telling) /\ x = e /\ x \in Telling)
      /\ NoneIn(batch, Telling) => NoneIn(batch', Telling) /\ e \notin Telling
  BY <1>1, <1>2, LastTail
<1>8. e \in Telling => LastIn(down', Statuses, e.status)
  <2>1. SUFFICES ASSUME e \in Telling PROVE LastIn(down', Statuses, e.status)
    OBVIOUS
  <2>2. down' = Append(down, e.status) /\ e.status \in Statuses
    BY <1>1, <1>2, <2>1 DEF Telling
  <2>3. QED
    BY <1>1, <1>3, <2>2, LastAppend
<1>9. ASSUME e \notin Telling
      PROVE  /\ \A x : LastIn(down, Statuses, x) => LastIn(down', Statuses, x)
             /\ NoneIn(down, Statuses) => NoneIn(down', Statuses)
  <2>1. CASE down' = down
    BY <2>1
  <2>2. CASE down' = Append(down, e.status) /\ (e.kind = "ME" \/ member)
    <3>1. e.status \notin Statuses
      BY <1>9, <2>2 DEF Telling
    <3>2. QED
      BY <1>1, <1>3, <2>2, <3>1, LastAppend
  <2>3. QED
    BY <1>1, <1>2, <2>1, <2>2
<1>10. ASSUME NEW t \in Statuses, Told(t) PROVE Told(t)'
  <2>1. CASE LastQueued(sendQueue, t)
    BY <1>1, <1>6, <2>1 DEF Told, LastQueued
  <2>2. CASE NoneIn(sendQueue, Telling) /\ LastQueued(batch, t)
    <3>1. PICK x \in Replies : LastIn(batch, Telling, x) /\ x.status = t
      BY <2>2 DEF LastQueued
    <3>2. CASE LastIn(batch', Telling, x)
      BY <1>1, <1>6, <2>2, <3>1, <3>2 DEF Told, LastQueued
    <3>3. CASE NoneIn(batch', Telling) /\ x = e /\ x \in Telling
      BY <1>1, <1>6, <1>8, <2>2, <3>1, <3>3 DEF Told
    <3>4. QED
      BY <1>7, <3>1, <3>2, <3>3
  <2>3. CASE NoneIn(sendQueue, Telling) /\ NoneIn(batch, Telling)
    <3>1. \/ LastIn(down, Statuses, t) \/ (NoneIn(down, Statuses) /\ clientStatus = t)
          \/ LastQueued(sendQueue, t) \/ LastQueued(batch, t)
      BY <1>10 DEF Told
    <3>2. ~LastQueued(sendQueue, t) /\ ~LastQueued(batch, t)
      BY <2>3 DEF LastQueued, LastIn, NoneIn
    <3>3. QED
      BY <1>1, <1>6, <1>7, <1>9, <2>3, <3>1, <3>2 DEF Told
  <2>4. QED
    BY <1>10, <2>1, <2>2, <2>3 DEF Told
<1>11. QED
  BY <1>5, <1>10 DEF KeepsTold

(* Such a step keeps the invariant.                                          *)
LEMMA KeepsToldInv ==
  ASSUME ToldInv, ~overlapped, proc = "run", QueuesTyped', KeepsTold,
         UNCHANGED <<session, member>>, DOMAIN handler' = Workers, \A w \in Workers : handler'[w] = handler[w]
  PROVE  ToldInv'
<1>0. Current' = Current /\ Alone' = Alone
  <2>1. Busy' = Busy
    BY DEF Busy
  <2>2. Busy # {} => (CHOOSE w \in Busy : TRUE) \in Workers
    BY DEF Busy
  <2>3. QED
    BY <2>1, <2>2 DEF Current, Alone
<1>1. session \in Statuses /\ member \in BOOLEAN /\ Alone /\ (Between \/ Entering \/ Leaving)
  BY DEF ToldInv, QueuesTyped
<1>2. \A t \in Statuses : Told(t) /\ (member => t = "CHATTING") => Told(t)'
  BY DEF KeepsTold
<1>3. PICK s \in Statuses : s = session /\ s = session'
  BY <1>1
<1>4. ASSUME Between PROVE Between'
  <2>1. CASE Current = <<>> /\ Settled /\ Told(session)
    <3>1. Told(s)'
      BY <1>2, <1>3, <2>1 DEF Settled
    <3>2. Told(session)'
      BY <1>3, <3>1
    <3>3. QED
      BY <1>0, <2>1, <3>2 DEF Between, Settled
  <2>2. CASE Current = <<Me(session)>> /\ Settled
    BY <1>0, <2>2 DEF Between, Settled
  <2>3. CASE Current = <<Room("CHATTING")>> /\ session = "CHATTING" /\ member
    BY <1>0, <2>3 DEF Between
  <2>4. CASE /\ Current \in {<<RecvFile, Room("FILE_SEND")>>, <<Room("FILE_SEND")>>}
             /\ session = "CHATTING" /\ member /\ Told(session)
    <3>1. Told(s)'
      BY <1>2, <1>3, <2>4
    <3>2. Told(session)'
      BY <1>3, <3>1
    <3>3. QED
      BY <1>0, <2>4, <3>2 DEF Between
  <2>5. QED
    BY <1>4, <2>1, <2>2, <2>3, <2>4 DEF Between
<1>5. ASSUME Entering PROVE Entering'
  BY <1>0, <1>5 DEF Entering
<1>6. ASSUME Leaving PROVE Leaving'
  <2>1. ASSUME NEW t \in {"WAITING", "LOGOUT"}, Current = <<Set(t)>>, ~member, Told(t) PROVE Leaving'
    <3>1. Told(t)'
      BY <1>2, <2>1 DEF Statuses
    <3>2. QED
      BY <1>0, <2>1, <3>1, <1>6 DEF Leaving
  <2>2. QED
    BY <1>0, <1>6, <2>1 DEF Leaving
<1>7. QED
  BY <1>0, <1>1, <1>4, <1>5, <1>6 DEF ToldInv

-----------------------------------------------------------------------------
(* A handler starts.                                                         *)

(* Unless it overlaps another, the handler that starts is the current one;   *)
(* one without effects leaves everything as it is.                           *)
LEMMA StartAlone ==
  ASSUME ToldInv, NEW w \in Workers, NEW effects, Start(w, effects), ~overlapped'
  PROVE  /\ ~overlapped /\ DOMAIN handler' = Workers
         /\ effects = <<>> => \A u \in Workers : handler'[u] = handler[u]
         /\ effects # <<>> => Current = <<>> /\ Current' = effects /\ Alone'
<1>1. /\ DOMAIN handler = Workers /\ handler[w] = <<>>
      /\ handler' = [handler EXCEPT ![w] = effects]
      /\ ~overlapped /\ (effects = <<>> \/ Busy = {})
  BY DEF ToldInv, Start, Busy
<1>2. DOMAIN handler' = Workers
  BY <1>1
<1>3. ASSUME effects = <<>> PROVE \A u \in Workers : handler'[u] = handler[u]
  BY <1>1, <1>3
<1>4. ASSUME effects # <<>> PROVE Current = <<>> /\ Current' = effects /\ Alone'
  <2>1. Busy = {} /\ Busy' = {w} /\ handler'[w] = effects
    BY <1>1, <1>4 DEF Busy
  <2>2. (CHOOSE x \in Busy' : TRUE) = w
    BY <2>1
  <2>3. QED
    BY <2>1, <2>2 DEF Current, Alone
<1>5. QED
  BY <1>1, <1>2, <1>3, <1>4

(* When no handler runs the client has been told the status of the session.  *)
LEMMA BetweenHandlers ==
  ASSUME ToldInv, proc = "run", ~overlapped, Current = <<>>
  PROVE  Settled /\ Told(session) /\ session \in Statuses /\ member \in BOOLEAN
BY DEF ToldInv, QueuesTyped, Between, Entering, Leaving, LeaveRoom

(* A step that changes nothing of what the client is told.                   *)
LEMMA IdleKeeps ==
  ASSUME ToldInv, ~overlapped, UNCHANGED <<clientStatus, session, member, sendQueue, batch, down>>
  PROVE  QueuesTyped' /\ KeepsTold
<1>1. Telling' = Telling /\ QueuesTyped
  BY DEF Telling, ToldInv
<1>2. QED
  BY <1>1 DEF QueuesTyped, KeepsTold, Told, LastQueued

(* Nothing changes in that when a handler starts.                            *)
LEMMA StartKeeps ==
  ASSUME ToldInv, proc = "run", ~overlapped, Current = <<>>,
         UNCHANGED <<session, member, sendQueue, batch, down, clientStatus>>
  PROVE  QueuesTyped' /\ Settled' /\ Told(session)'
<1>1. Settled /\ Told(session) /\ QueuesTyped
  BY BetweenHandlers DEF ToldInv
<1>2. Telling' = Telling
  BY DEF Telling
<1>3. QED
  BY <1>1, <1>2 DEF QueuesTyped, Settled, Told, LastQueued

(* A packet of the client starts a handler.                                  *)
LEMMA DispatchTold ==
  ASSUME ToldInv, ~overlapped, NEW w \in Workers, NEW i \in DOMAIN up, Dispatch(w, i)
  PROVE  ToldInv'
<1>a. PICK effects \in Handlers(up[i]) : Start(w, effects)
  BY DEF Dispatch
<1>2. proc = "run" /\ proc' = "run" /\ UNCHANGED <<session, member, sendQueue, batch, down, clientStatus>>
  BY DEF Dispatch, client
<1>b. QueuesTyped' /\ KeepsTold
  BY <1>2, IdleKeeps
<1>c. DOMAIN handler' = Workers
  BY <1>a DEF ToldInv, Start
<1>d. SUFFICES ASSUME ~overlapped', effects # <<>> PROVE ToldInv'
  <2>1. CASE overlapped'
    BY <1>b, <1>c, <2>1 DEF ToldInv
  <2>2. CASE ~overlapped' /\ effects = <<>>
    <3>1. \A u \in Workers : handler'[u] = handler[u]
      BY <1>a, <2>2, StartAlone
    <3>2. QED
      BY <1>2, <1>b, <1>c, <3>1, KeepsToldInv
  <2>3. QED
    BY <1>d, <2>1, <2>2
<1>1. Current = <<>> /\ Current' = effects /\ Current' \in Handlers(up[i]) /\ Alone' /\ ~overlapped
  BY <1>a, <1>d, StartAlone
<1>3. /\ Settled /\ session \in Statuses /\ QueuesTyped' /\ Settled'
      /\ Told(session)' /\ session' = session /\ member' = member
  BY <1>1, <1>2, BetweenHandlers, StartKeeps
<1>4. PICK p : p = up[i]
  OBVIOUS
<1>5. Current' = <<>> => Between'
  BY <1>3 DEF Between
<1>6. CASE session = "LOGOUT"
  <2>1. Current' \in {<<>>, <<Me("LOGOUT")>>, <<Login, Me("WAITING")>>}
    <3>1. Current' \in StatusLogout(p)
      BY <1>1, <1>4, <1>6 DEF Handlers
    <3>2. QED
      BY <3>1 DEF StatusLogout
  <2>2. ~member'
    BY <1>3, <1>6 DEF Settled
  <2>3. QED
    BY <1>1, <1>2, <1>c, <1>3, <1>5, <1>6, <2>1, <2>2 DEF ToldInv, Between, Entering
<1>7. CASE session = "WAITING"
  <2>1. Current' \in {<<>>, <<Me("WAITING")>>, <<Join, Set("CHATTING"), Me("CHATTING")>>,
                     <<Set("CHATTING"), Join, Room("CHATTING")>>, <<Set("LOGOUT"), Me("LOGOUT")>>}
    <3>1. Current' \in StatusWait(p)
      BY <1>1, <1>4, <1>7 DEF Handlers
    <3>2. QED
      BY <3>1 DEF StatusWait, RoomMake, RoomEnter, FriendGo
  <2>2. ~member'
    BY <1>3, <1>7 DEF Settled
  <2>3. QED
    BY <1>1, <1>2, <1>c, <1>3, <1>5, <1>7, <2>1, <2>2 DEF ToldInv, Between, Entering, Leaving
<1>8. CASE session = "CHATTING"
  <2>1. Current' \in {<<>>, LeaveRoom, <<RecvFile, Room("FILE_SEND")>>, <<Room("CHATTING")>>}
    <3>1. Current' \in StatusChat(p)
      BY <1>1, <1>4, <1>8 DEF Handlers
    <3>2. QED
      BY <3>1 DEF StatusChat
  <2>2. member'
    BY <1>3, <1>8 DEF Settled
  <2>3. QED
    BY <1>1, <1>2, <1>c, <1>3, <1>5, <1>8, <2>1, <2>2 DEF ToldInv, Between, Leaving
<1>9. QED
  BY <1>3, <1>6, <1>7, <1>8 DEF Statuses

(* So does a ban by another user.                                            *)
LEMMA BanUserTold ==
  ASSUME ToldInv, ~overlapped, NEW w \in Workers, BanUser(w)
  PROVE  ToldInv'
<1> DEFINE effects == IF session = "CHATTING"
                      THEN <<Leave, Set("WAITING"), Me("LOGOUT"), Set("LOGOUT")>>
                      ELSE <<Me("LOGOUT"), Set("LOGOUT")>>
<1>a. Start(w, effects) /\ effects # <<>>
  BY DEF BanUser
<1>2. /\ proc = "run" /\ proc' = "run" /\ session # "LOGOUT"
      /\ UNCHANGED <<session, member, sendQueue, batch, down, clientStatus>>
  BY DEF BanUser, client
<1>b. QueuesTyped'
  BY <1>2, IdleKeeps
<1>c. DOMAIN handler' = Workers
  BY <1>a DEF ToldInv, Start
<1>d. SUFFICES ASSUME ~overlapped' PROVE ToldInv'
  BY <1>b, <1>c DEF ToldInv
<1>1. Current = <<>> /\ Current' = effects /\ Alone' /\ ~overlapped
  <2> HIDE DEF effects
  <2>1. QED
    BY <1>a, <1>d, StartAlone
<1>3. Settled /\ session \in Statuses /\ QueuesTyped' /\ session' = session /\ member' = member
  BY <1>1, <1>2, BetweenHandlers, StartKeeps
<1>4. CASE session = "CHATTING"
  <2>1. Current' = <<Leave, Set("WAITING"), Me("LOGOUT"), Set("LOGOUT")>>
    BY <1>1, <1>4
  <2>2. QED
    BY <1>1, <1>2, <1>c, <1>3, <1>4, <2>1 DEF ToldInv, Leaving
<1>5. CASE session = "WAITING"
  <2>1. Current' = <<Me("LOGOUT"), Set("LOGOUT")>>
    BY <1>1, <1>5
  <2>2. ~member'
    BY <1>3, <1>5 DEF Settled
  <2>3. QED
    BY <1>1, <1>2, <1>c, <1>3, <1>5, <2>1, <2>2 DEF ToldInv, Leaving
<1>6. QED
  BY <1>2, <1>3, <1>4, <1>5 DEF Statuses

-----------------------------------------------------------------------------
(* The effects, one at a time.                                               *)

(* An effect of the only handler that runs.                                  *)
EffectAlone ==
  /\ proc = "run" /\ proc' = "run"
  /\ Current # <<>> /\ Current' = Tail(Current)
  /\ LET e == Head(Current)
     IN  /\ session' = IF e.kind = "login" \/ (e.kind = "set" /\ session # "LOGOUT") THEN e.status ELSE session
         /\ e.kind = "join" => member' = TRUE
         /\ e.kind = "leave" => member' = FALSE
         /\ e.kind \notin {"join", "leave"} => member' = member
         /\ down' = IF e.kind = "leave" /\ member THEN Append(down, e.status) ELSE down
         /\ sendQueue' = IF e \in Replies THEN Append(sendQueue, e) ELSE sendQueue
  /\ UNCHANGED <<clientStatus, batch>>

(* Until handlers overlap every effect is one.                               *)
LEMMA EffectIsAlone ==
  ASSUME DOMAIN handler = Workers, Alone, ~overlapped, NEW w \in Workers, Effect(w)
  PROVE  EffectAlone /\ Alone' /\ DOMAIN handler' = Workers /\ ~overlapped'
<1>1. /\ handler[w] # <<>> /\ handler' = [handler EXCEPT ![w] = Tail(handler[w])]
      /\ proc = "run" /\ UNCHANGED <<proc, clientStatus, batch, overlapped>>
  BY DEF Effect, client
<1>2. Busy = {w}
  BY <1>1 DEF Alone, Busy
<1>3. Current = handler[w]
  <2>1. (CHOOSE x \in Busy : TRUE) = w
    BY <1>2
  <2>2. QED
    BY <1>2, <2>1 DEF Current
<1>4. DOMAIN handler' = Workers /\ handler'[w] = Tail(handler[w]) /\ Busy' \subseteq {w}
  BY <1>1, <1>2 DEF Busy
<1>5. Current' = Tail(handler[w])
  <2>1. CASE Busy' = {}
    <3>1. handler'[w] = <<>>
      BY <2>1 DEF Busy
    <3>2. QED
      BY <1>4, <2>1, <3>1 DEF Current
  <2>2. CASE Busy' = {w}
    <3>1. (CHOOSE x \in Busy' : TRUE) = w
      BY <2>2
    <3>2. QED
      BY <1>4, <2>2, <3>1 DEF Current
  <2>3. QED
    BY <1>4, <2>1, <2>2
<1>6. Alone'
  BY <1>4 DEF Alone
<1>7. PICK e : e = Head(handler[w])
  OBVIOUS
<1>8. /\ session' = IF e.kind = "login" \/ (e.kind = "set" /\ session # "LOGOUT") THEN e.status ELSE session
      /\ down' = IF e.kind = "leave" /\ member THEN Append(down, e.status) ELSE down
      /\ sendQueue' = IF e \in Replies THEN Append(sendQueue, e) ELSE sendQueue
  BY <1>7 DEF Effect
<1>9. /\ e.kind = "join" => member' = TRUE
      /\ e.kind = "leave" => member' = FALSE
      /\ e.kind \notin {"join", "leave"} => member' = member
  BY <1>7 DEF Effect
<1>10. QED
  BY <1>1, <1>3, <1>4, <1>5, <1>6, <1>7, <1>8, <1>9 DEF EffectAlone

(* The login gives the connection a session and tells nobody.                *)
LEMMA LoginStep ==
  ASSUME QueuesTyped, NEW rest, Current # <<>>, Head(Current) = Login, Tail(Current) = rest, EffectAlone
  PROVE  Current' = rest /\ session' = "WAITING" /\ member' = member /\ QueuesTyped'
<1>1. /\ Current' = rest /\ session' = "WAITING" /\ member' = member
      /\ UNCHANGED <<down, sendQueue, batch>>
  BY Kinds DEF EffectAlone
<1>2. QED
  BY <1>1 DEF QueuesTyped, Statuses

(* RecvFile changes nothing here.                                            *)
LEMMA RecvFileStep ==
  ASSUME QueuesTyped, NEW rest, Current # <<>>, Head(Current) = RecvFile, Tail(Current) = rest, EffectAlone
  PROVE  /\ Current' = rest /\ session' = session /\ member' = member /\ QueuesTyped'
         /\ \A t \in Statuses : Told(t) => Told(t)'
<1>1. /\ Current' = rest /\ session' = session /\ member' = member
      /\ UNCHANGED <<down, sendQueue, batch, clientStatus>>
  BY Kinds DEF EffectAlone
<1>2. QueuesTyped'
  BY <1>1 DEF QueuesTyped
<1>3. Telling' = Telling
  BY <1>1 DEF Telling
<1>4. QED
  BY <1>1, <1>2, <1>3 DEF Told, LastQueued

(* An effect sets the status of the session and tells nobody.                *)
LEMMA SetStep ==
  ASSUME QueuesTyped, session # "LOGOUT", NEW s \in Statuses, NEW rest,
         Current # <<>>, Head(Current) = Set(s), Tail(Current) = rest, EffectAlone
  PROVE  /\ proc' = "run" /\ Current' = rest /\ session' = s /\ member' = member /\ QueuesTyped'
         /\ \A t \in Statuses : Told(t) => Told(t)'
<1>1. /\ proc' = "run" /\ Current' = rest /\ session' = s /\ member' = member
      /\ UNCHANGED <<down, sendQueue, batch, clientStatus>>
  <2>1. PICK e : e = Head(Current) /\ e = Set(s)
    OBVIOUS
  <2>2. e.kind = "set" /\ e.status = s /\ e \notin Replies
    BY <2>1, Kinds
  <2>3. QED
    BY <2>1, <2>2 DEF EffectAlone
<1>2. QueuesTyped'
  BY <1>1 DEF QueuesTyped
<1>3. Telling' = Telling
  BY <1>1 DEF Telling
<1>4. QED
  BY <1>1, <1>2, <1>3 DEF Told, LastQueued

(* An effect queues a reply; one that tells a status makes it the last one   *)
(* told.                                                                     *)
LEMMA ReplyStep ==
  ASSUME QueuesTyped, NEW e \in Replies, NEW rest, Current # <<>>, Head(Current) = e, Tail(Current) = rest, EffectAlone
  PROVE  /\ proc' = "run" /\ Current' = rest /\ session' = session /\ member' = member /\ QueuesTyped'
         /\ e \in Telling => Told(e.status)'
         /\ e \notin Telling => KeepsTold
<1>1. /\ proc' = "run" /\ Current' = rest /\ session' = session /\ member' = member
      /\ sendQueue' = Append(sendQueue, e)
      /\ UNCHANGED <<down, batch, clientStatus>>
  BY Kinds DEF EffectAlone
<1>2. sendQueue \in Seq(Replies)
  BY DEF QueuesTyped
<1>3. sendQueue' \in Seq(Replies)
  BY <1>1, <1>2, LastAppend
<1>4. QueuesTyped'
  BY <1>1, <1>3 DEF QueuesTyped
<1>5. Telling' = Telling
  BY <1>1 DEF Telling
<1>6. ASSUME e \in Telling PROVE Told(e.status)'
  <2>1. LastIn(sendQueue', Telling, e)
    BY <1>1, <1>2, <1>6, LastAppend
  <2>2. QED
    BY <1>5, <2>1 DEF Told, LastQueued
<1>7. ASSUME e \notin Telling PROVE KeepsTold
  BY <1>1, <1>7, QueuedKeeps
<1>8. QED
  BY <1>1, <1>4, <1>6, <1>7

(* An effect makes the client a member of the room, and no other change.     *)
LEMMA JoinStep ==
  ASSUME QueuesTyped, NEW rest, Current # <<>>, Head(Current) = Join, Tail(Current) = rest, EffectAlone
  PROVE  proc' = "run" /\ Current' = rest /\ session' = session /\ member' = TRUE /\ QueuesTyped'
<1>1. /\ proc' = "run" /\ Current' = rest /\ session' = session /\ member' = TRUE
      /\ UNCHANGED <<down, sendQueue, batch>>
  BY Kinds DEF EffectAlone
<1>2. QED
  BY <1>1 DEF QueuesTyped

(* An effect ends its membership, and no other change.                       *)
LEMMA LeaveStep ==
  ASSUME QueuesTyped, NEW rest, Current # <<>>, Head(Current) = Leave, Tail(Current) = rest, EffectAlone
  PROVE  proc' = "run" /\ Current' = rest /\ session' = session /\ member' = FALSE /\ QueuesTyped'
<1>1. /\ proc' = "run" /\ Current' = rest /\ session' = session /\ member' = FALSE
      /\ down' = IF member THEN Append(down, "CHATTING") ELSE down
      /\ UNCHANGED <<sendQueue, batch>>
  BY Kinds DEF EffectAlone
<1>2. down' \in Seq(Packets)
  BY <1>1, LastAppend DEF QueuesTyped, Packets, Statuses
<1>3. QED
  BY <1>1, <1>2 DEF QueuesTyped

(* Each effect leads a handler from one stage to the next.                   *)
LEMMA EffectTold ==
  ASSUME ToldInv, ~overlapped, NEW w \in Workers, Effect(w)
  PROVE  ToldInv'
<1>a. /\ proc = "run" /\ DOMAIN handler = Workers /\ Alone /\ QueuesTyped /\ session \in Statuses
      /\ (Between \/ Entering \/ Leaving)
  BY DEF Effect, ToldInv, QueuesTyped
<1>b. EffectAlone /\ Alone' /\ DOMAIN handler' = Workers /\ ~overlapped'
  BY <1>a, EffectIsAlone
<1>1. /\ proc = "run" /\ Current # <<>> /\ QueuesTyped /\ session \in Statuses
      /\ (Between \/ Entering \/ Leaving) /\ EffectAlone
  BY <1>a, <1>b DEF EffectAlone
<1>c. Between' \/ Entering' \/ Leaving' => (QueuesTyped' => ToldInv')
  BY <1>b DEF ToldInv
<1>2. "LOGOUT" \in Statuses /\ "WAITING" \in Statuses /\ "CHATTING" \in Statuses
  BY DEF Statuses
<1>3. CASE Current = <<Me(session)>> /\ Settled
  <2>1. PICK s \in Statuses : s = session
    BY <1>1
  <2>2. Me(s) \in Replies /\ Me(s).status = s /\ Me(s) \in Telling
    BY Kinds
  <2>3. Head(Current) = Me(s) /\ Tail(Current) = <<>>
    BY <1>3, <2>1
  <2>4. Current' = <<>> /\ session' = s /\ member' = member /\ QueuesTyped' /\ Told(Me(s).status)'
    BY <1>1, <2>1, <2>2, <2>3, ReplyStep
  <2>5. Told(session)'
    BY <2>2, <2>4
  <2>6. Settled'
    BY <1>3, <2>1, <2>4 DEF Settled
  <2>7. QED
    BY <1>c, <2>4, <2>5, <2>6 DEF Between
<1>4. CASE Current = <<Room("CHATTING")>> /\ session = "CHATTING" /\ member
  <2>1. Head(Current) = Room("CHATTING") /\ Tail(Current) = <<>>
    BY <1>4
  <2>2. Room("CHATTING") \in Replies /\ Room("CHATTING").status = "CHATTING" /\ Room("CHATTING") \in Telling
    BY <1>4, Kinds
  <2>3. /\ Current' = <<>> /\ session' = "CHATTING" /\ member' = member /\ QueuesTyped'
        /\ Told(Room("CHATTING").status)'
    BY <1>1, <1>4, <2>1, <2>2, ReplyStep
  <2>4. Told(session)' /\ Settled'
    BY <1>4, <2>2, <2>3 DEF Settled
  <2>5. QED
    BY <1>c, <2>3, <2>4 DEF Between
<1>5. CASE Current = <<Room("FILE_SEND")>> /\ session = "CHATTING" /\ member /\ Told(session)
  <2>1. Head(Current) = Room("FILE_SEND") /\ Tail(Current) = <<>>
    BY <1>5
  <2>2. Room("FILE_SEND") \in Replies /\ Room("FILE_SEND") \notin Telling
    BY Kinds
  <2>3. Current' = <<>> /\ session' = "CHATTING" /\ member' = member /\ QueuesTyped' /\ KeepsTold
    BY <1>1, <1>5, <2>1, <2>2, ReplyStep
  <2>4. Told("CHATTING")'
    BY <1>2, <1>5, <2>3 DEF KeepsTold
  <2>5. Told(session)' /\ Settled'
    BY <1>5, <2>3, <2>4 DEF Settled
  <2>6. QED
    BY <1>c, <2>3, <2>5 DEF Between
<1>d. CASE Current = <<Login, Me("WAITING")>> /\ ~member
  <2>1. Head(Current) = Login /\ Tail(Current) = <<Me("WAITING")>>
    BY <1>d
  <2>2. Current' = <<Me("WAITING")>> /\ session' = "WAITING" /\ member' = member /\ QueuesTyped'
    BY <1>1, <2>1, LoginStep
  <2>3. Settled'
    BY <1>d, <2>2 DEF Settled, QueuesTyped
  <2>4. QED
    BY <1>c, <2>2, <2>3 DEF Between
<1>e. CASE Current = <<RecvFile, Room("FILE_SEND")>> /\ session = "CHATTING" /\ member /\ Told(session)
  <2>1. Head(Current) = RecvFile /\ Tail(Current) = <<Room("FILE_SEND")>>
    BY <1>e
  <2>2. /\ Current' = <<Room("FILE_SEND")>> /\ session' = session /\ member' = member /\ QueuesTyped'
        /\ \A t \in Statuses : Told(t) => Told(t)'
    BY <1>1, <2>1, RecvFileStep
  <2>3. Told("CHATTING")'
    BY <1>2, <1>e, <2>2
  <2>4. Told(session)'
    BY <1>e, <2>2, <2>3
  <2>5. QED
    BY <1>c, <1>e, <2>2, <2>4 DEF Between
<1>6. CASE Current = <<Set("LOGOUT"), Me("LOGOUT")>> /\ ~member /\ session # "LOGOUT"
  <2>1. Head(Current) = Set("LOGOUT") /\ Tail(Current) = <<Me("LOGOUT")>>
    BY <1>6
  <2>2. Current' = <<Me("LOGOUT")>> /\ session' = "LOGOUT" /\ member' = member /\ QueuesTyped'
    BY <1>1, <1>2, <1>6, <2>1, SetStep
  <2>3. Settled'
    BY <1>6, <2>2 DEF Settled, QueuesTyped
  <2>4. QED
    BY <1>c, <2>2, <2>3 DEF Between
<1>7. CASE Current = <<Join, Set("CHATTING"), Me("CHATTING")>> /\ session # "LOGOUT"
  <2>1. Head(Current) = Join /\ Tail(Current) = <<Set("CHATTING"), Me("CHATTING")>>
    BY <1>7
  <2>2. Current' = <<Set("CHATTING"), Me("CHATTING")>> /\ session' = session /\ member' = TRUE /\ QueuesTyped'
    BY <1>1, <2>1, JoinStep
  <2>3. QED
    BY <1>c, <1>7, <2>2 DEF Entering
<1>8. CASE Current = <<Set("CHATTING"), Me("CHATTING")>> /\ member /\ session # "LOGOUT"
  <2>1. Head(Current) = Set("CHATTING") /\ Tail(Current) = <<Me("CHATTING")>>
    BY <1>8
  <2>2. Current' = <<Me("CHATTING")>> /\ session' = "CHATTING" /\ member' = member /\ QueuesTyped'
    BY <1>1, <1>2, <1>8, <2>1, SetStep
  <2>3. Settled'
    BY <1>8, <2>2 DEF Settled, QueuesTyped
  <2>4. QED
    BY <1>c, <2>2, <2>3 DEF Between
<1>9. CASE Current = <<Set("CHATTING"), Join, Room("CHATTING")>> /\ session # "LOGOUT"
  <2>1. Head(Current) = Set("CHATTING") /\ Tail(Current) = <<Join, Room("CHATTING")>>
    BY <1>9
  <2>2. Current' = <<Join, Room("CHATTING")>> /\ session' = "CHATTING" /\ QueuesTyped'
    BY <1>1, <1>2, <1>9, <2>1, SetStep
  <2>3. QED
    BY <1>c, <1>9, <2>2 DEF Entering
<1>10. CASE Current = <<Join, Room("CHATTING")>> /\ session = "CHATTING"
  <2>1. Head(Current) = Join /\ Tail(Current) = <<Room("CHATTING")>>
    BY <1>10
  <2>2. Current' = <<Room("CHATTING")>> /\ session' = session /\ member' = TRUE /\ QueuesTyped'
    BY <1>1, <2>1, JoinStep
  <2>3. QED
    BY <1>c, <1>10, <2>2 DEF Between
<1>11. CASE Current = LeaveRoom /\ session # "LOGOUT"
  <2>1. Head(Current) = Leave /\ Tail(Current) = <<Me("WAITING"), Set("WAITING")>>
    BY <1>11 DEF LeaveRoom
  <2>2. Current' = <<Me("WAITING"), Set("WAITING")>> /\ session' = session /\ member' = FALSE /\ QueuesTyped'
    BY <1>1, <2>1, LeaveStep
  <2>3. QED
    BY <1>c, <1>11, <2>2 DEF Leaving
<1>12. CASE Current = <<Leave, Set("WAITING"), Me("LOGOUT"), Set("LOGOUT")>> /\ session # "LOGOUT"
  <2>1. Head(Current) = Leave /\ Tail(Current) = <<Set("WAITING"), Me("LOGOUT"), Set("LOGOUT")>>
    BY <1>12
  <2>2. Current' = <<Set("WAITING"), Me("LOGOUT"), Set("LOGOUT")>> /\ session' = session /\ member' = FALSE /\ QueuesTyped'
    BY <1>1, <2>1, LeaveStep
  <2>3. QED
    BY <1>c, <1>12, <2>2 DEF Leaving
<1>13. CASE Current = <<Set("WAITING"), Me("LOGOUT"), Set("LOGOUT")>> /\ ~member /\ session # "LOGOUT"
  <2>1. Head(Current) = Set("WAITING") /\ Tail(Current) = <<Me("LOGOUT"), Set("LOGOUT")>>
    BY <1>13
  <2>2. Current' = <<Me("LOGOUT"), Set("LOGOUT")>> /\ session' = "WAITING" /\ member' = member /\ QueuesTyped'
    BY <1>1, <1>2, <1>13, <2>1, SetStep
  <2>3. QED
    BY <1>c, <1>13, <2>2 DEF Leaving
<1>14. ASSUME NEW s \in {"WAITING", "LOGOUT"}, Current = <<Me(s), Set(s)>>, ~member, session # "LOGOUT" PROVE ToldInv'
  <2>1. Head(Current) = Me(s) /\ Tail(Current) = <<Set(s)>>
    BY <1>14
  <2>2. Me(s) \in Replies /\ Me(s).status = s /\ Me(s) \in Telling
    BY <1>2, Kinds
  <2>3. Current' = <<Set(s)>> /\ session' = session /\ member' = member /\ QueuesTyped' /\ Told(Me(s).status)'
    BY <1>1, <2>1, <2>2, ReplyStep
  <2>4. Told(s)'
    BY <2>2, <2>3
  <2>5. QED
    BY <1>c, <1>14, <2>3, <2>4 DEF Leaving
<1>15. ASSUME NEW s \in {"WAITING", "LOGOUT"}, Current = <<Set(s)>>, ~member, session # "LOGOUT", Told(s) PROVE ToldInv'
  <2>1. Head(Current) = Set(s) /\ Tail(Current) = <<>>
    BY <1>15
  <2>2. Current' = <<>> /\ session' = s /\ member' = member /\ QueuesTyped' /\ Told(s)'
    BY <1>1, <1>2, <1>15, <2>1, SetStep
  <2>3. Told(session)'
    BY <2>2
  <2>4. Settled'
    BY <1>15, <2>2 DEF Settled, QueuesTyped
  <2>5. QED
    BY <1>c, <2>2, <2>3, <2>4 DEF Between
<1>16. CASE Between
  BY <1>1, <1>3, <1>4, <1>5, <1>e, <1>16 DEF Between
<1>17. CASE Entering
  BY <1>d, <1>7, <1>8, <1>9, <1>10, <1>17 DEF Entering
<1>18. CASE Leaving
  BY <1>6, <1>11, <1>12, <1>13, <1>14, <1>15, <1>18 DEF Leaving
<1>19. QED
  BY <1>1, <1>16, <1>17, <1>18

-----------------------------------------------------------------------------
(* The client's own steps, and the end of the process.                       *)

(* The client's own steps do not touch what the invariant is about.          *)
LEMMA ClientKeeps ==
  ASSUME ToldInv, ~overlapped, UNCHANGED <<clientStatus, server, down>>, proc' = "run" => proc = "run"
  PROVE  ToldInv'
<1>1. /\ UNCHANGED <<clientStatus, session, member, handler, overlapped, sendQueue, batch, down>>
      /\ DOMAIN handler = Workers
  BY DEF server, ToldInv
<1>2. QueuesTyped'
  BY <1>1 DEF ToldInv, QueuesTyped
<1>3. CASE proc' # "run"
  BY <1>1, <1>2, <1>3 DEF ToldInv
<1>4. CASE proc' = "run"
  <2>1. KeepsTold
    BY <1>1, IdleKeeps
  <2>2. QED
    BY <1>1, <1>2, <1>4, <2>1, KeepsToldInv
<1>5. QED
  BY <1>3, <1>4

(* A connection that ends takes the invariant's condition with it.           *)
LEMMA DisconnectTold ==
  ASSUME ToldInv, ~overlapped, Disconnect
  PROVE  ToldInv'
<1>1. proc' # "run" /\ down' = <<>> /\ UNCHANGED <<session, member, handler, sendQueue, batch>>
  BY DEF Disconnect, server
<1>2. QueuesTyped'
  BY <1>1 DEF ToldInv, QueuesTyped
<1>3. QED
  BY <1>1, <1>2 DEF ToldInv

(* overlapped is not taken back.                                             *)
LEMMA OverlapStays ==
  ASSUME DOMAIN handler = Workers, [Next]_vars
  PROVE  DOMAIN handler' = Workers /\ (overlapped => overlapped')
<1>1. CASE UNCHANGED <<handler, overlapped>>
  BY <1>1
<1>2. ASSUME NEW w \in Workers, Effect(w) PROVE DOMAIN handler' = Workers /\ (overlapped => overlapped')
  BY <1>2 DEF Effect
<1>3. ASSUME NEW w \in Workers, NEW effects, Start(w, effects)
      PROVE  DOMAIN handler' = Workers /\ (overlapped => overlapped')
  BY <1>3 DEF Start
<1>4. QED
  BY <1>1, <1>2, <1>3 DEF Next, GetLine, ClientStep, TestStatus, SendMsg, SendNothing, RecvMsg, Disconnect,
     WorkStep, Dispatch, BanUser, OthersBroadcast, OthersSend, SenderStep, TakeQueue, SendOne, vars, server

(* Every step keeps the invariant.                                           *)
LEMMA ToldNext == ToldInv /\ [Next]_vars => ToldInv'
<1> SUFFICES ASSUME ToldInv, [Next]_vars, ~overlapped PROVE ToldInv'
  BY OverlapStays DEF ToldInv
<1>1. QueuesTyped /\ DOMAIN handler = Workers
  BY DEF ToldInv
<1>2. ASSUME NEW l \in Lines, GetLine(l) PROVE ToldInv'
  BY <1>2, ClientKeeps DEF GetLine
<1>3. CASE ClientStep
  <2>1. CASE TestStatus
    BY <2>1, ClientKeeps DEF TestStatus
  <2>2. ASSUME NEW out \in BOOLEAN, SendMsg(out) PROVE ToldInv'
    BY <2>2, ClientKeeps DEF SendMsg
  <2>3. CASE SendNothing
    BY <2>3, ClientKeeps DEF SendNothing
  <2>4. QED
    BY <1>3, <2>1, <2>2, <2>3 DEF ClientStep
<1>4. CASE RecvMsg
  <2>1. proc = "run" /\ UNCHANGED <<session, member, handler, overlapped>>
    BY <1>4 DEF RecvMsg, server
  <2>2. QED
    BY <1>1, <1>4, <2>1, RecvMsgKeeps, KeepsToldInv
<1>5. CASE Disconnect
  BY <1>5, DisconnectTold
<1>6. ASSUME NEW w \in Workers, WorkStep(w) PROVE ToldInv'
  BY <1>6, EffectTold, DispatchTold DEF WorkStep
<1>7. ASSUME NEW w \in Workers, BanUser(w) PROVE ToldInv'
  BY <1>7, BanUserTold
<1>8. CASE OthersBroadcast
  <2>1. /\ proc = "run" /\ member /\ down' = Append(down, "CHATTING")
        /\ UNCHANGED <<session, member, handler, overlapped, sendQueue, batch, clientStatus>>
    BY <1>8 DEF OthersBroadcast, server, client
  <2>2. QED
    BY <1>1, <2>1, DownKeeps, KeepsToldInv
<1>9. ASSUME NEW e \in {Room("CHATTING"), Me("WHISPER")}, OthersSend(e) PROVE ToldInv'
  <2>1. /\ proc = "run" /\ sendQueue' = Append(sendQueue, e)
        /\ UNCHANGED <<session, member, handler, overlapped, down, batch, clientStatus>>
    BY <1>9 DEF OthersSend, client
  <2>2. e \in Replies /\ (e \in Telling => member /\ e.status = "CHATTING")
    BY Kinds
  <2>3. QED
    BY <1>1, <2>1, <2>2, QueuedKeeps, KeepsToldInv
<1>10. CASE TakeQueue
  <2>1. proc = "run" /\ UNCHANGED <<session, member, handler, overlapped>>
    BY <1>10 DEF TakeQueue
  <2>2. QED
    BY <1>1, <1>10, <2>1, TakeQueueKeeps, KeepsToldInv
<1>11. CASE SendOne
  <2>1. proc = "run" /\ UNCHANGED <<session, member, handler, overlapped>>
    BY <1>11 DEF SendOne
  <2>2. QED
    BY <1>1, <1>11, <2>1, SendOneKeeps, KeepsToldInv
<1>12. CASE UNCHANGED vars
  BY <1>12, ClientKeeps DEF vars, client
<1>13. QED
  BY <1>2, <1>3, <1>4, <1>5, <1>6, <1>7, <1>8, <1>9, <1>10, <1>11, <1>12 DEF Next, SenderStep

(* Whatever the user types, in whatever order WorkThreads take the packets,   *)
(* however a handler, a Sendwork and other members' broadcasts interleave,    *)
(* and however many packets are under way: when nothing is queued for the     *)
(* client, the last status on its way, or the one it has, is that of its      *)
(* session, until two handlers of the connection have run at once.            *)
THEOREM ClientInStep == Spec => []InStep
<1>1. Init => ToldInv
  BY ToldInit
<1>2. ToldInv /\ [Next]_vars => ToldInv'
  BY ToldNext
<1>3. ToldInv => InStep
  BY ToldSuffices
<1>4. QED
  BY <1>1, <1>2, <1>3, PTL DEF Spec
=============================================================================
