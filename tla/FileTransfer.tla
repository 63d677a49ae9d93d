---------------------------- MODULE FileTransfer ----------------------------
(***************************************************************************)
(* Sending a file to a chat room (\send).  The client announces the file    *)
(* with FILE_SEND on its connection and sends it in UDP datagrams: the      *)
(* name, the chunks, an empty datagram (Client/Client.cpp, FileSend).  The  *)
(* WorkThread that gets the FILE_SEND job reads the server's only UDP       *)
(* socket until an empty datagram comes (FileService::RecvFile) and queues  *)
(* the stored file.  Sendwork opens it and sends it to every member of the  *)
(* room in turn (FileService::SendToRoomFile), whose RecvFileThread stores  *)
(* it again.  One room; listCs lets one thread at a time send to it.        *)
(*                                                                          *)
(* recvfrom takes whatever datagram is next, whoever sent it.  A datagram   *)
(* to the server is its sender and its part: 0 is the name, Size[c] + 1 the *)
(* empty one.  A datagram to a member is Title, what fread returned, or     *)
(* End.  In both directions datagrams can be lost or overtaken.             *)
(***************************************************************************)
EXTENDS Integers, Sequences, FiniteSets

CONSTANTS
  Clients,    \* the members of the room
  Workers,    \* the WorkThreads
  FileName,   \* the name of the file each client sends
  Garbled,    \* a name read from a datagram that holds no name
  None,
  Size,       \* how many chunks of FILE_BUF_SIZE bytes each client's file has
  MaxFaults   \* bound: datagrams the network loses or delivers early

ASSUME FileAssumption ==
  /\ Size \in [Clients -> Nat \ {0}] /\ MaxFaults \in Nat
  /\ None \notin Clients /\ None \notin {FileName[c] : c \in Clients} \cup {Garbled}

EndPart(c) == Size[c] + 1
Names == {FileName[c] : c \in Clients} \cup {Garbled}
Chunk == UNION {{c} \X (1 .. Size[c]) : c \in Clients}
Gap == <<None, 0>>
Content == Chunk \cup {Gap}
Title == <<None, 1>>
End == <<>>
File(c) == [i \in 1 .. Size[c] |-> <<c, i>>]

VARIABLES
  process,    \* "up" or "crashed"
  parts,      \* how many messages of its file each client has sent
  jobs,       \* clients whose FILE_SEND is in jobQueue
  net,        \* datagrams on their way to, or waiting in, udpSocket
  disk,       \* the server's Downloads folder
  pc,         \* RecvFile of each WorkThread: "idle", "name", "data", "queue"
  loc,        \* its announced client, its file and its position in it
  sendQueue,  \* the SEND_FILE entries
  members,    \* userList of the room
  live,       \* liveSocket
  srv,        \* SendToRoomFile: file, position, members left, current, served
  out,        \* datagrams on their way to each client's udpRecvSocket
  download,   \* RecvFileThread of each client: what it waits for, what it stored
  missed,     \* history: the clients that have not got all datagrams in order
  faults,     \* how many datagrams have been lost or delivered early
  disturbed   \* history: transfers to the server overlapped, a sender left, or
              \* a datagram to the server was lost or delivered early

recvVars == <<parts, jobs, net, disk, pc, loc>>
roomVars == <<members, live>>
clientVars == <<out, download, missed>>
vars == <<process, recvVars, sendQueue, roomVars, srv, clientVars, faults, disturbed>>

NoLoc == [client |-> None, file |-> None, pos |-> 0]
NoSrv == [file |-> None, pos |-> 0, left |-> {}, now |-> None, served |-> {}]
NoDownload == [waits |-> "name", data |-> <<>>]

TypeOK ==
  /\ process \in {"up", "crashed"}
  /\ \A c \in Clients : parts[c] \in 0 .. Size[c] + 3
  /\ jobs \subseteq Clients
  /\ net \in Seq(UNION {{c} \X (0 .. EndPart(c)) : c \in Clients})
  /\ disk \in [Names -> Seq(Content)]
  /\ pc \in [Workers -> {"idle", "name", "data", "queue"}]
  /\ loc \in [Workers -> [client : Clients \cup {None}, file : Names \cup {None}, pos : Nat]]
  /\ sendQueue \in Seq(Names)
  /\ members \subseteq Clients /\ live \subseteq Clients
  /\ srv \in [file : Names \cup {None}, pos : Nat, left : SUBSET Clients,
              now : Clients \cup {None}, served : SUBSET Clients]
  /\ out \in [Clients -> Seq(Content \cup {Title, End})]
  /\ download \in [Clients -> [waits : {"name", "data", "dead"}, data : Seq(Content \cup {Title})]]
  /\ missed \subseteq Clients
  /\ faults \in 0 .. MaxFaults
  /\ disturbed \in BOOLEAN

Init ==
  /\ process = "up"
  /\ parts = [c \in Clients |-> 0]
  /\ jobs = {}
  /\ net = <<>>
  /\ disk = [n \in Names |-> <<>>]
  /\ pc = [w \in Workers |-> "idle"]
  /\ loc = [w \in Workers |-> NoLoc]
  /\ sendQueue = <<>>
  /\ members = Clients
  /\ live = Clients
  /\ srv = NoSrv
  /\ out = [m \in Clients |-> <<>>]
  /\ download = [m \in Clients |-> NoDownload]
  /\ missed = {}
  /\ faults = 0
  /\ disturbed = FALSE

-----------------------------------------------------------------------------
(* The client: SendMsg(FILE_SEND), then FileSend.                            *)

Quiet ==
  /\ jobs = {} /\ net = <<>> /\ sendQueue = <<>> /\ srv = NoSrv
  /\ \A w \in Workers : pc[w] = "idle"
  /\ \A c \in Clients : parts[c] \in {0, Size[c] + 3}

Announce(c) ==
  /\ process = "up" /\ c \in live /\ parts[c] = 0
  /\ disturbed' = (disturbed \/ ~Quiet)
  /\ parts' = [parts EXCEPT ![c] = 1]
  /\ jobs' = jobs \cup {c}
  /\ UNCHANGED <<process, net, disk, pc, loc, sendQueue, roomVars, srv, clientVars, faults>>

(* Mutant: the loop ends before the empty datagram is sent.                 *)
FileSendNoEnd(c) ==
  /\ process = "up" /\ parts[c] \in 1 .. Size[c] + 2
  /\ net' = IF parts[c] - 1 = EndPart(c) THEN net ELSE Append(net, <<c, parts[c] - 1>>)
  /\ parts' = [parts EXCEPT ![c] = @ + 1]
  /\ UNCHANGED <<process, jobs, disk, pc, loc, sendQueue, roomVars, srv, clientVars, faults, disturbed>>

FileSend(c) ==
  /\ process = "up" /\ parts[c] \in 1 .. Size[c] + 2
  /\ net' = Append(net, <<c, parts[c] - 1>>)
  /\ parts' = [parts EXCEPT ![c] = @ + 1]
  /\ UNCHANGED <<process, jobs, disk, pc, loc, sendQueue, roomVars, srv, clientVars, faults, disturbed>>

WithoutNth(q, i) == SubSeq(q, 1, i - 1) \o SubSeq(q, i + 1, Len(q))
Without(i) == WithoutNth(net, i)

Lose(i) ==
  /\ process = "up" /\ faults < MaxFaults
  /\ faults' = faults + 1
  /\ disturbed' = TRUE
  /\ net' = Without(i)
  /\ UNCHANGED <<process, parts, jobs, disk, pc, loc, sendQueue, roomVars, srv, clientVars>>

-----------------------------------------------------------------------------
(* The WorkThread: StatusChat's FILE_SEND branch and RecvFile.               *)

RecvFile(w, c) ==
  /\ process = "up" /\ pc[w] = "idle" /\ c \in jobs
  /\ jobs' = jobs \ {c}
  /\ \/ /\ pc' = [pc EXCEPT ![w] = "name"]
        /\ loc' = [loc EXCEPT ![w] = [NoLoc EXCEPT !.client = c]]
        /\ UNCHANGED disturbed
     \/ /\ disturbed' = TRUE  \* the session is not CHATTING any more
        /\ UNCHANGED <<pc, loc>>
  /\ UNCHANGED <<process, parts, net, disk, sendQueue, roomVars, srv, clientVars, faults>>

(* recvfrom returns the i-th datagram that was sent; UDP may reorder them.   *)
Datagram(i) ==
  \/ i = 1 /\ UNCHANGED <<faults, disturbed>>
  \/ i > 1 /\ faults < MaxFaults /\ faults' = faults + 1 /\ disturbed' = TRUE

(* fopen(..., "wb") makes the file empty.                                    *)
Open(n) == [disk EXCEPT ![n] = <<>>]

RecvName(w, i) ==
  /\ process = "up" /\ pc[w] = "name" /\ Datagram(i)
  /\ LET d == net[i]
         n == IF d[2] = 0 THEN FileName[d[1]] ELSE Garbled
     IN  /\ d[2] # EndPart(d[1])
         /\ disk' = Open(n)
         /\ loc' = [loc EXCEPT ![w].file = n]
  /\ net' = Without(i)
  /\ pc' = [pc EXCEPT ![w] = "data"]
  /\ UNCHANGED <<process, parts, jobs, sendQueue, roomVars, srv, clientVars>>

(* An empty datagram gives no name, fopen of the folder fails and the null   *)
(* pointer is used.  A chunk of more than BUF_SIZE bytes makes recvfrom      *)
(* return -1, which is used as an index.                                     *)
RecvNoName(w, i) ==
  /\ process = "up" /\ pc[w] = "name" /\ Datagram(i)
  /\ net[i][2] # 0
  /\ process' = "crashed"
  /\ UNCHANGED <<recvVars, sendQueue, roomVars, srv, clientVars>>

(* Mutant: the file is opened again for every chunk.                         *)
WrittenAnew(f, k, x) == <<x>>

(* fwrite at the position of this thread's FILE.                             *)
Written(f, k, x) ==
  [i \in 1 .. (IF k > Len(f) THEN k ELSE Len(f)) |->
     IF i = k THEN x ELSE IF i <= Len(f) THEN f[i] ELSE Gap]

(* A name that arrives in the middle of a file is written into it.           *)
RecvData(w, i) ==
  /\ process = "up" /\ pc[w] = "data" /\ Datagram(i)
  /\ net' = Without(i)
  /\ LET d == net[i]
         x == IF d[2] = 0 THEN Gap ELSE d
     IN  \/ /\ d[2] = EndPart(d[1])
            /\ pc' = [pc EXCEPT ![w] = "queue"]
            /\ UNCHANGED <<disk, loc>>
         \/ /\ d[2] # EndPart(d[1])
            /\ disk' = [disk EXCEPT ![loc[w].file] = Written(@, loc[w].pos + 1, x)]
            /\ loc' = [loc EXCEPT ![w].pos = @ + 1]
            /\ UNCHANGED pc
  /\ UNCHANGED <<process, parts, jobs, sendQueue, roomVars, srv, clientVars>>

(* InsertSendQueue(SEND_FILE).                                               *)
QueueFile(w) ==
  /\ process = "up" /\ pc[w] = "queue"
  /\ sendQueue' = Append(sendQueue, loc[w].file)
  /\ pc' = [pc EXCEPT ![w] = "idle"]
  /\ loc' = [loc EXCEPT ![w] = NoLoc]
  /\ UNCHANGED <<process, parts, jobs, net, disk, roomVars, srv, clientVars, faults, disturbed>>

(* The room's name is read from userMap.find(sock), whose entry may have     *)
(* gone with the connection while RecvFile waited.                           *)
QueueNowhere(w) ==
  /\ process = "up" /\ pc[w] = "queue" /\ loc[w].client \notin live
  /\ process' = "crashed"
  /\ UNCHANGED <<recvVars, sendQueue, roomVars, srv, clientVars, faults, disturbed>>

-----------------------------------------------------------------------------
(* Sendwork's SEND_FILE case and SendToRoomFile, under the room's listCs.    *)

OpenFile ==
  /\ process = "up" /\ srv = NoSrv /\ sendQueue # <<>>
  /\ sendQueue' = Tail(sendQueue)
  /\ srv' = IF members = {} THEN NoSrv
            ELSE [NoSrv EXCEPT !.file = Head(sendQueue), !.left = members]
  /\ UNCHANGED <<process, recvVars, roomVars, clientVars, faults, disturbed>>

(* sendto member m.                                                          *)
SendTo(m, d) == out' = [out EXCEPT ![m] = Append(@, d)] /\ UNCHANGED <<download, missed>>

(* The next member: its address, then the name.                              *)
SendName(m) ==
  /\ process = "up" /\ srv.now = None /\ m \in srv.left
  /\ m \in live
  /\ srv' = [srv EXCEPT !.left = @ \ {m}, !.now = m]
  /\ SendTo(m, Title)
  /\ UNCHANGED <<process, recvVars, sendQueue, roomVars, faults, disturbed>>

(* connect to the member's address fails: it is passed over.                 *)
SkipMember(m) ==
  /\ process = "up" /\ srv.now = None /\ m \in srv.left
  /\ m \in live
  /\ srv' = [srv EXCEPT !.left = @ \ {m}]
  /\ UNCHANGED <<process, recvVars, sendQueue, roomVars, clientVars, faults, disturbed>>

(* liveSocket.find(socket)->second of a member that is not connected.        *)
SendNowhere(m) ==
  /\ process = "up" /\ srv.now = None /\ m \in srv.left
  /\ m \notin live
  /\ process' = "crashed"
  /\ UNCHANGED <<recvVars, sendQueue, roomVars, srv, clientVars, faults, disturbed>>

(* Mutant: the loop ends before the empty datagram is sent.                  *)
SendDataNoEnd ==
  /\ process = "up" /\ srv.now # None
  /\ LET f == disk[srv.file]
     IN  \/ /\ srv.pos < Len(f)
            /\ srv' = [srv EXCEPT !.pos = @ + 1]
            /\ SendTo(srv.now, f[srv.pos + 1])
         \/ /\ srv.pos >= Len(f)
            /\ srv' = [srv EXCEPT !.now = None, !.served = @ \cup {srv.now}]
            /\ UNCHANGED clientVars
  /\ UNCHANGED <<process, recvVars, sendQueue, roomVars, faults, disturbed>>

(* fread goes on where the last one ended, also for the next member; at the  *)
(* end of the file an empty datagram ends the member's download.             *)
SendData ==
  /\ process = "up" /\ srv.now # None
  /\ LET f == disk[srv.file]
     IN  \/ /\ srv.pos < Len(f)
            /\ srv' = [srv EXCEPT !.pos = @ + 1]
            /\ SendTo(srv.now, f[srv.pos + 1])
         \/ /\ srv.pos >= Len(f)
            /\ srv' = [srv EXCEPT !.now = None, !.served = @ \cup {srv.now}]
            /\ SendTo(srv.now, End)
  /\ UNCHANGED <<process, recvVars, sendQueue, roomVars, faults, disturbed>>

AllServed == srv # NoSrv /\ srv.left = {} /\ srv.now = None

CloseFile ==
  /\ process = "up" /\ AllServed
  /\ srv' = NoSrv
  /\ UNCHANGED <<process, recvVars, sendQueue, roomVars, clientVars, faults, disturbed>>

-----------------------------------------------------------------------------
(* The member: RecvFileThread, and the network on the way to it.             *)

(* Waiting for a name, recvfrom may get a chunk: it names a file, or is too  *)
(* long for fileName, and -1 is used as an index.  An empty datagram names   *)
(* the folder; fopen fails and the null pointer is used.                     *)
NextDownload(f, d) ==
  CASE f.waits = "name" /\ d = Title -> {[f EXCEPT !.waits = "data", !.data = <<>>]}
    [] f.waits = "name" /\ d \in Content ->
         {[f EXCEPT !.waits = "data", !.data = <<>>], [f EXCEPT !.waits = "dead"]}
    [] f.waits = "name" /\ d = End -> {[f EXCEPT !.waits = "dead"]}
    [] f.waits = "data" /\ d = End -> {[f EXCEPT !.waits = "name"]}
    [] f.waits = "data" /\ d # End -> {[f EXCEPT !.data = Append(@, d)]}
    [] f.waits = "dead" -> {}

RecvFileThread(m, i) ==
  /\ \E f \in NextDownload(download[m], out[m][i]) : download' = [download EXCEPT ![m] = f]
  /\ out' = [out EXCEPT ![m] = WithoutNth(@, i)]
  /\ \/ i = 1 /\ UNCHANGED <<faults, missed>>
     \/ i > 1 /\ faults < MaxFaults /\ faults' = faults + 1 /\ missed' = missed \cup {m}
  /\ UNCHANGED <<process, recvVars, sendQueue, roomVars, srv, disturbed>>

LoseOut(m, i) ==
  /\ faults < MaxFaults
  /\ faults' = faults + 1
  /\ missed' = missed \cup {m}
  /\ out' = [out EXCEPT ![m] = WithoutNth(@, i)]
  /\ UNCHANGED <<process, recvVars, sendQueue, roomVars, srv, download, disturbed>>

-----------------------------------------------------------------------------
(* ClientExit of a member: out of liveSocket, later, under listCs, out of    *)
(* the room.                                                                 *)

Sending(c) ==
  parts[c] \notin {0, Size[c] + 3} \/ c \in jobs \/ \E w \in Workers : loc[w].client = c

Disconnect(c) ==
  /\ process = "up" /\ c \in live
  /\ disturbed' = (disturbed \/ Sending(c))
  /\ live' = live \ {c}
  /\ UNCHANGED <<process, recvVars, sendQueue, members, srv, clientVars, faults>>

LeaveList(c) ==
  /\ process = "up" /\ c \in members \ live
  /\ srv = NoSrv
  /\ members' = members \ {c}
  /\ UNCHANGED <<process, recvVars, sendQueue, live, srv, clientVars, faults, disturbed>>

-----------------------------------------------------------------------------
RecvStep(w) == \E i \in DOMAIN net : RecvName(w, i) \/ RecvNoName(w, i) \/ RecvData(w, i)
Serve == (\E m \in Clients : SendName(m) \/ SkipMember(m) \/ SendNowhere(m)) \/ SendData \/ CloseFile
Member(m) == \E i \in DOMAIN out[m] : RecvFileThread(m, i) \/ LoseOut(m, i)

Next ==
  \/ \E c \in Clients : Announce(c) \/ FileSend(c) \/ Disconnect(c) \/ LeaveList(c)
  \/ \E i \in DOMAIN net : Lose(i)
  \/ \E w \in Workers : (\E c \in Clients : RecvFile(w, c)) \/ RecvStep(w)
                        \/ QueueFile(w) \/ QueueNowhere(w)
  \/ OpenFile
  \/ Serve
  \/ \E m \in Clients : Member(m)

Spec == Init /\ [][Next]_vars

-----------------------------------------------------------------------------
(* Properties.                                                               *)

(* What RecvFile has stored when it returns is the file its client sent, as  *)
(* long as one transfer goes on at a time and no datagram is lost.           *)
StoredAsSent ==
  disturbed \/ \A w \in Workers : pc[w] = "queue" =>
    /\ loc[w].file = FileName[loc[w].client]
    /\ disk[loc[w].file] = File(loc[w].client)

(* A member that has got every datagram in order is never out of step with   *)
(* SendToRoomFile, whatever the transfers to the server did to the stored    *)
(* file: it never takes a name for a chunk or a chunk for a name, and when   *)
(* it waits for chunks with none on their way, the server is sending to it.  *)
ClientsInStep ==
  \A m \in Clients \ missed :
    /\ download[m].waits # "dead"
    /\ \A i \in DOMAIN download[m].data : download[m].data[i] # Title
    /\ download[m].waits = "data" /\ out[m] = <<>> => srv.now = m

(* What SendToRoomFile reports: when it says that all is delivered, every    *)
(* member that was sent the file and has got all the datagrams has the file. *)
(* The code reads the file once and does not rewind it, so only the first    *)
(* member gets more than the name.                                           *)
EveryMemberHasFile ==
  AllServed /\ ~disturbed =>
    \A m \in srv.served \ missed : out[m] = <<>> => download[m].data = disk[srv.file]

(* RecvFile does not wait for datagrams that never come: while it waits,     *)
(* the client it serves has more to send or something is in udpSocket.  Only *)
(* another transfer or the network takes the end of a file from it.          *)
RecvFileIsFed ==
  disturbed \/ \A w \in Workers : pc[w] \in {"name", "data"} =>
    net # <<>> \/ parts[loc[w].client] < Size[loc[w].client] + 3
=============================================================================
