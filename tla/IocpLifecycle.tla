--------------------------- MODULE IocpLifecycle ---------------------------
(***************************************************************************)
(* The life of a connection and of its overlapped operations: main accepts  *)
(* and posts the first receive, the functions of IocpService post receives  *)
(* and sends, RecvThread takes the completions, gives the blocks back and   *)
(* closes the connection (ClientExit) when one reports its end.             *)
(*                                                                          *)
(* Every operation holds a PER_IO_DATA block of MPool and, if it sends or   *)
(* continues a packet, a buffer of CharPool; the pools are used through     *)
(* Malloc and Free as atomic steps (Allocator).  Nothing tests the result   *)
(* of WSASend or WSARecv: a refused call has no completion, and its blocks  *)
(* stay taken.  The completion key is the socket handle, which the          *)
(* operating system gives out again once it is closed; conn counts the      *)
(* connections, so that the model can tell whom an operation was meant for. *)
(***************************************************************************)
EXTENDS Integers, FiniteSets

CONSTANTS
  Handles,    \* socket handles
  Receivers,  \* the RecvThreads
  Senders,    \* threads that send: SendThread, Sendwork, handlers that broadcast
  MaxConns,   \* bound: connections that are accepted
  MaxData,    \* bound: receives with data, of each connection
  MaxReplies  \* bound: replies, apart from the greetings

ASSUME LifecycleAssumption ==
  /\ MaxConns \in Nat /\ MaxData \in [1 .. MaxConns -> Nat] /\ MaxReplies \in Nat
  /\ Receivers \cap Senders = {} /\ "main" \notin Receivers \cup Senders

Threads == Receivers \cup Senders \cup {"main"}
Conns == 1 .. MaxConns
None == 0    \* no connection, no block

VARIABLES
  conn,      \* the connection each open handle stands for, None if closed
  accepted,  \* how many connections have been accepted
  gone,      \* connections whose client hung up or which broke
  pending,   \* operations the kernel has
  ioUsed,    \* blocks MPool has handed out
  charUsed,  \* buffers CharPool has handed out
  pc,        \* the next step of each thread
  loc,       \* what each thread works on: the operation it took, or a handle
  lost,      \* history: blocks and buffers no operation refers to any more
  deaf,      \* history: connections for which a receive was refused
  recycled,  \* history: connections whose handle came back too early
  data,      \* how many receives of each connection brought data
  replies    \* how many replies there have been

pools == <<ioUsed, charUsed>>
sockets == <<conn, accepted, gone>>
history == <<lost, deaf, recycled>>
counts == <<data, replies>>
vars == <<sockets, pending, pools, pc, loc, history, counts>>

Blocks == Nat \ {0}
Modes == {"RECV", "RECV_MORE", "SEND"}
NoLoc == [mode |-> "none", h |-> None, c |-> None, io |-> None, chr |-> None]
Local == [mode : Modes \cup {"none"}, h : Handles \cup {None}, c : Conns \cup {None},
          io : Blocks \cup {None}, chr : Blocks \cup {None}]
Operation == [mode : Modes, h : Handles, c : Conns, io : Blocks, chr : Blocks \cup {None}]

TypeOK ==
  /\ conn \in [Handles -> Conns \cup {None}]
  /\ accepted \in 0 .. MaxConns
  /\ gone \subseteq Conns
  /\ pending \subseteq Operation
  /\ ioUsed \subseteq Blocks /\ charUsed \subseteq Blocks
  /\ pc \in [Threads -> {"idle", "recv", "send", "exit", "read"}]
  /\ \A t \in Threads : loc[t] \in Local /\ (pc[t] = "idle" <=> loc[t] = NoLoc)
  /\ lost \subseteq {"io", "chr"} \X Blocks
  /\ deaf \subseteq Conns /\ recycled \subseteq Conns
  /\ \A c \in Conns : data[c] \in 0 .. MaxData[c]
  /\ replies \in 0 .. MaxReplies

Init ==
  /\ conn = [h \in Handles |-> None]
  /\ accepted = 0
  /\ gone = {}
  /\ pending = {}
  /\ ioUsed = {} /\ charUsed = {}
  /\ pc = [t \in Threads |-> "idle"]
  /\ loc = [t \in Threads |-> NoLoc]
  /\ lost = {} /\ deaf = {} /\ recycled = {}
  /\ data = [c \in Conns |-> 0] /\ replies = 0

Goto(t, label, x) ==
  /\ pc' = [pc EXCEPT ![t] = label]
  /\ loc' = [loc EXCEPT ![t] = x]

Done(t) == Goto(t, "idle", NoLoc)

(* A free block; which one does not matter.                                  *)
Malloc(used) == CHOOSE b \in 1 .. Cardinality(used) + 1 : b \notin used

-----------------------------------------------------------------------------
(* IocpService.                                                              *)

(* The call is accepted if the handle is open; that a broken connection is   *)
(* noticed at once is possible, not certain.                                 *)
Accepted(h) == conn[h] # None
MayRefuse(h) == conn[h] = None \/ conn[h] \in gone

Lose(io, chr) == {<<"io", io>>} \cup (IF chr = None THEN {} ELSE {<<"chr", chr>>})

(* WSARecv or WSASend on a handle that stood for connection c when the       *)
(* thread learned it.                                                        *)
Post(mode, h, c, io, chr) ==
  /\ Accepted(h)
  /\ pending' = pending \cup {[mode |-> mode, h |-> h, c |-> conn[h], io |-> io, chr |-> chr]}
  /\ UNCHANGED <<lost, deaf>>
Refuse(mode, h, c, io, chr) ==
  /\ MayRefuse(h)
  /\ lost' = lost \cup Lose(io, chr)
  /\ deaf' = IF mode = "SEND" THEN deaf ELSE deaf \cup {c}
  /\ UNCHANGED pending
Call(mode, h, c, io, chr) == Post(mode, h, c, io, chr) \/ Refuse(mode, h, c, io, chr)

(* Recv takes a new block (used are the blocks that are taken).              *)
Recv(h, c, used) ==
  LET io == Malloc(used)
  IN  /\ ioUsed' = used \cup {io}
      /\ Call("RECV", h, c, io, None)

(* SendToOneMsg, and SendToRoomMsg for each member: a block and a buffer.    *)
SendMsg(h, c) ==
  LET io == Malloc(ioUsed)
      chr == Malloc(charUsed)
  IN  /\ ioUsed' = ioUsed \cup {io}
      /\ charUsed' = charUsed \cup {chr}
      /\ Call("SEND", h, c, io, chr)

(* RecvMore posts the block again.                                           *)
RecvMore(h, c, io, chr) ==
  /\ UNCHANGED ioUsed
  /\ Call("RECV_MORE", h, c, io, chr)

-----------------------------------------------------------------------------
(* main: accept and InsertLiveSocket, CreateIoCompletionPort with Recv, and  *)
(* the greeting.                                                             *)

(* Somebody still has the handle of an earlier connection in his hands.      *)
InUse(h) ==
  \/ \E op \in pending : op.h = h
  \/ \E t \in Threads : loc[t].h = h

Accept(h) ==
  /\ pc["main"] = "idle" /\ conn[h] = None /\ accepted < MaxConns
  /\ accepted' = accepted + 1
  /\ conn' = [conn EXCEPT ![h] = accepted + 1]
  /\ recycled' = IF InUse(h) THEN recycled \cup {accepted + 1} ELSE recycled
  /\ Goto("main", "recv", [NoLoc EXCEPT !.h = h, !.c = accepted + 1])
  /\ UNCHANGED <<gone, pending, pools, lost, deaf, counts>>

(* Mutant: no receive is posted for a new connection.                        *)
FirstRecvForgotten ==
  /\ pc["main"] = "recv"
  /\ Goto("main", "send", loc["main"])
  /\ UNCHANGED <<sockets, pending, pools, history, counts>>

FirstRecv ==
  /\ pc["main"] = "recv"
  /\ Recv(loc["main"].h, loc["main"].c, ioUsed)
  /\ Goto("main", "send", loc["main"])
  /\ UNCHANGED <<sockets, charUsed, recycled, counts>>

-----------------------------------------------------------------------------
(* Replies.  The sender learns the handle while the connection is open       *)
(* (IsSocketDead, a room's list) and sends later, as main sends the greeting.*)

Reply(t, h) ==
  /\ pc[t] = "idle" /\ conn[h] # None /\ replies < MaxReplies
  /\ replies' = replies + 1
  /\ Goto(t, "send", [NoLoc EXCEPT !.h = h, !.c = conn[h]])
  /\ UNCHANGED <<sockets, pending, pools, history, data>>

Send(t) ==
  /\ pc[t] = "send"
  /\ SendMsg(loc[t].h, loc[t].c)
  /\ Done(t)
  /\ UNCHANGED <<sockets, recycled, counts>>

(* A client hangs up or its connection breaks.                               *)
HangUp(c) ==
  /\ c \in 1 .. accepted /\ c \notin gone
  /\ gone' = gone \cup {c}
  /\ UNCHANGED <<conn, accepted, pending, pools, pc, loc, history, counts>>

-----------------------------------------------------------------------------
(* RecvThread.  GetQueuedCompletionStatus gives a finished operation: with   *)
(* success and data, or as the end of the connection (failed, or a receive   *)
(* of no bytes).  An operation of a connection that is closed or whose       *)
(* client is gone fails, unless it was finished before.                      *)

Taken(op) == [mode |-> op.mode, h |-> op.h, c |-> op.c, io |-> op.io, chr |-> op.chr]

CompletionFailed(t, op) ==
  /\ pc[t] = "idle" /\ op \in pending
  /\ conn[op.h] # op.c \/ op.c \in gone
  /\ pending' = pending \ {op}
  /\ Goto(t, "exit", Taken(op))
  /\ UNCHANGED <<sockets, pools, history, counts>>

CompletionOfRecv(t, op) ==
  /\ pc[t] = "idle" /\ op \in pending
  /\ op.mode # "SEND" /\ data[op.c] < MaxData[op.c]
  /\ data' = [data EXCEPT ![op.c] = @ + 1]
  /\ pending' = pending \ {op}
  /\ Goto(t, "read", Taken(op))
  /\ UNCHANGED <<sockets, pools, history, replies>>

(* Mutant: only the PER_IO_DATA block of a finished send is given back.      *)
CompletionOfSendKeepsBuffer(t, op) ==
  /\ pc[t] = "idle" /\ op \in pending
  /\ op.mode = "SEND"
  /\ pending' = pending \ {op}
  /\ ioUsed' = ioUsed \ {op.io}
  /\ UNCHANGED <<sockets, charUsed, pc, loc, history, counts>>

(* A finished send gives both back.                                          *)
CompletionOfSend(t, op) ==
  /\ pc[t] = "idle" /\ op \in pending
  /\ op.mode = "SEND"
  /\ pending' = pending \ {op}
  /\ charUsed' = charUsed \ {op.chr}
  /\ ioUsed' = ioUsed \ {op.io}
  /\ UNCHANGED <<sockets, pc, loc, history, counts>>

(* ClientExit closes whatever connection the handle stands for now (of a     *)
(* handle that is closed closesocket fails; the rest of ClientExit is part   *)
(* of BusinessService).  Then only the PER_IO_DATA block goes back: the      *)
(* buffer of a send, or of a packet that was begun, is lost.                 *)
ClientExit(t) ==
  /\ pc[t] = "exit"
  /\ conn' = [conn EXCEPT ![loc[t].h] = None]
  /\ ioUsed' = ioUsed \ {loc[t].io}
  /\ lost' = lost \cup (Lose(loc[t].io, loc[t].chr) \ {<<"io", loc[t].io>>})
  /\ Done(t)
  /\ UNCHANGED <<accepted, gone, pending, charUsed, deaf, recycled, counts>>

(* PacketReading takes a buffer for the packet it reads, DataCopy gives the  *)
(* buffer of a whole packet back.  If the bytes end with a packet the block  *)
(* goes back too and Recv is called once the jobs have been pushed.          *)
ReadWhole(t) ==
  /\ pc[t] = "read"
  /\ charUsed' = charUsed \ {loc[t].chr}
  /\ Recv(loc[t].h, loc[t].c, ioUsed \ {loc[t].io})
  /\ Done(t)
  /\ UNCHANGED <<sockets, recycled, counts>>

(* Mutant: Recv is called after RecvMore as well (recvMore is not tested).   *)
ReadPartThenRecv(t, begun) ==
  /\ pc[t] = "read"
  /\ LET others == charUsed \ {loc[t].chr}
         chr == IF begun THEN Malloc(others) ELSE None
     IN  /\ charUsed' = others \cup ({chr} \ {None})
         /\ RecvMore(loc[t].h, loc[t].c, loc[t].io, chr)
  /\ Goto(t, "recv", [loc[t] EXCEPT !.io = None, !.chr = None])
  /\ UNCHANGED <<sockets, recycled, counts>>

(* Mutant: a receive that ends inside a packet is taken for the end of the   *)
(* connection.                                                               *)
ReadPartExits(t, begun) ==
  /\ pc[t] = "read"
  /\ Goto(t, "exit", loc[t])
  /\ UNCHANGED <<sockets, pending, pools, history, counts>>

(* Otherwise RecvMore posts the block again, with the buffer of the packet   *)
(* that was begun (none if only one byte of it is there).                    *)
ReadPart(t, begun) ==
  /\ pc[t] = "read"
  /\ LET others == charUsed \ {loc[t].chr}
         chr == IF begun THEN Malloc(others) ELSE None
     IN  /\ charUsed' = others \cup ({chr} \ {None})
         /\ RecvMore(loc[t].h, loc[t].c, loc[t].io, chr)
  /\ Done(t)
  /\ UNCHANGED <<sockets, recycled, counts>>

-----------------------------------------------------------------------------
MainStep == FirstRecv \/ Send("main")
RecvStep(t) == ClientExit(t) \/ ReadWhole(t) \/ \E begun \in BOOLEAN : ReadPart(t, begun)

Next ==
  \/ \E h \in Handles : Accept(h) \/ \E t \in Senders : Reply(t, h)
  \/ MainStep
  \/ \E t \in Senders : Send(t)
  \/ \E c \in Conns : HangUp(c)
  \/ \E t \in Receivers, op \in pending :
       CompletionFailed(t, op) \/ CompletionOfRecv(t, op) \/ CompletionOfSend(t, op)
  \/ \E t \in Receivers : RecvStep(t)

Spec == Init /\ [][Next]_vars

(* Threads are scheduled, and the kernel reports operations that failed.     *)
(* Nothing is assumed of clients.                                            *)
Fairness ==
  /\ WF_vars(MainStep)
  /\ \A t \in Receivers :
       WF_vars(RecvStep(t) \/ \E op \in pending : CompletionFailed(t, op))
FairSpec == Spec /\ Fairness

-----------------------------------------------------------------------------
(* Properties.                                                               *)

(* Who refers to blocks: the operations of the kernel and the threads.       *)
Referrers == pending \cup {loc[t] : t \in Threads}
RefersTo(used, Of(_), kind) ==
  /\ \A b \in used :
       \/ <<kind, b>> \in lost
       \/ \E x \in Referrers : Of(x) = b
  /\ \A x \in Referrers : Of(x) # None => Of(x) \in used /\ <<kind, Of(x)>> \notin lost
  /\ \A x, y \in pending : (x # y /\ Of(x) = Of(y)) => Of(x) = None
  /\ \A x \in pending, t \in Threads : Of(x) = Of(loc[t]) => Of(x) = None
  /\ \A t, u \in Threads : (t # u /\ Of(loc[t]) = Of(loc[u])) => Of(loc[t]) = None

(* Every block a pool has handed out has one operation or thread that will   *)
(* give it back, and none that is in the pool is still referred to: no block *)
(* is freed twice or under the kernel's hands, and none is lost but those of *)
(* refused calls and the buffers of failed operations.                       *)
BlocksAccounted ==
  LET Io(x) == x.io
      Chr(x) == x.chr
  IN  RefersTo(ioUsed, Io, "io") /\ RefersTo(charUsed, Chr, "chr")

(* A connection has one receive at a time, pending or in the hands of a      *)
(* RecvThread: its bytes are read in order.  Exempt are connections whose    *)
(* handle was given out before the earlier connection's work was done        *)
(* (recycled) and those for which a receive was refused (deaf).              *)
Receiving(c) ==
  Cardinality({op \in pending : op.c = c /\ op.mode # "SEND"})
  + Cardinality({t \in Threads : pc[t] \in {"read", "recv", "exit"} /\ loc[t].c = c
                                 /\ loc[t].mode # "SEND"})
OneReceive ==
  \A h \in Handles :
    (conn[h] # None /\ conn[h] \notin recycled \cup deaf) => Receiving(conn[h]) = 1

(* A connection is closed only after its client has gone: what has become of *)
(* an earlier connection closes it only if its handle was recycled.          *)
NobodyIsCutOff ==
  [][\A h \in Handles :
       (conn[h] # None /\ conn'[h] # conn[h]) => conn[h] \in gone \cup recycled]_vars

(* The connection of a client that is gone is closed in the end, unless a    *)
(* receive was refused, after which nobody watches it.                       *)
GoneIsClosed ==
  \A c \in Conns :
    (c \in gone) ~> (c \in deaf \cup recycled \/ \A h \in Handles : conn[h] # c)
=============================================================================
