----------------------------- MODULE BotClient -----------------------------
(***************************************************************************)
(* The load generator: many connections (bots) in one process.  The         *)
(* INFO_CLIENT of a bot travels from makeQueue through a MakeMsgThread to   *)
(* sendQueue and through a SendMsgThread back; RecvMsgThreads store the     *)
(* statuses of replies in clientMap, of which they copy the whole and write *)
(* the whole back, under userCs.                                            *)
(*                                                                          *)
(* A pop from an empty queue returns an INFO_CLIENT whose job was never     *)
(* set.  A thread reuses the place of its info, where job is 0 after its    *)
(* first turn; before that it may be 1 by chance (Garbage).                 *)
(***************************************************************************)
EXTENDS Integers, Sequences, FiniteSets, SequencesExt

CONSTANTS
  Bots,                   \* the sockets; clientCnt is their number
  MakeShare, MaxMakers,   \* one MakeMsgThread for so many bots, at most so many
  SendShare, MaxSenders,  \* the same for SendMsgThreads
  Receivers,              \* the RecvMsgThreads
  Garbage,                \* the socket of an INFO_CLIENT that was never set
  MaxReplies              \* bound: replies on the way to each bot

Nobody == "nobody"

ASSUME BotAssumption ==
  /\ IsFiniteSet(Bots) /\ Garbage \notin Bots
  /\ Nobody \notin Bots \cup {Garbage} \cup Receivers
  /\ MakeShare \in Nat \ {0} /\ SendShare \in Nat \ {0}
  /\ MaxMakers \in Nat /\ MaxSenders \in Nat /\ MaxReplies \in [Bots -> Nat]

Least(a, b) == IF a < b THEN a ELSE b
Makers == {"make"} \X (1 .. Least(Cardinality(Bots) \div MakeShare, MaxMakers))
Senders == {"send"} \X (1 .. Least(Cardinality(Bots) \div SendShare, MaxSenders))
Workers == Makers \cup Senders

(* WAITING stands for STATUS_CHATTIG as well: bots do not tell them apart.   *)
Statuses == {"LOGOUT", "WAITING"}

VARIABLES
  proc,       \* the process
  makeQueue,  \* sockets of the INFO_CLIENTs in makeQueue
  sendQueue,  \* of those in sendQueue
  info,       \* of the one each worker has popped
  fresh,      \* workers that have not had a job yet
  clientMap,  \* the status clientMap has for each bot
  userCs,     \* the thread in userCs
  arriving,   \* statuses of the replies on the way to each bot
  posted,     \* bots with an outstanding receive
  reading,    \* what each RecvMsgThread reads: the bot and the statuses left
  copy,       \* its copy of clientMap
  latest      \* history: the last status the server has sent to each bot

queues == <<makeQueue, sendQueue, info, fresh>>
receives == <<arriving, posted, reading, copy, latest>>
vars == <<proc, queues, clientMap, userCs, receives>>

NotReading == [sock |-> Nobody, left |-> <<>>]
NoCopy == [b \in Bots |-> "none"]

(* main has connected the bots, posted a receive for each and filled         *)
(* makeQueue and clientMap before it starts the threads.                     *)
Init ==
  /\ proc = "run"
  /\ makeQueue = SetToSeq(Bots)
  /\ sendQueue = <<>>
  /\ info = [t \in Workers |-> Nobody]
  /\ fresh = Workers
  /\ clientMap = [b \in Bots |-> "LOGOUT"]
  /\ userCs = Nobody
  /\ arriving = [b \in Bots |-> <<>>]
  /\ posted = Bots
  /\ reading = [r \in Receivers |-> NotReading]
  /\ copy = [r \in Receivers |-> NoCopy]
  /\ latest = [b \in Bots |-> "LOGOUT"]

(* The process ends, and its threads and memory with it.                     *)
End(how) ==
  /\ proc' = how
  /\ makeQueue' = <<>> /\ sendQueue' = <<>>
  /\ info' = [t \in Workers |-> Nobody] /\ fresh' = {}
  /\ clientMap' = latest /\ userCs' = Nobody
  /\ arriving' = [b \in Bots |-> <<>>] /\ posted' = {}
  /\ reading' = [r \in Receivers |-> NotReading]
  /\ copy' = [r \in Receivers |-> NoCopy]
  /\ UNCHANGED latest

-----------------------------------------------------------------------------
(* MakeMsgThread.                                                            *)

(* Mutant: the entry stays in the queue.                                     *)
PopMakeKeepsFront(t) ==
  /\ proc = "run" /\ info[t] = Nobody /\ makeQueue # <<>>
  /\ info' = [info EXCEPT ![t] = Head(makeQueue)]
  /\ fresh' = fresh \ {t}
  /\ UNCHANGED <<proc, makeQueue, sendQueue, clientMap, userCs, receives>>

PopMake(t) ==
  /\ proc = "run" /\ info[t] = Nobody /\ makeQueue # <<>>
  /\ info' = [info EXCEPT ![t] = Head(makeQueue)]
  /\ makeQueue' = Tail(makeQueue)
  /\ fresh' = fresh \ {t}
  /\ UNCHANGED <<proc, sendQueue, clientMap, userCs, receives>>

PopMakeGarbage(t) ==
  /\ proc = "run" /\ t \in fresh /\ makeQueue = <<>>
  /\ info' = [info EXCEPT ![t] = Garbage]
  /\ fresh' = fresh \ {t}
  /\ UNCHANGED <<proc, makeQueue, sendQueue, clientMap, userCs, receives>>

(* Mutant: the entry goes back to makeQueue.                                 *)
MakeMsgBack(t) ==
  /\ proc = "run" /\ info[t] \in Bots /\ userCs = Nobody
  /\ makeQueue' = Append(makeQueue, info[t])
  /\ info' = [info EXCEPT ![t] = Nobody]
  /\ UNCHANGED <<proc, sendQueue, fresh, clientMap, userCs, receives>>

(* Under userCs the status is read, clientMap.find(info.Sock)->second, which *)
(* has no entry for Garbage; a command for it is drawn by lot and put into   *)
(* sendQueue.  Which one does not matter to the properties.                  *)
MakeMsg(t) ==
  /\ proc = "run" /\ info[t] \in Bots /\ userCs = Nobody
  /\ sendQueue' = Append(sendQueue, info[t])
  /\ info' = [info EXCEPT ![t] = Nobody]
  /\ UNCHANGED <<proc, makeQueue, fresh, clientMap, userCs, receives>>

ReadGarbage(t) ==
  /\ proc = "run" /\ info[t] = Garbage /\ userCs = Nobody
  /\ End("crashed")

-----------------------------------------------------------------------------
(* SendMsgThread.  The send of Garbage fails, which nobody notices, and it   *)
(* goes to makeQueue like any other.                                         *)

PopSend(t) ==
  /\ proc = "run" /\ info[t] = Nobody /\ sendQueue # <<>>
  /\ info' = [info EXCEPT ![t] = Head(sendQueue)]
  /\ sendQueue' = Tail(sendQueue)
  /\ fresh' = fresh \ {t}
  /\ UNCHANGED <<proc, makeQueue, clientMap, userCs, receives>>

PopSendGarbage(t) ==
  /\ proc = "run" /\ t \in fresh /\ sendQueue = <<>>
  /\ info' = [info EXCEPT ![t] = Garbage]
  /\ fresh' = fresh \ {t}
  /\ UNCHANGED <<proc, makeQueue, sendQueue, clientMap, userCs, receives>>

SendMsg(t) ==
  /\ proc = "run" /\ info[t] # Nobody
  /\ makeQueue' = Append(makeQueue, info[t])
  /\ info' = [info EXCEPT ![t] = Nobody]
  /\ UNCHANGED <<proc, sendQueue, fresh, clientMap, userCs, receives>>

-----------------------------------------------------------------------------
(* RecvMsgThread.                                                            *)

(* The server replies.                                                       *)
Reply(b, s) ==
  /\ proc = "run" /\ Len(arriving[b]) < MaxReplies[b]
  /\ arriving' = [arriving EXCEPT ![b] = Append(@, s)]
  /\ latest' = [latest EXCEPT ![b] = s]
  /\ UNCHANGED <<proc, queues, clientMap, userCs, posted, reading, copy>>

(* A completion with the packets that have arrived, or the first of them.    *)
Completion(r, b, n) ==
  /\ proc = "run" /\ reading[r] = NotReading /\ b \in posted /\ n \in 1 .. Len(arriving[b])
  /\ reading' = [reading EXCEPT ![r] = [sock |-> b, left |-> SubSeq(arriving[b], 1, n)]]
  /\ arriving' = [arriving EXCEPT ![b] = SubSeq(@, n + 1, Len(@))]
  /\ posted' = posted \ {b}
  /\ UNCHANGED <<proc, queues, clientMap, userCs, copy, latest>>

(* Mutant: the map is copied although another thread is in userCs.           *)
CopyMapUnlocked(r) ==
  /\ proc = "run" /\ reading[r].left # <<>> /\ userCs # r /\ copy[r] = NoCopy
  /\ copy' = [copy EXCEPT ![r] = clientMap]
  /\ userCs' = r
  /\ UNCHANGED <<proc, queues, clientMap, arriving, posted, reading, latest>>

CopyMap(r) ==
  /\ proc = "run" /\ reading[r].left # <<>> /\ userCs = Nobody
  /\ copy' = [copy EXCEPT ![r] = clientMap]
  /\ userCs' = r
  /\ UNCHANGED <<proc, queues, clientMap, arriving, posted, reading, latest>>

(* After the last packet the next receive is posted.                         *)
SetClientMap(r) ==
  /\ proc = "run" /\ copy[r] # NoCopy
  /\ LET b == reading[r].sock
         left == Tail(reading[r].left)
     IN  /\ clientMap' = [copy[r] EXCEPT ![b] = Head(reading[r].left)]
         /\ reading' = [reading EXCEPT ![r] = IF left = <<>> THEN NotReading ELSE [@ EXCEPT !.left = left]]
         /\ posted' = IF left = <<>> THEN posted \cup {b} ELSE posted
  /\ copy' = [copy EXCEPT ![r] = NoCopy]
  /\ userCs' = Nobody
  /\ UNCHANGED <<proc, queues, arriving, latest>>

(* One failed completion ends the process; one of no bytes is read as a      *)
(* packet.                                                                   *)
Disconnect ==
  /\ proc = "run"
  /\ End("exited") \/ End("crashed")

-----------------------------------------------------------------------------
MakerStep(t) == PopMake(t) \/ MakeMsg(t) \/ ReadGarbage(t)
SenderStep(t) == PopSend(t) \/ SendMsg(t)
ReceiverStep(r) ==
  \/ \E b \in Bots : \E n \in 1 .. MaxReplies[b] : Completion(r, b, n)
  \/ CopyMap(r) \/ SetClientMap(r)

Next ==
  \/ \E t \in Makers : MakerStep(t) \/ PopMakeGarbage(t)
  \/ \E t \in Senders : SenderStep(t) \/ PopSendGarbage(t)
  \/ \E r \in Receivers : ReceiverStep(r)
  \/ \E b \in Bots, s \in Statuses : Reply(b, s)
  \/ Disconnect

Spec == Init /\ [][Next]_vars

(* Threads are scheduled, and critical sections are entered in the end: the  *)
(* holder of userCs does not wait for anything in it.                        *)
Fairness ==
  /\ \A t \in Makers : WF_vars(MakerStep(t)) /\ SF_vars(MakeMsg(t) \/ ReadGarbage(t))
  /\ \A t \in Senders : WF_vars(SenderStep(t))
  /\ \A r \in Receivers : WF_vars(ReceiverStep(r))
FairSpec == Spec /\ Fairness

-----------------------------------------------------------------------------
(* Properties.                                                               *)

Socks == Bots \cup {Garbage}

TypeOK ==
  /\ proc \in {"run", "exited", "crashed"}
  /\ makeQueue \in Seq(Socks)
  /\ sendQueue \in Seq(Socks)
  /\ info \in [Workers -> Socks \cup {Nobody}]
  /\ fresh \subseteq Workers
  /\ clientMap \in [Bots -> Statuses]
  /\ userCs \in Receivers \cup {Nobody}
  /\ \A b \in Bots : arriving[b] \in Seq(Statuses) /\ Len(arriving[b]) <= MaxReplies[b]
  /\ posted \subseteq Bots
  /\ reading \in [Receivers -> [sock : Bots \cup {Nobody}, left : Seq(Statuses)]]
  /\ copy \in [Receivers -> [Bots -> Statuses] \cup {NoCopy}]
  /\ latest \in [Bots -> Statuses]

(* The INFO_CLIENT of a bot is in one place: a queue or the hands of one      *)
(* thread.  Each bot keeps sending, and no bot has two commands under way.    *)
Places(b) ==
  Cardinality({i \in DOMAIN makeQueue : makeQueue[i] = b})
  + Cardinality({i \in DOMAIN sendQueue : sendQueue[i] = b})
  + Cardinality({t \in Workers : info[t] = b})
EveryBotOnce == proc = "run" => \A b \in Bots : Places(b) = 1

(* The status of a bot whose replies have all been read is the last one the   *)
(* server has sent: replies are applied in order, and the copying of the      *)
(* whole map by several threads loses none.                                   *)
LastStatusKept ==
  \A b \in Bots : (b \in posted /\ arriving[b] = <<>>) => clientMap[b] = latest[b]

(* If there are enough bots for a thread of each kind to be started, every    *)
(* bot sends again and again, whatever the others do, while the process runs. *)
EveryBotServed ==
  (Makers # {} /\ Senders # {}) =>
    \A b \in Bots : []<>(proc # "run" \/ \E t \in Senders : info[t] = b)
=============================================================================
