------------------------------ MODULE SendPath ------------------------------
(***************************************************************************)
(* The way of a reply from a handler to the network.  Handlers queue it     *)
(* with BusinessService::InsertSendQueue; BusinessService::Sendwork waits   *)
(* for the queue, takes all of it and sends each entry; StopSendWorker ends *)
(* the waiting.  The SendThreads that main starts do not call Sendwork:     *)
(* they wait for a second queue of the same name, the global one of         *)
(* Server.cpp, whose only producer, EnqueueSend, has no caller.             *)
(*                                                                          *)
(* Both pairs of functions are the same queue with a condition variable, so *)
(* one pair of operators models them: a queue is "service" (the member of   *)
(* BusinessService) or "global".  The thread sets say who calls what.       *)
(***************************************************************************)
EXTENDS Integers, Sequences, FiniteSets, Functions

CONSTANTS
  Handlers,         \* threads that call InsertSendQueue
  Enqueuers,        \* threads that call EnqueueSend (none in main)
  SendThreads,      \* the SendThreads of Server.cpp
  SendworkCallers,  \* threads that call Sendwork in a loop (none in main)
  Replies,          \* bound: the replies that are queued, each once
  Stops             \* whether StopSendWorker may be called

ASSUME SendAssumption ==
  /\ Stops \in BOOLEAN
  /\ SendThreads \cap SendworkCallers = {}
  /\ Handlers \cap Enqueuers = {}

Senders == SendThreads \cup SendworkCallers
Producers == Handlers \cup Enqueuers
Queues == {"service", "global"}

(* InsertSendQueue and Sendwork use the member, EnqueueSend and SendThread   *)
(* the global queue.                                                         *)
QueueOf(t) == IF t \in Handlers \cup SendworkCallers THEN "service" ELSE "global"

VARIABLES
  fresh,       \* replies no producer has queued yet
  notifying,   \* producers between the push and notify_one
  sendQueue,   \* both send queues
  pc,          \* the next step of each sender
  taken,       \* the localQueue of each sender
  sent,        \* history: replies handed to SendToOneMsg or SendToRoomMsg
  sendStop,
  stopping     \* StopSendWorker: "no", "stored" (before notify_all), "done"

sendVars == <<fresh, notifying, sendQueue, pc, taken, sent, sendStop, stopping>>

(* Only Sendwork has a way out of its wait; SendThread never returns.        *)
SendTypeOK ==
  /\ fresh \subseteq Replies
  /\ notifying \subseteq Producers
  /\ sendQueue \in [Queues -> Seq(Replies)]
  /\ pc \in [Senders -> {"check", "decide", "wait", "send", "returned"}]
  /\ \A t \in SendThreads : pc[t] # "returned"
  /\ taken \in [Senders -> Seq(Replies)]
  /\ sent \subseteq Replies
  /\ sendStop \in BOOLEAN
  /\ stopping \in {"no", "stored", "done"}

SendInit ==
  /\ fresh = Replies
  /\ notifying = {}
  /\ sendQueue = [q \in Queues |-> <<>>]
  /\ pc = [t \in Senders |-> "check"]
  /\ taken = [t \in Senders |-> <<>>]
  /\ sent = {}
  /\ sendStop = FALSE
  /\ stopping = "no"

-----------------------------------------------------------------------------
(* InsertSendQueue and EnqueueSend: the push under sendCs, then notify_one.  *)
(* A sender between the test of its predicate and the wait holds sendCs.     *)

LockFree(q) == \A t \in Senders : ~(pc[t] = "decide" /\ QueueOf(t) = q)

PushReply(h, m) ==
  /\ h \notin notifying /\ m \in fresh
  /\ LockFree(QueueOf(h))
  /\ fresh' = fresh \ {m}
  /\ sendQueue' = [sendQueue EXCEPT ![QueueOf(h)] = Append(@, m)]
  /\ notifying' = notifying \cup {h}
  /\ UNCHANGED <<pc, taken, sent, sendStop, stopping>>

InsertSendQueue(h, m) == h \in Handlers /\ PushReply(h, m)
EnqueueSend(h, m) == h \in Enqueuers /\ PushReply(h, m)

Waiting(q) == {t \in Senders : pc[t] = "wait" /\ QueueOf(t) = q}

(* One of the threads that wait for the queue is woken, if there is one.     *)
NotifyOne(h) ==
  /\ h \in notifying
  /\ notifying' = notifying \ {h}
  /\ \/ \E t \in Waiting(QueueOf(h)) : pc' = [pc EXCEPT ![t] = "check"]
     \/ Waiting(QueueOf(h)) = {} /\ UNCHANGED pc
  /\ UNCHANGED <<fresh, sendQueue, taken, sent, sendStop, stopping>>

-----------------------------------------------------------------------------
(* Sendwork and SendThread.  wait() tests its predicate under the lock       *)
(* ("check") and blocks if it is false ("decide"): sendStop is stored        *)
(* without the lock, so it may change between the two.                       *)

MayProceed(t) ==
  sendQueue[QueueOf(t)] # <<>> \/ (t \in SendworkCallers /\ sendStop)

(* Mutant: the queue is copied, not swapped.                                 *)
TakeSendQueueCopies(t) ==
  /\ pc[t] = "check" /\ LockFree(QueueOf(t)) /\ MayProceed(t)
  /\ IF sendQueue[QueueOf(t)] = <<>>
     THEN pc' = [pc EXCEPT ![t] = "returned"] /\ UNCHANGED taken
     ELSE /\ taken' = [taken EXCEPT ![t] = sendQueue[QueueOf(t)]]
          /\ pc' = [pc EXCEPT ![t] = "send"]
  /\ UNCHANGED <<fresh, notifying, sendQueue, sent, sendStop, stopping>>

(* Mutant: a stop wins over entries that are still queued.                   *)
TakeSendQueueStopFirst(t) ==
  /\ pc[t] = "check" /\ LockFree(QueueOf(t)) /\ MayProceed(t)
  /\ IF t \in SendworkCallers /\ sendStop
     THEN pc' = [pc EXCEPT ![t] = "returned"] /\ UNCHANGED <<sendQueue, taken>>
     ELSE /\ taken' = [taken EXCEPT ![t] = sendQueue[QueueOf(t)]]
          /\ sendQueue' = [sendQueue EXCEPT ![QueueOf(t)] = <<>>]
          /\ pc' = [pc EXCEPT ![t] = "send"]
  /\ UNCHANGED <<fresh, notifying, sent, sendStop, stopping>>

(* With the predicate true Sendwork returns if there is nothing to send;     *)
(* otherwise the queue is swapped out.                                       *)
TakeSendQueue(t) ==
  /\ pc[t] = "check" /\ LockFree(QueueOf(t)) /\ MayProceed(t)
  /\ IF sendQueue[QueueOf(t)] = <<>>
     THEN pc' = [pc EXCEPT ![t] = "returned"] /\ UNCHANGED <<sendQueue, taken>>
     ELSE /\ taken' = [taken EXCEPT ![t] = sendQueue[QueueOf(t)]]
          /\ sendQueue' = [sendQueue EXCEPT ![QueueOf(t)] = <<>>]
          /\ pc' = [pc EXCEPT ![t] = "send"]
  /\ UNCHANGED <<fresh, notifying, sent, sendStop, stopping>>

PredicateFalse(t) ==
  /\ pc[t] = "check" /\ LockFree(QueueOf(t)) /\ ~MayProceed(t)
  /\ pc' = [pc EXCEPT ![t] = "decide"]
  /\ UNCHANGED <<fresh, notifying, sendQueue, taken, sent, sendStop, stopping>>

(* The wait releases sendCs.                                                 *)
Block(t) ==
  /\ pc[t] = "decide"
  /\ pc' = [pc EXCEPT ![t] = "wait"]
  /\ UNCHANGED <<fresh, notifying, sendQueue, taken, sent, sendStop, stopping>>

SpuriousSenderWakeup(t) ==
  /\ pc[t] = "wait"
  /\ pc' = [pc EXCEPT ![t] = "check"]
  /\ UNCHANGED <<fresh, notifying, sendQueue, taken, sent, sendStop, stopping>>

(* The entry goes to SendToOneMsg, SendToRoomMsg or SendToRoomFile, or is    *)
(* dropped with its room or its dead socket.                                 *)
SendOne(t) ==
  /\ pc[t] = "send" /\ taken[t] # <<>>
  /\ sent' = sent \cup {Head(taken[t])}
  /\ taken' = [taken EXCEPT ![t] = Tail(@)]
  /\ UNCHANGED <<fresh, notifying, sendQueue, pc, sendStop, stopping>>

BackToWait(t) ==
  /\ pc[t] = "send" /\ taken[t] = <<>>
  /\ pc' = [pc EXCEPT ![t] = "check"]
  /\ UNCHANGED <<fresh, notifying, sendQueue, taken, sent, sendStop, stopping>>

-----------------------------------------------------------------------------
(* StopSendWorker: the store, without sendCs, then notify_all.               *)

StoreStop ==
  /\ Stops /\ stopping = "no"
  /\ sendStop' = TRUE
  /\ stopping' = "stored"
  /\ UNCHANGED <<fresh, notifying, sendQueue, pc, taken, sent>>

NotifyAll ==
  /\ stopping = "stored"
  /\ pc' = [t \in Senders |-> IF t \in Waiting("service") THEN "check" ELSE pc[t]]
  /\ stopping' = "done"
  /\ UNCHANGED <<fresh, notifying, sendQueue, taken, sent, sendStop>>

-----------------------------------------------------------------------------
SendStep(t) == TakeSendQueue(t) \/ PredicateFalse(t) \/ Block(t) \/ SendOne(t) \/ BackToWait(t)

SendNext ==
  \/ \E h \in Producers : (\E m \in Replies : InsertSendQueue(h, m) \/ EnqueueSend(h, m)) \/ NotifyOne(h)
  \/ \E t \in Senders : SendStep(t) \/ SpuriousSenderWakeup(t)
  \/ StoreStop \/ NotifyAll

SendSpec == SendInit /\ [][SendNext]_sendVars

(* Threads are scheduled; spurious wakeups are not relied on.                *)
SendFairness ==
  /\ \A h \in Producers : WF_sendVars(NotifyOne(h))
  /\ \A t \in Senders : WF_sendVars(SendStep(t))
  /\ WF_sendVars(NotifyAll)
FairSendSpec == SendSpec /\ SendFairness

-----------------------------------------------------------------------------
(* Properties.                                                               *)

(* Every reply is in one place: not produced, in a queue, taken by one       *)
(* sender, or sent.  notify_one and the swap repeat and lose none.           *)
EveryReplyOnce ==
  \A m \in Replies :
    Cardinality({q \in Queues : m \in Range(sendQueue[q])})
      + Cardinality({t \in Senders : m \in Range(taken[t])})
      + Cardinality(fresh \cap {m}) + Cardinality(sent \cap {m}) = 1

(* A reply that is queued before a stop is sent: InsertSendQueue wakes       *)
(* somebody who drains the queue the reply is in, and Sendwork returns only  *)
(* when its queue is empty.                                                  *)
ReplySent == \A m \in Replies : (m \notin fresh /\ ~sendStop) ~> (m \in sent)

=============================================================================
