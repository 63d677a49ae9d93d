---------------------------- MODULE JobPipeline ----------------------------
(***************************************************************************)
(* The way of a packet from the completion port to a handler                *)
(* (Server/Server.cpp): RecvThreads cut a completed receive into jobs, push *)
(* the batch into jobQueue under queueCs, wake the WorkThreads and ask for  *)
(* the next receive; a WorkThread takes the whole queue at once and runs    *)
(* its jobs one by one.  packetCnt counts jobs for CALLCOUNT.               *)
(*                                                                          *)
(* A job is a connection and the number of the packet on it.  A receive     *)
(* that ends inside a packet is continued by RecvMore before the batch is   *)
(* pushed, any other one by Recv after it.  The handler of a FILE_SEND      *)
(* packet waits in recvfrom, without a timeout, and may never return.       *)
(***************************************************************************)
EXTENDS Integers, Sequences, FiniteSets, Functions

CONSTANTS
  Conns,      \* connections
  Receivers,  \* the RecvThreads
  Workers,    \* the WorkThreads
  MaxPacket,  \* bound: how many packets the client of each connection sends
  Splitting,  \* connections whose receives may end inside a packet
  FileSends   \* the jobs that are FILE_SEND packets

Jobs == UNION {{c} \X (1 .. MaxPacket[c]) : c \in Conns}

ASSUME PipelineAssumption ==
  MaxPacket \in [Conns -> Nat] /\ Splitting \subseteq Conns /\ FileSends \subseteq Jobs

VARIABLES
  got,         \* how many packets of each connection have been received
  armed,       \* connections with an outstanding receive
  rpc,         \* the next step of each RecvThread
  batch,       \* packetQueue of each RecvThread, with its connection
  jobQueue,
  packetCnt,
  wpc,         \* the next step of each WorkThread
  localQueue,  \* the jobs each WorkThread has taken
  running,     \* the jobs whose handler runs, at most one per WorkThread
  done,        \* history: jobs that have been handled or dropped
  reported     \* history: sum of the counts CALLCOUNT has answered

recvVars == <<got, armed, rpc, batch>>
workVars == <<wpc, localQueue, running, done, reported>>
vars == <<recvVars, jobQueue, packetCnt, workVars>>

NoBatch == [more |-> FALSE, jobs |-> <<>>, conns |-> {}]

TypeOK ==
  /\ got \in [Conns -> Nat] /\ \A c \in Conns : got[c] <= MaxPacket[c]
  /\ armed \subseteq Conns
  /\ rpc \in [Receivers -> {"idle", "push", "notify", "recv"}]
  /\ \A r \in Receivers :
       /\ batch[r].jobs \in Seq(Jobs)
       /\ batch[r].conns \subseteq Conns
       /\ batch[r].more \in BOOLEAN
  /\ jobQueue \in Seq(Jobs)
  /\ packetCnt \in 0 .. Cardinality(Jobs)
  /\ wpc \in [Workers -> {"check", "wait", "work"}]
  /\ localQueue \in [Workers -> Seq(Jobs)]
  /\ running \in [Workers -> SUBSET Jobs]
  /\ done \subseteq Jobs
  /\ reported \in Nat

Init ==
  /\ got = [c \in Conns |-> 0]
  /\ armed = Conns
  /\ rpc = [r \in Receivers |-> "idle"]
  /\ batch = [r \in Receivers |-> NoBatch]
  /\ jobQueue = <<>>
  /\ packetCnt = 0
  /\ wpc = [w \in Workers |-> "check"]
  /\ localQueue = [w \in Workers |-> <<>>]
  /\ running = [w \in Workers |-> {}]
  /\ done = {}
  /\ reported = 0

-----------------------------------------------------------------------------
(* RecvThread.                                                               *)

(* GetQueuedCompletionStatus gives a receive of connection c that completes  *)
(* k packets; with more, another packet has begun and RecvMore is posted     *)
(* inside the reading loop.                                                  *)
Completion(r, c, k, more) ==
  /\ rpc[r] = "idle" /\ c \in armed
  /\ k > 0 \/ more
  /\ more => c \in Splitting /\ got[c] + k < MaxPacket[c]
  /\ got[c] + k <= MaxPacket[c]
  /\ got' = [got EXCEPT ![c] = @ + k]
  /\ armed' = IF more THEN armed ELSE armed \ {c}
  /\ batch' = [batch EXCEPT ![r] =
                [more |-> more, conns |-> {c}, jobs |-> [i \in 1 .. k |-> <<c, got[c] + i>>]]]
  /\ rpc' = [rpc EXCEPT ![r] = "push"]
  /\ UNCHANGED <<jobQueue, packetCnt, workVars>>

(* Mutant: the counter is advanced by one per batch.                         *)
PushCountsBatches(r) ==
  /\ rpc[r] = "push"
  /\ packetCnt' = packetCnt + 1
  /\ jobQueue' = jobQueue \o batch[r].jobs
  /\ rpc' = [rpc EXCEPT ![r] = "notify"]
  /\ UNCHANGED <<got, armed, batch, workVars>>

(* Mutant: the batch is pushed last job first.                               *)
PushReversed(r) ==
  /\ rpc[r] = "push"
  /\ packetCnt' = packetCnt + Len(batch[r].jobs)
  /\ jobQueue' = jobQueue \o [i \in DOMAIN batch[r].jobs |->
                                batch[r].jobs[Len(batch[r].jobs) + 1 - i]]
  /\ rpc' = [rpc EXCEPT ![r] = "notify"]
  /\ UNCHANGED <<got, armed, batch, workVars>>

(* The batch under queueCs, the counter first.                               *)
Push(r) ==
  /\ rpc[r] = "push"
  /\ packetCnt' = packetCnt + Len(batch[r].jobs)
  /\ jobQueue' = jobQueue \o batch[r].jobs
  /\ rpc' = [rpc EXCEPT ![r] = "notify"]
  /\ UNCHANGED <<got, armed, batch, workVars>>

(* Mutant: nobody is woken.                                                  *)
NotifyNobody(r) ==
  /\ rpc[r] = "notify"
  /\ rpc' = [rpc EXCEPT ![r] = IF batch[r].more THEN "idle" ELSE "recv"]
  /\ batch' = [batch EXCEPT ![r] = IF @.more THEN NoBatch ELSE [@ EXCEPT !.jobs = <<>>]]
  /\ UNCHANGED <<got, armed, jobQueue, packetCnt, workVars>>

(* jobCv.notify_all().                                                       *)
Notify(r) ==
  /\ rpc[r] = "notify"
  /\ wpc' = [w \in Workers |-> IF wpc[w] = "wait" THEN "check" ELSE wpc[w]]
  /\ rpc' = [rpc EXCEPT ![r] = IF batch[r].more THEN "idle" ELSE "recv"]
  /\ batch' = [batch EXCEPT ![r] = IF @.more THEN NoBatch ELSE [@ EXCEPT !.jobs = <<>>]]
  /\ UNCHANGED <<got, armed, jobQueue, packetCnt, localQueue, running, done, reported>>

(* Mutant: no further receive is posted.                                     *)
RecvForgotten(r) ==
  /\ rpc[r] = "recv"
  /\ batch' = [batch EXCEPT ![r] = NoBatch]
  /\ rpc' = [rpc EXCEPT ![r] = "idle"]
  /\ UNCHANGED <<got, armed, jobQueue, packetCnt, workVars>>

(* Recv asks for the connection's next bytes.                                *)
Recv(r) ==
  /\ rpc[r] = "recv"
  /\ armed' = armed \cup batch[r].conns
  /\ batch' = [batch EXCEPT ![r] = NoBatch]
  /\ rpc' = [rpc EXCEPT ![r] = "idle"]
  /\ UNCHANGED <<got, jobQueue, packetCnt, workVars>>

-----------------------------------------------------------------------------
(* WorkThread.                                                               *)

(* Mutant: the queue is copied, not swapped.                                 *)
TakeQueueCopies(w) ==
  /\ wpc[w] = "check" /\ jobQueue # <<>>
  /\ localQueue' = [localQueue EXCEPT ![w] = jobQueue]
  /\ wpc' = [wpc EXCEPT ![w] = "work"]
  /\ UNCHANGED <<recvVars, jobQueue, packetCnt, running, done, reported>>

(* Under queueCs: take the whole queue, or wait.  The test and the wait are  *)
(* one step, as the wait releases queueCs.                                   *)
TakeQueue(w) ==
  /\ wpc[w] = "check" /\ jobQueue # <<>>
  /\ localQueue' = [localQueue EXCEPT ![w] = jobQueue]
  /\ jobQueue' = <<>>
  /\ wpc' = [wpc EXCEPT ![w] = "work"]
  /\ UNCHANGED <<recvVars, packetCnt, running, done, reported>>

Wait(w) ==
  /\ wpc[w] = "check" /\ jobQueue = <<>>
  /\ wpc' = [wpc EXCEPT ![w] = "wait"]
  /\ UNCHANGED <<recvVars, jobQueue, packetCnt, localQueue, running, done, reported>>

(* A condition variable may wake a thread that was not notified.             *)
SpuriousWakeup(w) ==
  /\ wpc[w] = "wait"
  /\ wpc' = [wpc EXCEPT ![w] = "check"]
  /\ UNCHANGED <<recvVars, jobQueue, packetCnt, localQueue, running, done, reported>>

NextJob(w) == wpc[w] = "work" /\ running[w] = {} /\ localQueue[w] # <<>>

(* The job of a dead socket is dropped.                                      *)
DropJob(w) ==
  /\ NextJob(w)
  /\ done' = done \cup {Head(localQueue[w])}
  /\ localQueue' = [localQueue EXCEPT ![w] = Tail(@)]
  /\ UNCHANGED <<recvVars, jobQueue, packetCnt, wpc, running, reported>>

(* A CALLCOUNT job: exchange(0), and CallCnt answers with the old value.     *)
CallCount(w) ==
  /\ NextJob(w) /\ Head(localQueue[w]) \notin FileSends
  /\ reported' = reported + packetCnt
  /\ packetCnt' = 0
  /\ done' = done \cup {Head(localQueue[w])}
  /\ localQueue' = [localQueue EXCEPT ![w] = Tail(@)]
  /\ UNCHANGED <<recvVars, jobQueue, wpc, running>>

(* Any other job: its handler starts, and ends some time later.              *)
StartJob(w) ==
  /\ NextJob(w)
  /\ running' = [running EXCEPT ![w] = {Head(localQueue[w])}]
  /\ localQueue' = [localQueue EXCEPT ![w] = Tail(@)]
  /\ UNCHANGED <<recvVars, jobQueue, packetCnt, wpc, done, reported>>

FinishJob(w) ==
  /\ running[w] # {}
  /\ done' = done \cup running[w]
  /\ running' = [running EXCEPT ![w] = {}]
  /\ UNCHANGED <<recvVars, jobQueue, packetCnt, wpc, localQueue, reported>>

BackToQueue(w) ==
  /\ wpc[w] = "work" /\ running[w] = {} /\ localQueue[w] = <<>>
  /\ wpc' = [wpc EXCEPT ![w] = "check"]
  /\ UNCHANGED <<recvVars, jobQueue, packetCnt, localQueue, running, done, reported>>

-----------------------------------------------------------------------------
Receive(r) == \E c \in Conns, more \in BOOLEAN : \E k \in 0 .. MaxPacket[c] : Completion(r, c, k, more)
RecvStep(r) == Push(r) \/ Notify(r) \/ Recv(r)
WorkStep(w) ==
  TakeQueue(w) \/ Wait(w) \/ DropJob(w) \/ CallCount(w) \/ StartJob(w) \/ FinishJob(w) \/ BackToQueue(w)

Next ==
  \/ \E r \in Receivers : Receive(r) \/ RecvStep(r)
  \/ \E w \in Workers : WorkStep(w) \/ SpuriousWakeup(w)

Spec == Init /\ [][Next]_vars

(* The WorkThread is in RecvFile, which waits for datagrams.                 *)
Receiving(w) == running[w] \cap FileSends # {}

(* Threads are scheduled, and handlers return except from RecvFile.  Nothing *)
(* is assumed of clients, of their datagrams or of spurious wakeups.         *)
Fairness ==
  /\ \A r \in Receivers : WF_vars(RecvStep(r))
  /\ \A w \in Workers : WF_vars(WorkStep(w) /\ ~Receiving(w))
FairSpec == Spec /\ Fairness

-----------------------------------------------------------------------------
(* Properties.                                                               *)

Places ==
  {<<"batch", r>> : r \in Receivers} \cup {<<"queue">>} \cup {<<"done">>}
  \cup {<<"local", w>> : w \in Workers} \cup {<<"running", w>> : w \in Workers}
Held(p) ==
  CASE p[1] = "batch" -> Range(batch[p[2]].jobs)
    [] p[1] = "queue" -> Range(jobQueue)
    [] p[1] = "done" -> done
    [] p[1] = "local" -> Range(localQueue[p[2]])
    [] OTHER -> running[p[2]]

(* A received packet is in exactly one place until it is handled: no push,   *)
(* swap or pop loses or repeats a job.  Push moves the batch to jobQueue.     *)
EveryJobOnce ==
  \A j \in Jobs :
    LET at == {p \in Places : j \in Held(p) /\ (p[1] = "batch" => rpc[p[2]] = "push")}
    IN  Cardinality(at) = IF j[2] <= got[j[1]] THEN 1 ELSE 0

(* Jobs of a connection whose receives end between packets stand in          *)
(* jobQueue, and in what a WorkThread takes from it, in the order sent.      *)
InOrder(q) ==
  \A i, k \in DOMAIN q :
    (i < k /\ q[i][1] = q[k][1] /\ q[i][1] \notin Splitting) => q[i][2] < q[k][2]
QueuesInOrder == InOrder(jobQueue) /\ \A w \in Workers : InOrder(localQueue[w])

(* Every pushed job is counted once: what CALLCOUNT has reported and what    *)
(* packetCnt still holds add up to the jobs pushed.                          *)
PacketsCounted ==
  LET pushed == {j \in Jobs : j[2] <= got[j[1]]}
      waiting == UNION {Range(batch[r].jobs) : r \in {x \in Receivers : rpc[x] = "push"}}
  IN  packetCnt + reported = Cardinality(pushed \ waiting)

(* A received packet is handled in the end, and no wake-up is lost, unless   *)
(* RecvFile keeps the WorkThread that has taken it, or all of them: a thread *)
(* that waits for datagrams holds up the jobs it has swapped out, but no     *)
(* others while there is another thread.                                     *)
HeldUp(j) ==
  \/ \E w \in Workers : Receiving(w) /\ j \in running[w] \cup Range(localQueue[w])
  \/ \A w \in Workers : Receiving(w)
EveryJobHandled == \A j \in Jobs : <>[](j[2] <= got[j[1]] => j \in done \/ HeldUp(j))

(* A connection is always asked for more bytes again.                        *)
ReceivesGoOn == \A c \in Conns : []<>(c \in armed)
=============================================================================
