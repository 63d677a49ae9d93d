------------------------------ MODULE MemPool ------------------------------
(***************************************************************************)
(* The block pools MPool (PER_IO_DATA) and CharPool (packet buffers) over   *)
(* ConcurrentQueue, as the server's threads use them.  ConcurrentQueue      *)
(* locks each call; Malloc makes several: empty(), in the case of an empty  *)
(* queue one push per new block, and top(), which takes the first block.    *)
(* top() of an empty queue is undefined: the process is "crashed".          *)
(*                                                                          *)
(* The pools of the clients (Client/MPool.cpp, Client/CharPool.cpp) are the *)
(* same algorithm over concurrent_queue, where try_pop of an empty queue    *)
(* leaves the pointer that Malloc returns uninitialised.                    *)
(***************************************************************************)
EXTENDS Integers, Sequences, FiniteSets

CONSTANTS
  Threads,   \* threads that allocate and free
  Initial,   \* blocks the pool starts with (50000)
  GrowBy,    \* blocks a Malloc adds to an empty pool (2000)
  MaxBlocks, \* bound: blocks that are ever made
  MaxHeld    \* bound: blocks a thread keeps at once

ASSUME PoolAssumption ==
  /\ Initial \in Nat /\ GrowBy \in Nat \ {0}
  /\ MaxBlocks \in Nat /\ Initial <= MaxBlocks /\ MaxHeld \in Nat

VARIABLES
  process,    \* "up" or "crashed"
  poolQueue,  \* the free blocks
  made,       \* how many blocks have been made: blocks are 1 .. made
  held,       \* the blocks each thread uses
  pc,         \* "run", or inside Malloc: "empty", "grow", "top"
  fresh       \* new blocks a growing thread has yet to push

vars == <<process, poolQueue, made, held, pc, fresh>>

Blocks == 1 .. made

TypeOK ==
  /\ process \in {"up", "crashed"}
  /\ made \in 0 .. MaxBlocks
  /\ poolQueue \in Seq(Blocks)
  /\ held \in [Threads -> SUBSET Blocks]
  /\ pc \in [Threads -> {"run", "empty", "grow", "top"}]
  /\ fresh \in [Threads -> SUBSET Blocks]

Init ==
  /\ process = "up"
  /\ poolQueue = [i \in 1 .. Initial |-> i]
  /\ made = Initial
  /\ held = [t \in Threads |-> {}]
  /\ pc = [t \in Threads |-> "run"]
  /\ fresh = [t \in Threads |-> {}]

At(t, label) == process = "up" /\ pc[t] = label
Goto(t, label) == pc' = [pc EXCEPT ![t] = label]

-----------------------------------------------------------------------------
Malloc(t) ==
  /\ At(t, "run") /\ Cardinality(held[t]) < MaxHeld
  /\ Goto(t, "empty")
  /\ UNCHANGED <<process, poolQueue, made, held, fresh>>

(* Mutant: the loop over the new blocks runs once too often.                 *)
TestEmptyOneTooMany(t) ==
  /\ At(t, "empty")
  /\ \/ /\ poolQueue # <<>>
        /\ Goto(t, "top")
        /\ UNCHANGED <<made, fresh>>
     \/ /\ poolQueue = <<>>
        /\ made + GrowBy <= MaxBlocks
        /\ made' = made + GrowBy
        /\ fresh' = [fresh EXCEPT ![t] = made + 1 .. made + GrowBy + 1]
        /\ Goto(t, "grow")
  /\ UNCHANGED <<process, poolQueue, held>>

(* poolQueue.empty(), and the new blocks if it is.                           *)
TestEmpty(t) ==
  /\ At(t, "empty")
  /\ \/ /\ poolQueue # <<>>
        /\ Goto(t, "top")
        /\ UNCHANGED <<made, fresh>>
     \/ /\ poolQueue = <<>>
        /\ made + GrowBy <= MaxBlocks
        /\ made' = made + GrowBy
        /\ fresh' = [fresh EXCEPT ![t] = made + 1 .. made + GrowBy]
        /\ Goto(t, "grow")
  /\ UNCHANGED <<process, poolQueue, held>>

(* The new blocks are pushed in order, one lock each.                        *)
PushNew(t) ==
  /\ At(t, "grow")
  /\ \/ /\ fresh[t] # {}
        /\ \E b \in fresh[t] :
             /\ \A c \in fresh[t] : b <= c
             /\ poolQueue' = Append(poolQueue, b)
             /\ fresh' = [fresh EXCEPT ![t] = @ \ {b}]
        /\ UNCHANGED pc
     \/ /\ fresh[t] = {}
        /\ Goto(t, "top")
        /\ UNCHANGED <<poolQueue, fresh>>
  /\ UNCHANGED <<process, made, held>>

(* Mutant: front() without pop().                                            *)
TopWithoutPop(t) ==
  /\ At(t, "top") /\ poolQueue # <<>>
  /\ held' = [held EXCEPT ![t] = @ \cup {Head(poolQueue)}]
  /\ Goto(t, "run")
  /\ UNCHANGED <<process, poolQueue, made, fresh>>

(* poolQueue.top(): front and pop under one lock.                            *)
Top(t) ==
  /\ At(t, "top") /\ poolQueue # <<>>
  /\ held' = [held EXCEPT ![t] = @ \cup {Head(poolQueue)}]
  /\ poolQueue' = Tail(poolQueue)
  /\ Goto(t, "run")
  /\ UNCHANGED <<process, made, fresh>>

TopOfEmpty(t) ==
  /\ At(t, "top") /\ poolQueue = <<>>
  /\ process' = "crashed"
  /\ UNCHANGED <<poolQueue, made, held, pc, fresh>>

(* A block is given back by the thread that uses it.                         *)
Free(t, b) ==
  /\ At(t, "run") /\ b \in held[t]
  /\ poolQueue' = Append(poolQueue, b)
  /\ held' = [held EXCEPT ![t] = @ \ {b}]
  /\ UNCHANGED <<process, made, pc, fresh>>

(* A block allocated by one thread is freed by another: a WorkThread's send  *)
(* buffer is given back by the RecvThread that gets the completion.          *)
HandOver(t, u, b) ==
  /\ process = "up" /\ t # u /\ b \in held[t]
  /\ pc[t] = "run" /\ pc[u] = "run" /\ Cardinality(held[u]) < MaxHeld
  /\ held' = [held EXCEPT ![t] = @ \ {b}, ![u] = @ \cup {b}]
  /\ UNCHANGED <<process, poolQueue, made, pc, fresh>>

(* A process that crashed takes no further step.                             *)
Down == process = "crashed" /\ UNCHANGED vars

Next ==
  \/ \E t \in Threads :
       \/ Malloc(t) \/ TestEmpty(t) \/ PushNew(t) \/ Top(t) \/ TopOfEmpty(t)
       \/ \E b \in Blocks : Free(t, b) \/ \E u \in Threads : HandOver(t, u, b)
  \/ Down

Spec == Init /\ [][Next]_vars

-----------------------------------------------------------------------------
(* Properties.                                                               *)

(* A block is in one place: in the pool, where it stands once, with one      *)
(* thread that uses it, or with the thread that made it and has yet to push  *)
(* it.  Two Mallocs never hand out the same block, and none disappears.      *)
QueuedOnce == \A i, j \in DOMAIN poolQueue : poolQueue[i] = poolQueue[j] => i = j
Queued == {poolQueue[i] : i \in DOMAIN poolQueue}
OneOwner ==
  /\ \A t \in Threads : (held[t] \cup fresh[t]) \cap Queued = {}
  /\ \A t, u \in Threads : held[t] \cap fresh[u] = {}
  /\ \A t, u \in Threads : t # u => held[t] \cap held[u] = {} /\ fresh[t] \cap fresh[u] = {}
NoneLost == Blocks \subseteq Queued \cup UNION {held[t] \cup fresh[t] : t \in Threads}
BlockHasOneOwner == QueuedOnce /\ OneOwner /\ NoneLost

(* The pool implements the allocator: to its users Malloc and Free are       *)
(* atomic, whatever the threads do between empty(), push() and top().        *)
Alloc == INSTANCE Allocator WITH User <- Threads, Block <- 1 .. MaxBlocks, owned <- held
IsAllocator == Alloc!Spec

=============================================================================
