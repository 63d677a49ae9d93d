--------------------------- MODULE MemPoolProofs ---------------------------
(***************************************************************************)
(* Theorems about MemPool for any number of threads and any sizes of the    *)
(* pool: no block has two owners, and the pool implements Allocator.        *)
(***************************************************************************)
EXTENDS MemPool, SequenceTheorems, TLAPS

USE PoolAssumption

(* Only a Malloc that is growing the pool has blocks it has yet to push;     *)
(* without this TestEmpty could forget some.                                 *)
FreshWhileGrowing == \A t \in Threads : pc[t] # "grow" => fresh[t] = {}

Inv == TypeOK /\ FreshWhileGrowing /\ BlockHasOneOwner

(* push() adds one block at the end of the queue.                            *)
LEMMA QueueAppend ==
  ASSUME NEW S, NEW q \in Seq(S), NEW b \in S
  PROVE  /\ Append(q, b) \in Seq(S)
         /\ DOMAIN Append(q, b) = DOMAIN q \cup {Len(q) + 1}
         /\ Append(q, b)[Len(q) + 1] = b
         /\ \A i \in DOMAIN q : Append(q, b)[i] = q[i] /\ i # Len(q) + 1
BY AppendProperties

(* top() takes the first block and moves the others up by one.               *)
LEMMA QueueTail ==
  ASSUME NEW S, NEW q \in Seq(S), q # <<>>
  PROVE  /\ Tail(q) \in Seq(S)
         /\ 1 \in DOMAIN q /\ Head(q) = q[1] /\ Head(q) \in S
         /\ \A i \in DOMAIN Tail(q) : i + 1 \in DOMAIN q /\ i # 0 /\ i \in Nat /\ Tail(q)[i] = q[i + 1]
         /\ \A i \in DOMAIN q : i # 1 => i - 1 \in DOMAIN Tail(q) /\ Tail(q)[i - 1] = q[i]
BY HeadTailProperties

(* Growing the pool keeps what is in it.                                     *)
LEMMA BlocksGrow ==
  ASSUME made \in Nat, made' \in Nat, made <= made'
  PROVE  /\ Blocks \subseteq Blocks'
         /\ Seq(Blocks) \subseteq Seq(Blocks')
<1>1. Blocks \subseteq Blocks'
  BY DEF Blocks
<1>2. \A q \in Seq(Blocks) : q \in Seq(Blocks')
  BY <1>1
<1>3. QED
  BY <1>1, <1>2

(* The pool starts with every block in the queue.                            *)
LEMMA InitInv == Init => Inv
<1> SUFFICES ASSUME Init PROVE Inv
  OBVIOUS
<1>1. poolQueue \in Seq(Blocks) /\ DOMAIN poolQueue = Blocks
  BY DEF Init, Blocks
<1>2. TypeOK /\ FreshWhileGrowing
  BY <1>1 DEF Init, TypeOK, FreshWhileGrowing
<1>3. Queued = Blocks /\ QueuedOnce
  BY <1>1 DEF Init, Queued, QueuedOnce, Blocks
<1>4. QED
  BY <1>2, <1>3 DEF Init, Inv, BlockHasOneOwner, OneOwner, NoneLost

(* OneOwner, block by block.                                                 *)
Apart(c, t, u) ==
  /\ c \in held[t] => c \notin Queued /\ c \notin fresh[u] /\ (t # u => c \notin held[u])
  /\ c \in fresh[t] => c \notin Queued /\ (t # u => c \notin fresh[u])

AllApart == \A c : \A t, u \in Threads : Apart(c, t, u)

(* Both say the same.                                                        *)
LEMMA OneOwnerIsApart == OneOwner <=> AllApart
<1>1. ASSUME OneOwner, NEW c, NEW t \in Threads, NEW u \in Threads PROVE Apart(c, t, u)
  BY <1>1 DEF OneOwner, Apart
<1>2. ASSUME AllApart PROVE OneOwner
  <2>1. \A t \in Threads : (held[t] \cup fresh[t]) \cap Queued = {}
    BY <1>2 DEF AllApart, Apart
  <2>2. \A t, u \in Threads : held[t] \cap fresh[u] = {}
    BY <1>2 DEF AllApart, Apart
  <2>3. \A t, u \in Threads : t # u => held[t] \cap held[u] = {}
    BY <1>2 DEF AllApart, Apart
  <2>4. \A t, u \in Threads : t # u => fresh[t] \cap fresh[u] = {}
    BY <1>2 DEF AllApart, Apart
  <2>5. QED
    BY <2>1, <2>2, <2>3, <2>4 DEF OneOwner
<1>3. QED
  BY <1>1, <1>2 DEF AllApart

(* Steps that leave the blocks alone.                                        *)
LEMMA SameBlocks ==
  ASSUME Inv, UNCHANGED <<poolQueue, made, held, fresh>>,
         process' \in {"up", "crashed"},
         pc' \in [Threads -> {"run", "empty", "grow", "top"}],
         \A t \in Threads : pc'[t] # "grow" => fresh[t] = {}
  PROVE  Inv'
<1>1. TypeOK' /\ FreshWhileGrowing'
  BY DEF Inv, TypeOK, FreshWhileGrowing, Blocks
<1>2. Queued' = Queued /\ Blocks' = Blocks
  BY DEF Queued, Blocks
<1>3. BlockHasOneOwner'
  BY <1>2 DEF Inv, BlockHasOneOwner, QueuedOnce, OneOwner, NoneLost
<1>4. QED
  BY <1>1, <1>3 DEF Inv

(* empty(): a Malloc that finds the pool empty makes blocks nobody has.      *)
LEMMA TestEmptyInv ==
  ASSUME Inv, NEW t \in Threads, TestEmpty(t)
  PROVE  Inv'
<1>1. CASE poolQueue # <<>>
  <2>1. UNCHANGED <<process, poolQueue, made, held, fresh>> /\ Goto(t, "top") /\ pc[t] = "empty"
    BY <1>1 DEF TestEmpty, At
  <2>2. QED
    BY <2>1, SameBlocks DEF Inv, TypeOK, FreshWhileGrowing, Goto
<1>2. CASE poolQueue = <<>>
  <2> DEFINE New == made + 1 .. made + GrowBy
  <2>1. /\ made \in Nat /\ made' = made + GrowBy /\ made' <= MaxBlocks
        /\ fresh' = [fresh EXCEPT ![t] = New]
        /\ pc' = [pc EXCEPT ![t] = "grow"] /\ pc[t] = "empty"
        /\ UNCHANGED <<process, poolQueue, held>>
    BY <1>2 DEF TestEmpty, At, Goto, Inv, TypeOK
  <2>2. /\ Blocks' = Blocks \cup New /\ Blocks \cap New = {}
        /\ made' \in 0 .. MaxBlocks
    BY <2>1 DEF Blocks
  <2>3. fresh[t] = {}
    BY <2>1 DEF Inv, FreshWhileGrowing
  <2>4. \A u \in Threads : fresh'[u] = IF u = t THEN New ELSE fresh[u]
    BY <2>1 DEF Inv, TypeOK
  <2>5. poolQueue' \in Seq(Blocks')
    BY <2>1, <1>2
  <2>6. TypeOK'
    BY <2>1, <2>2, <2>5 DEF Inv, TypeOK
  <2>7. FreshWhileGrowing'
    BY <2>1, <2>4 DEF Inv, TypeOK, FreshWhileGrowing
  <2>8. Queued' = {} /\ Queued = {} /\ QueuedOnce'
    BY <2>1, <1>2 DEF Queued, QueuedOnce
  <2>9. \A u \in Threads : held'[u] = held[u] /\ held[u] \subseteq Blocks /\ fresh[u] \subseteq Blocks
    BY <2>1 DEF Inv, TypeOK
  <2>10. OneOwner'
    <3>1. \A u \in Threads : (held'[u] \cup fresh'[u]) \cap Queued' = {}
      BY <2>8
    <3>2. \A u, v \in Threads : held'[u] \cap fresh'[v] = {}
      BY <2>2, <2>4, <2>9 DEF Inv, BlockHasOneOwner, OneOwner
    <3>3. \A u, v \in Threads : u # v => fresh'[u] \cap fresh'[v] = {}
      BY <2>2, <2>4, <2>9 DEF Inv, BlockHasOneOwner, OneOwner
    <3>4. \A u, v \in Threads : u # v => held'[u] \cap held'[v] = {}
      BY <2>9 DEF Inv, BlockHasOneOwner, OneOwner
    <3>5. QED
      BY <3>1, <3>2, <3>3, <3>4 DEF OneOwner
  <2>11. NoneLost'
    <3> SUFFICES ASSUME NEW b \in Blocks' PROVE \E u \in Threads : b \in held'[u] \cup fresh'[u]
      BY DEF NoneLost
    <3>1. CASE b \in New
      BY <3>1, <2>4
    <3>2. CASE b \in Blocks
      <4>1. \E u \in Threads : b \in held[u] \cup fresh[u]
        BY <3>2, <2>8 DEF Inv, BlockHasOneOwner, NoneLost
      <4>2. QED
        BY <4>1, <2>3, <2>4, <2>9
    <3>3. QED
      BY <3>1, <3>2, <2>2
  <2>12. QED
    BY <2>6, <2>7, <2>8, <2>10, <2>11 DEF Inv, BlockHasOneOwner
<1>3. QED
  BY <1>1, <1>2

(* A block b moves from one thread to the end of the queue.                  *)
LEMMA ToQueue ==
  ASSUME Inv, NEW t \in Threads, NEW b \in Blocks, UNCHANGED made,
         poolQueue' = Append(poolQueue, b),
         b \in held[t] \cup fresh[t],
         \A u \in Threads : /\ held'[u] = IF u = t THEN held[u] \ {b} ELSE held[u]
                            /\ fresh'[u] = IF u = t THEN fresh[u] \ {b} ELSE fresh[u]
  PROVE  /\ poolQueue' \in Seq(Blocks')
         /\ BlockHasOneOwner'
<1>1. Blocks' = Blocks
  BY DEF Blocks
<1>2. /\ poolQueue' \in Seq(Blocks)
      /\ DOMAIN poolQueue' = DOMAIN poolQueue \cup {Len(poolQueue) + 1}
      /\ poolQueue'[Len(poolQueue) + 1] = b
      /\ \A i \in DOMAIN poolQueue : poolQueue'[i] = poolQueue[i] /\ i # Len(poolQueue) + 1
  BY QueueAppend DEF Inv, TypeOK
<1>3. Queued' = Queued \cup {b}
  BY <1>2 DEF Queued
<1>4. b \notin Queued
  BY DEF Inv, BlockHasOneOwner, OneOwner
<1>5. QueuedOnce'
  BY <1>2, <1>4 DEF Inv, BlockHasOneOwner, QueuedOnce, Queued
<1>6. OneOwner'
  <2>1. \A u \in Threads : held'[u] \subseteq held[u] /\ fresh'[u] \subseteq fresh[u]
    OBVIOUS
  <2>2. \A u \in Threads : b \notin held'[u] \cup fresh'[u]
    BY DEF Inv, BlockHasOneOwner, OneOwner
  <2>3. \A u \in Threads : (held'[u] \cup fresh'[u]) \cap Queued' = {}
    BY <1>3, <2>1, <2>2 DEF Inv, BlockHasOneOwner, OneOwner
  <2>4. \A u, v \in Threads : held'[u] \cap fresh'[v] = {}
    BY <2>1 DEF Inv, BlockHasOneOwner, OneOwner
  <2>5. \A u, v \in Threads : u # v => held'[u] \cap held'[v] = {} /\ fresh'[u] \cap fresh'[v] = {}
    BY <2>1 DEF Inv, BlockHasOneOwner, OneOwner
  <2>6. QED
    BY <2>3, <2>4, <2>5 DEF OneOwner
<1>7. NoneLost'
  <2> SUFFICES ASSUME NEW c \in Blocks, c \notin Queued'
               PROVE  \E u \in Threads : c \in held'[u] \cup fresh'[u]
    BY <1>1 DEF NoneLost
  <2>1. c # b /\ c \notin Queued
    BY <1>3
  <2>2. PICK u \in Threads : c \in held[u] \cup fresh[u]
    BY <2>1 DEF Inv, BlockHasOneOwner, NoneLost
  <2>3. QED
    BY <2>1, <2>2
<1>8. QED
  BY <1>1, <1>2, <1>5, <1>6, <1>7 DEF BlockHasOneOwner

(* A growing Malloc pushes one of its new blocks, or is done with them.      *)
LEMMA PushNewInv ==
  ASSUME Inv, NEW t \in Threads, PushNew(t)
  PROVE  Inv'
<1>1. CASE fresh[t] # {}
  <2>1. PICK b \in fresh[t] : /\ poolQueue' = Append(poolQueue, b)
                              /\ fresh' = [fresh EXCEPT ![t] = @ \ {b}]
    BY <1>1 DEF PushNew
  <2>2. UNCHANGED <<process, made, held, pc>> /\ pc[t] = "grow" /\ b \in Blocks
    BY <1>1 DEF PushNew, At, Inv, TypeOK
  <2>3. b \notin held[t]
    BY DEF Inv, BlockHasOneOwner, OneOwner
  <2>4. \A u \in Threads : /\ held'[u] = IF u = t THEN held[u] \ {b} ELSE held[u]
                           /\ fresh'[u] = IF u = t THEN fresh[u] \ {b} ELSE fresh[u]
    BY <2>1, <2>2, <2>3 DEF Inv, TypeOK
  <2>5. poolQueue' \in Seq(Blocks') /\ BlockHasOneOwner'
    BY <2>1, <2>2, <2>4, ToQueue
  <2>6. TypeOK' /\ FreshWhileGrowing'
    BY <2>1, <2>2, <2>4, <2>5 DEF Inv, TypeOK, FreshWhileGrowing, Blocks
  <2>7. QED
    BY <2>5, <2>6 DEF Inv
<1>2. CASE fresh[t] = {}
  <2>1. UNCHANGED <<process, poolQueue, made, held, fresh>> /\ Goto(t, "top") /\ pc[t] = "grow"
    BY <1>2 DEF PushNew, At
  <2>2. QED
    BY <1>2, <2>1, SameBlocks DEF Inv, TypeOK, FreshWhileGrowing, Goto
<1>3. QED
  BY <1>1, <1>2

(* A block a thread frees goes back into the queue.                          *)
LEMMA FreeInv ==
  ASSUME Inv, NEW t \in Threads, NEW b \in Blocks, Free(t, b)
  PROVE  Inv'
<1>1. /\ b \in held[t] /\ poolQueue' = Append(poolQueue, b)
      /\ held' = [held EXCEPT ![t] = @ \ {b}]
      /\ UNCHANGED <<process, made, pc, fresh>>
  BY DEF Free
<1>2. b \notin fresh[t]
  BY <1>1 DEF Inv, BlockHasOneOwner, OneOwner
<1>3. \A u \in Threads : /\ held'[u] = IF u = t THEN held[u] \ {b} ELSE held[u]
                         /\ fresh'[u] = IF u = t THEN fresh[u] \ {b} ELSE fresh[u]
  BY <1>1, <1>2 DEF Inv, TypeOK
<1>4. poolQueue' \in Seq(Blocks') /\ BlockHasOneOwner'
  BY <1>1, <1>3, ToQueue
<1>5. TypeOK' /\ FreshWhileGrowing'
  BY <1>1, <1>4 DEF Inv, TypeOK, FreshWhileGrowing, Blocks
<1>6. QED
  BY <1>4, <1>5 DEF Inv

(* top() gives the first block of the queue, which nobody has, to a thread.  *)
LEMMA TopInv ==
  ASSUME Inv, NEW t \in Threads, Top(t)
  PROVE  Inv'
<1> DEFINE b == Head(poolQueue)
<1>1. /\ poolQueue # <<>> /\ poolQueue' = Tail(poolQueue) /\ pc[t] = "top"
      /\ held' = [held EXCEPT ![t] = @ \cup {b}]
      /\ pc' = [pc EXCEPT ![t] = "run"]
      /\ UNCHANGED <<process, made, fresh>>
  BY DEF Top, At, Goto
<1>2. Blocks' = Blocks /\ poolQueue \in Seq(Blocks)
  BY <1>1 DEF Blocks, Inv, TypeOK
<1>3. /\ poolQueue' \in Seq(Blocks)
      /\ 1 \in DOMAIN poolQueue /\ b = poolQueue[1] /\ b \in Blocks
      /\ \A i \in DOMAIN poolQueue' : /\ i + 1 \in DOMAIN poolQueue /\ i # 0 /\ i \in Nat
                                      /\ poolQueue'[i] = poolQueue[i + 1]
      /\ \A i \in DOMAIN poolQueue :
            i # 1 => i - 1 \in DOMAIN poolQueue' /\ poolQueue'[i - 1] = poolQueue[i]
  BY <1>1, <1>2, QueueTail
<1>4. QueuedOnce'
  <2> SUFFICES ASSUME NEW i \in DOMAIN poolQueue', NEW j \in DOMAIN poolQueue',
                      poolQueue'[i] = poolQueue'[j]
               PROVE  i = j
    BY DEF QueuedOnce
  <2>1. i + 1 = j + 1
    BY <1>3 DEF Inv, BlockHasOneOwner, QueuedOnce
  <2>2. QED
    BY <2>1, <1>3
<1>5. b \in Queued /\ b \notin Queued' /\ Queued' \subseteq Queued /\ Queued \subseteq Queued' \cup {b}
  <2>1. b \in Queued /\ Queued' \subseteq Queued
    BY <1>3 DEF Queued
  <2>2. ASSUME NEW i \in DOMAIN poolQueue', poolQueue'[i] = b
        PROVE  FALSE
    <3>1. i + 1 = 1
      BY <1>3, <2>2 DEF Inv, BlockHasOneOwner, QueuedOnce
    <3>2. QED
      BY <3>1, <1>3
  <2>3. b \notin Queued'
    BY <2>2 DEF Queued
  <2>4. Queued \subseteq Queued' \cup {b}
    BY <1>3 DEF Queued
  <2>5. QED
    BY <2>1, <2>3, <2>4
<1>6. \A u \in Threads : /\ held'[u] = IF u = t THEN held[u] \cup {b} ELSE held[u]
                         /\ fresh'[u] = fresh[u]
                         /\ b \notin held[u] \cup fresh[u]
  BY <1>1, <1>5 DEF Inv, TypeOK, BlockHasOneOwner, OneOwner
<1>7. OneOwner'
  <2>1. AllApart
    BY OneOwnerIsApart DEF Inv, BlockHasOneOwner
  <2>2. ASSUME NEW c, NEW u \in Threads, NEW v \in Threads PROVE Apart(c, u, v)'
    <3>1. /\ c \in held'[u] <=> (c \in held[u] \/ (c = b /\ u = t))
          /\ c \in held'[v] <=> (c \in held[v] \/ (c = b /\ v = t))
      <4> HIDE DEF b
      <4>1. QED
        BY <1>6
    <3>2. /\ Apart(c, u, v) /\ fresh'[u] = fresh[u] /\ fresh'[v] = fresh[v]
          /\ c \in Queued' => c \in Queued /\ c # b
      BY <2>1, <1>5, <1>6 DEF AllApart
    <3>3. b \notin held[u] \cup fresh[u] /\ b \notin held[v] \cup fresh[v]
      BY <1>6
    <3>4. QED
      BY <3>1, <3>2, <3>3 DEF Apart
  <2>3. AllApart'
    BY <2>2 DEF AllApart
  <2>4. OneOwner' <=> AllApart'
    BY OneOwnerIsApart, PTL
  <2>5. QED
    BY <2>3, <2>4
<1>8. NoneLost'
  <2> SUFFICES ASSUME NEW c \in Blocks, c \notin Queued'
               PROVE  \E u \in Threads : c \in held'[u] \cup fresh'[u]
    BY <1>2 DEF NoneLost
  <2>1. CASE c = b
    BY <2>1, <1>6
  <2>2. CASE c # b
    <3>1. PICK u \in Threads : c \in held[u] \cup fresh[u]
      BY <2>2, <1>5 DEF Inv, BlockHasOneOwner, NoneLost
    <3>2. QED
      BY <3>1, <1>6
  <2>3. QED
    BY <2>1, <2>2
<1>9. TypeOK' /\ FreshWhileGrowing'
  BY <1>1, <1>2, <1>3 DEF Inv, TypeOK, FreshWhileGrowing
<1>10. QED
  BY <1>4, <1>7, <1>8, <1>9 DEF Inv, BlockHasOneOwner

(* A block that is handed over has one owner before and after.               *)
LEMMA HandOverInv ==
  ASSUME Inv, NEW t \in Threads, NEW u \in Threads, NEW b \in Blocks, HandOver(t, u, b)
  PROVE  Inv'
<1>1. /\ t # u /\ b \in held[t]
      /\ held' = [held EXCEPT ![t] = @ \ {b}, ![u] = @ \cup {b}]
      /\ UNCHANGED <<process, poolQueue, made, pc, fresh>>
  BY DEF HandOver
<1>2. \A v \in Threads : \A c : c \in held'[v] <=> ((c # b /\ c \in held[v]) \/ (c = b /\ v = u))
  <2>1. \A v \in Threads : held'[v] =
          IF v = t THEN held[v] \ {b} ELSE IF v = u THEN held[v] \cup {b} ELSE held[v]
    BY <1>1 DEF Inv, TypeOK
  <2>2. \A v \in Threads : v # t => b \notin held[v]
    BY <1>1 DEF Inv, BlockHasOneOwner, OneOwner
  <2>3. ASSUME NEW v \in Threads, NEW c
        PROVE  c \in held'[v] <=> ((c # b /\ c \in held[v]) \/ (c = b /\ v = u))
    <3>1. CASE v = t
      <4>1. v # u /\ held'[v] = held[v] \ {b}
        BY <3>1, <1>1, <2>1
      <4>2. QED
        BY <4>1
    <3>2. CASE v = u
      <4>1. v # t /\ held'[v] = held[v] \cup {b}
        BY <3>2, <1>1, <2>1
      <4>2. QED
        BY <3>2, <4>1
    <3>3. CASE v # t /\ v # u
      <4>1. held'[v] = held[v] /\ b \notin held[v]
        BY <3>3, <2>1, <2>2
      <4>2. QED
        BY <3>3, <4>1
    <3>4. QED
      BY <3>1, <3>2, <3>3
  <2>4. QED
    BY <2>3
<1>3. Queued' = Queued /\ Blocks' = Blocks /\ QueuedOnce'
  BY <1>1 DEF Queued, Blocks, Inv, BlockHasOneOwner, QueuedOnce
<1>4. b \notin Queued /\ \A v \in Threads : b \notin fresh[v]
  BY <1>1 DEF Inv, BlockHasOneOwner, OneOwner
<1>5. OneOwner'
  <2>1. AllApart
    BY OneOwnerIsApart DEF Inv, BlockHasOneOwner
  <2>2. ASSUME NEW c, NEW v \in Threads, NEW w \in Threads PROVE Apart(c, v, w)'
    <3>1. Apart(c, v, w) /\ fresh' = fresh /\ Queued' = Queued
      BY <2>1, <1>1, <1>3 DEF AllApart
    <3>2. QED
      BY <3>1, <1>2, <1>4 DEF Apart
  <2>3. AllApart'
    BY <2>2 DEF AllApart
  <2>4. OneOwner' <=> AllApart'
    BY OneOwnerIsApart, PTL
  <2>5. QED
    BY <2>3, <2>4
<1>6. NoneLost'
  <2> SUFFICES ASSUME NEW c \in Blocks, c \notin Queued
               PROVE  \E v \in Threads : c \in held'[v] \cup fresh'[v]
    BY <1>3 DEF NoneLost
  <2>1. PICK v \in Threads : c \in held[v] \cup fresh[v]
    BY DEF Inv, BlockHasOneOwner, NoneLost
  <2>2. CASE c = b
    <3>1. c \in held'[u]
      BY <2>2, <1>2
    <3>2. QED
      BY <3>1
  <2>3. CASE c # b
    <3>1. c \in held'[v] \cup fresh'[v]
      BY <2>1, <2>3, <1>1, <1>2
    <3>2. QED
      BY <3>1
  <2>4. QED
    BY <2>2, <2>3
<1>7. TypeOK' /\ FreshWhileGrowing'
  BY <1>1, <1>3 DEF Inv, TypeOK, FreshWhileGrowing
<1>8. QED
  BY <1>3, <1>5, <1>6, <1>7 DEF Inv, BlockHasOneOwner

(* Every step of the pool keeps the invariant.                               *)
LEMMA NextInv == Inv /\ [Next]_vars => Inv'
<1> SUFFICES ASSUME Inv, [Next]_vars PROVE Inv'
  OBVIOUS
<1>1. ASSUME NEW t \in Threads, Malloc(t) PROVE Inv'
  <2>1. UNCHANGED <<process, poolQueue, made, held, fresh>> /\ Goto(t, "empty") /\ pc[t] = "run"
    BY <1>1 DEF Malloc, At
  <2>2. QED
    BY <2>1, SameBlocks DEF Inv, TypeOK, FreshWhileGrowing, Goto
<1>2. ASSUME NEW t \in Threads, TopOfEmpty(t) PROVE Inv'
  <2>1. UNCHANGED <<poolQueue, made, held, pc, fresh>> /\ process' = "crashed"
    BY <1>2 DEF TopOfEmpty
  <2>2. QED
    BY <2>1, SameBlocks DEF Inv, TypeOK, FreshWhileGrowing
<1>3. CASE UNCHANGED vars
  <2>1. UNCHANGED <<process, poolQueue, made, held, pc, fresh>>
    BY <1>3 DEF vars
  <2>2. QED
    BY <2>1, SameBlocks DEF Inv, TypeOK, FreshWhileGrowing
<1>4. QED
  BY <1>1, <1>2, <1>3, TestEmptyInv, PushNewInv, TopInv, FreeInv, HandOverInv DEF Next, Down

(* No two Mallocs hand out the same block and no block is lost, whatever the *)
(* threads of the server interleave between empty(), push() and top().       *)
THEOREM OneOwnerPerBlock == Spec => []BlockHasOneOwner
<1>1. Init => Inv
  BY InitInv
<1>2. Inv /\ [Next]_vars => Inv'
  BY NextInv
<1>3. Inv => BlockHasOneOwner
  BY DEF Inv
<1>4. QED
  BY <1>1, <1>2, <1>3, PTL DEF Spec

(* Every variable of the pool keeps its type.                                *)
THEOREM PoolTypes == Spec => []TypeOK
<1>1. Init => Inv
  BY InitInv
<1>2. Inv /\ [Next]_vars => Inv'
  BY NextInv
<1>3. Inv => TypeOK
  BY DEF Inv
<1>4. QED
  BY <1>1, <1>2, <1>3, PTL DEF Spec

(* Each step of the pool is a step of the allocator, or none: top() is its   *)
(* Malloc, Free its Release and HandOver its Pass.                           *)
LEMMA StepRefines == Inv /\ [Next]_vars => [Alloc!Next]_held
<1> SUFFICES ASSUME Inv, [Next]_vars PROVE Alloc!Next \/ held' = held
  OBVIOUS
<1>0. Blocks \subseteq 1 .. MaxBlocks
  BY DEF Inv, TypeOK, Blocks
<1>1. ASSUME NEW t \in Threads, Top(t) PROVE Alloc!Next
  <2>1. poolQueue # <<>> /\ held' = [held EXCEPT ![t] = @ \cup {Head(poolQueue)}]
    BY <1>1 DEF Top
  <2>2. Head(poolQueue) \in Blocks /\ Head(poolQueue) \in Queued
    BY <2>1, QueueTail DEF Inv, TypeOK, Queued
  <2>3. \A u \in Threads : Head(poolQueue) \notin held[u]
    BY <2>2 DEF Inv, BlockHasOneOwner, OneOwner
  <2>4. Alloc!Malloc(t, Head(poolQueue))
    BY <1>0, <2>1, <2>2, <2>3 DEF Alloc!Malloc, Alloc!Free
  <2>5. QED
    BY <1>0, <2>2, <2>4 DEF Alloc!Next
<1>2. ASSUME NEW t \in Threads, NEW b \in Blocks, Free(t, b) PROVE Alloc!Next
  <2>1. Alloc!Release(t, b)
    BY <1>2 DEF Free, Alloc!Release
  <2>2. QED
    BY <1>0, <2>1 DEF Alloc!Next
<1>3. ASSUME NEW t \in Threads, NEW u \in Threads, NEW b \in Blocks, HandOver(t, u, b)
      PROVE  Alloc!Next
  <2>1. Alloc!Pass(t, u, b)
    BY <1>3 DEF HandOver, Alloc!Pass
  <2>2. QED
    BY <1>0, <2>1 DEF Alloc!Next
<1>4. ASSUME NEW t \in Threads, Malloc(t) \/ TestEmpty(t) \/ PushNew(t) \/ TopOfEmpty(t)
      PROVE  held' = held
  BY <1>4 DEF Malloc, TestEmpty, PushNew, TopOfEmpty
<1>5. CASE UNCHANGED vars
  BY <1>5 DEF vars
<1>6. QED
  BY <1>1, <1>2, <1>3, <1>4, <1>5 DEF Next, Down

(* The pools implement the allocator for every number of threads and blocks: *)
(* to their users Malloc and Free are single steps.                          *)
THEOREM PoolImplementsAllocator == Spec => IsAllocator
<1>1. Init => Inv
  BY InitInv
<1>2. Inv /\ [Next]_vars => Inv'
  BY NextInv
<1>3. Init => Alloc!Init
  BY DEF Init, Alloc!Init
<1>4. Inv /\ [Next]_vars => [Alloc!Next]_held
  BY StepRefines
<1>5. QED
  BY <1>1, <1>2, <1>3, <1>4, PTL DEF Spec, IsAllocator, Alloc!Spec
=============================================================================
