--------------------------- MODULE BotClientProofs ---------------------------
(***************************************************************************)
(* Theorems about BotClient for any number of bots and threads: the command *)
(* of a bot is neither lost nor doubled on its way round the queues, and no *)
(* status is lost in clientMap.                                             *)
(***************************************************************************)
EXTENDS BotClient, FiniteSetTheorems, SequenceTheorems, TLAPS

-----------------------------------------------------------------------------
(* How often an entry is in a queue.                                         *)

None(q, b) == \A i \in DOMAIN q : q[i] # b
One(q, b) == \E i \in DOMAIN q : q[i] = b /\ \A j \in DOMAIN q : q[j] = b => j = i

(* A push leaves the other entries where they are and adds its own.          *)
LEMMA PushCount ==
  ASSUME NEW S, NEW q \in Seq(S), NEW x \in S, NEW b
  PROVE  /\ Append(q, x) \in Seq(S)
         /\ x # b /\ None(q, b) => None(Append(q, x), b)
         /\ x # b /\ One(q, b) => One(Append(q, x), b)
         /\ x = b /\ None(q, b) => One(Append(q, x), b)
<1>1. /\ Append(q, x) \in Seq(S)
      /\ DOMAIN Append(q, x) = 1 .. Len(q) + 1
      /\ DOMAIN q = 1 .. Len(q) /\ Len(q) \in Nat
      /\ \A i \in 1 .. Len(q) : Append(q, x)[i] = q[i]
      /\ Append(q, x)[Len(q) + 1] = x
  OBVIOUS
<1>2. ASSUME x # b, None(q, b) PROVE None(Append(q, x), b)
  BY <1>1, <1>2 DEF None
<1>3. ASSUME x # b, One(q, b) PROVE One(Append(q, x), b)
  BY <1>1, <1>3 DEF One
<1>4. ASSUME x = b, None(q, b) PROVE One(Append(q, x), b)
  <2>1. Len(q) + 1 \in DOMAIN Append(q, x) /\ Append(q, x)[Len(q) + 1] = b
    BY <1>1, <1>4
  <2>2. ASSUME NEW j \in DOMAIN Append(q, x), Append(q, x)[j] = b PROVE j = Len(q) + 1
    BY <1>1, <1>4, <2>2 DEF None
  <2>3. QED
    BY <2>1, <2>2 DEF One
<1>5. QED
  BY <1>1, <1>2, <1>3, <1>4

(* A pop takes one entry off and leaves the others in the queue.             *)
LEMMA PopCount ==
  ASSUME NEW S, NEW q \in Seq(S), q # <<>>, NEW b
  PROVE  /\ Head(q) \in S /\ Tail(q) \in Seq(S)
         /\ None(q, b) => Head(q) # b /\ None(Tail(q), b)
         /\ Head(q) # b /\ One(q, b) => One(Tail(q), b)
         /\ Head(q) = b /\ One(q, b) => None(Tail(q), b)
<1>1. /\ Tail(q) \in Seq(S) /\ Head(q) = q[1] /\ Head(q) \in S
      /\ Len(q) \in Nat /\ Len(q) > 0
      /\ DOMAIN q = 1 .. Len(q) /\ DOMAIN Tail(q) = 1 .. Len(q) - 1
      /\ \A i \in 1 .. Len(q) - 1 : Tail(q)[i] = q[i + 1]
  OBVIOUS
<1>2. ASSUME None(q, b) PROVE Head(q) # b /\ None(Tail(q), b)
  BY <1>1, <1>2 DEF None
<1>3. ASSUME Head(q) # b, One(q, b) PROVE One(Tail(q), b)
  <2>1. PICK i \in 1 .. Len(q) : q[i] = b /\ \A j \in 1 .. Len(q) : q[j] = b => j = i
    BY <1>1, <1>3 DEF One
  <2>2. i - 1 \in 1 .. Len(q) - 1 /\ Tail(q)[i - 1] = b
    BY <1>1, <1>3, <2>1
  <2>3. ASSUME NEW j \in 1 .. Len(q) - 1, Tail(q)[j] = b PROVE j = i - 1
    <3>1. q[j + 1] = b /\ j + 1 \in 1 .. Len(q)
      BY <1>1, <2>3
    <3>2. j + 1 = i
      BY <2>1, <3>1
    <3>3. QED
      BY <3>2
  <2>4. QED
    BY <1>1, <2>2, <2>3 DEF One
<1>4. ASSUME Head(q) = b, One(q, b) PROVE None(Tail(q), b)
  <2>1. PICK i \in 1 .. Len(q) : q[i] = b /\ \A j \in 1 .. Len(q) : q[j] = b => j = i
    BY <1>1, <1>4 DEF One
  <2>2. i = 1
    BY <1>1, <1>4, <2>1
  <2>3. ASSUME NEW j \in 1 .. Len(q) - 1, Tail(q)[j] = b PROVE FALSE
    <3>1. q[j + 1] = b /\ j + 1 \in 1 .. Len(q) /\ j + 1 # 1
      BY <1>1, <2>3
    <3>2. QED
      BY <2>1, <2>2, <3>1
  <2>4. QED
    BY <1>1, <2>3 DEF None
<1>5. QED
  BY <1>1, <1>2, <1>3, <1>4

(* The queue main fills has every bot once.                                  *)
LEMMA FilledCount ==
  ASSUME NEW S, IsFiniteSet(S)
  PROVE  SetToSeq(S) \in Seq(S) /\ \A b \in S : One(SetToSeq(S), b)
<1> DEFINE n == Cardinality(S)
           f == SetToSeq(S)
<1>1. n \in Nat /\ ExistsBijection(1 .. n, S)
  BY FS_CardinalityType
<1>2. \E g \in [1 .. n -> S] : IsInjective(g)
  BY <1>1 DEF ExistsBijection, Bijection, Injection
<1>3. f \in [1 .. n -> S] /\ IsInjective(f)
  BY <1>2 DEF SetToSeq
<1>4. f \in Injection(1 .. n, S)
  BY <1>3 DEF Injection
<1>5. IsFiniteSet(1 .. n) /\ Cardinality(1 .. n) = n
  BY <1>1, FS_Interval
<1>6. f \in Surjection(1 .. n, S)
  BY <1>4, <1>5, FS_Injection
<1>7. ASSUME NEW b \in S PROVE One(f, b)
  <2>1. PICK i \in 1 .. n : f[i] = b
    BY <1>6 DEF Surjection
  <2>2. \A j \in DOMAIN f : f[j] = b => j = i
    BY <1>3, <2>1 DEF IsInjective
  <2>3. QED
    BY <1>3, <2>1, <2>2 DEF One
<1>8. f \in Seq(S)
  BY <1>1, <1>3, SeqDef
<1>9. QED
  BY <1>7, <1>8

(* A thread that pops takes an entry, one that pushes gives it away.         *)
LEMMA HandCount ==
  ASSUME NEW f, NEW t \in DOMAIN f, NEW x, NEW g, g = [f EXCEPT ![t] = x], NEW b, f[t] # b \/ x # b
  PROVE  /\ f[t] # b /\ x # b => (None(f, b) => None(g, b)) /\ (One(f, b) => One(g, b))
         /\ x = b /\ None(f, b) => One(g, b)
         /\ f[t] = b /\ One(f, b) => None(g, b)
         /\ None(f, b) => f[t] # b
BY DEF None, One

-----------------------------------------------------------------------------
(* The queues.                                                               *)

QueuesTyped ==
  /\ makeQueue \in Seq(Socks)
  /\ sendQueue \in Seq(Socks)
  /\ info \in [Workers -> Socks \cup {Nobody}]
  /\ fresh \subseteq Workers
  /\ \A t \in fresh : info[t] = Nobody

OnePlace(b) ==
  \/ One(makeQueue, b) /\ None(sendQueue, b) /\ None(info, b)
  \/ None(makeQueue, b) /\ One(sendQueue, b) /\ None(info, b)
  \/ None(makeQueue, b) /\ None(sendQueue, b) /\ One(info, b)

QueuesInv == QueuesTyped /\ (proc = "run" => \A b \in Bots : OnePlace(b))

(* Nobody is neither a socket nor a thread, and Garbage is no bot.           *)
LEMMA Markers ==
  /\ Nobody \notin Bots /\ Garbage \notin Bots /\ Nobody # Garbage /\ Nobody \notin Receivers
  /\ Nobody \notin Socks /\ Garbage \in Socks /\ Bots \subseteq Socks
BY BotAssumption DEF Socks

(* main pushes the command of every bot once.                                *)
LEMMA QueuesInit == Init => QueuesInv
<1> SUFFICES ASSUME Init PROVE QueuesInv
  OBVIOUS
<1> USE DEF Init
<1>1. makeQueue \in Seq(Bots) /\ \A b \in Bots : One(makeQueue, b)
  BY BotAssumption, FilledCount
<1>2. makeQueue \in Seq(Socks)
  BY <1>1, Markers
<1>3. QueuesTyped
  BY <1>2 DEF QueuesTyped
<1>4. ASSUME NEW b \in Bots PROVE OnePlace(b)
  BY <1>1, Markers DEF OnePlace, None
<1>5. QED
  BY <1>3, <1>4 DEF QueuesInv

(* A thread without an entry pops one.                                       *)
LEMMA PopMakeCounts ==
  ASSUME QueuesInv, NEW t \in Workers, PopMake(t)
  PROVE  QueuesInv'
<1> USE DEF PopMake
<1>1. QueuesTyped /\ proc' = "run" /\ sendQueue' = sendQueue /\ \A b \in Bots : OnePlace(b)
  BY DEF QueuesInv
<1>2. Head(makeQueue) \in Socks /\ Tail(makeQueue) \in Seq(Socks)
  BY <1>1, PopCount DEF QueuesTyped
<1>3. QueuesTyped'
  BY <1>1, <1>2 DEF QueuesTyped
<1>4. ASSUME NEW b \in Bots PROVE OnePlace(b)'
  <2>1. Nobody # b
    BY Markers
  <2>2. /\ None(makeQueue, b) => Head(makeQueue) # b /\ None(makeQueue', b)
        /\ Head(makeQueue) # b /\ One(makeQueue, b) => One(makeQueue', b)
        /\ Head(makeQueue) = b /\ One(makeQueue, b) => None(makeQueue', b)
    BY <1>1, PopCount DEF QueuesTyped
  <2>3. /\ Head(makeQueue) # b => (None(info, b) => None(info', b)) /\ (One(info, b) => One(info', b))
        /\ Head(makeQueue) = b /\ None(info, b) => One(info', b)
    <3>1. t \in DOMAIN info /\ info' = [info EXCEPT ![t] = Head(makeQueue)]
      BY <1>1, <1>2 DEF QueuesTyped
    <3>2. QED
      BY <2>1, <3>1, HandCount
  <2>4. OnePlace(b)
    BY <1>1
  <2>5. QED
    BY <1>1, <2>2, <2>3, <2>4 DEF OnePlace
<1>5. QED
  BY <1>3, <1>4 DEF QueuesInv

(* A WorkThread that pops takes the command from the queue into its hands.   *)
LEMMA PopSendCounts ==
  ASSUME QueuesInv, NEW t \in Workers, PopSend(t)
  PROVE  QueuesInv'
<1> USE DEF PopSend
<1>1. QueuesTyped /\ proc' = "run" /\ makeQueue' = makeQueue /\ \A b \in Bots : OnePlace(b)
  BY DEF QueuesInv
<1>2. Head(sendQueue) \in Socks /\ Tail(sendQueue) \in Seq(Socks)
  BY <1>1, PopCount DEF QueuesTyped
<1>3. QueuesTyped'
  BY <1>1, <1>2 DEF QueuesTyped
<1>4. ASSUME NEW b \in Bots PROVE OnePlace(b)'
  <2>1. Nobody # b
    BY Markers
  <2>2. /\ None(sendQueue, b) => Head(sendQueue) # b /\ None(sendQueue', b)
        /\ Head(sendQueue) # b /\ One(sendQueue, b) => One(sendQueue', b)
        /\ Head(sendQueue) = b /\ One(sendQueue, b) => None(sendQueue', b)
    BY <1>1, PopCount DEF QueuesTyped
  <2>3. /\ Head(sendQueue) # b => (None(info, b) => None(info', b)) /\ (One(info, b) => One(info', b))
        /\ Head(sendQueue) = b /\ None(info, b) => One(info', b)
    <3>1. t \in DOMAIN info /\ info' = [info EXCEPT ![t] = Head(sendQueue)]
      BY <1>1, <1>2 DEF QueuesTyped
    <3>2. QED
      BY <2>1, <3>1, HandCount
  <2>4. OnePlace(b)
    BY <1>1
  <2>5. QED
    BY <1>1, <2>2, <2>3, <2>4 DEF OnePlace
<1>5. QED
  BY <1>3, <1>4 DEF QueuesInv

(* A thread pushes its entry.                                                *)
LEMMA MakeMsgCounts ==
  ASSUME QueuesInv, NEW t \in Workers, MakeMsg(t)
  PROVE  QueuesInv'
<1> USE DEF MakeMsg
<1>1. QueuesTyped /\ proc' = "run" /\ makeQueue' = makeQueue /\ \A b \in Bots : OnePlace(b)
  BY DEF QueuesInv
<1>2. info[t] \in Socks
  BY Markers
<1>3. QueuesTyped'
  BY <1>1, <1>2, PushCount DEF QueuesTyped
<1>4. ASSUME NEW b \in Bots PROVE OnePlace(b)'
  <2>1. Nobody # b
    BY Markers
  <2>2. /\ info[t] # b /\ None(sendQueue, b) => None(sendQueue', b)
        /\ info[t] # b /\ One(sendQueue, b) => One(sendQueue', b)
        /\ info[t] = b /\ None(sendQueue, b) => One(sendQueue', b)
    BY <1>1, <1>2, PushCount DEF QueuesTyped
  <2>3. /\ info[t] # b => (None(info, b) => None(info', b)) /\ (One(info, b) => One(info', b))
        /\ info[t] = b /\ One(info, b) => None(info', b)
        /\ None(info, b) => info[t] # b
    <3>1. t \in DOMAIN info /\ info' = [info EXCEPT ![t] = Nobody]
      BY <1>1, <1>2 DEF QueuesTyped
    <3>2. QED
      BY <2>1, <3>1, HandCount
  <2>4. OnePlace(b)
    BY <1>1
  <2>5. QED
    BY <1>1, <2>2, <2>3, <2>4 DEF OnePlace
<1>5. QED
  BY <1>3, <1>4 DEF QueuesInv

(* SendMsg gives the command back to makeQueue.                              *)
LEMMA SendMsgCounts ==
  ASSUME QueuesInv, NEW t \in Workers, SendMsg(t)
  PROVE  QueuesInv'
<1> USE DEF SendMsg
<1>1. QueuesTyped /\ proc' = "run" /\ sendQueue' = sendQueue /\ \A b \in Bots : OnePlace(b)
  BY DEF QueuesInv
<1>2. info[t] \in Socks
  BY <1>1 DEF QueuesTyped
<1>3. QueuesTyped'
  BY <1>1, <1>2, PushCount DEF QueuesTyped
<1>4. ASSUME NEW b \in Bots PROVE OnePlace(b)'
  <2>1. Nobody # b
    BY Markers
  <2>2. /\ info[t] # b /\ None(makeQueue, b) => None(makeQueue', b)
        /\ info[t] # b /\ One(makeQueue, b) => One(makeQueue', b)
        /\ info[t] = b /\ None(makeQueue, b) => One(makeQueue', b)
    BY <1>1, <1>2, PushCount DEF QueuesTyped
  <2>3. /\ info[t] # b => (None(info, b) => None(info', b)) /\ (One(info, b) => One(info', b))
        /\ info[t] = b /\ One(info, b) => None(info', b)
        /\ None(info, b) => info[t] # b
    <3>1. t \in DOMAIN info /\ info' = [info EXCEPT ![t] = Nobody]
      BY <1>1, <1>2 DEF QueuesTyped
    <3>2. QED
      BY <2>1, <3>1, HandCount
  <2>4. OnePlace(b)
    BY <1>1
  <2>5. QED
    BY <1>1, <2>2, <2>3, <2>4 DEF OnePlace
<1>5. QED
  BY <1>3, <1>4 DEF QueuesInv

(* A pop from an empty queue brings an entry that is no bot's, into hands    *)
(* that were empty.                                                          *)
LEMMA PopGarbageCounts ==
  ASSUME QueuesInv, NEW t \in Workers, PopMakeGarbage(t) \/ PopSendGarbage(t)
  PROVE  QueuesInv'
<1> USE DEF PopMakeGarbage, PopSendGarbage
<1>1. /\ QueuesTyped /\ proc' = "run" /\ makeQueue' = makeQueue /\ sendQueue' = sendQueue
      /\ t \in fresh /\ fresh' = fresh \ {t} /\ info' = [info EXCEPT ![t] = Garbage]
      /\ \A b \in Bots : OnePlace(b)
  BY DEF QueuesInv
<1>2. QueuesTyped'
  BY <1>1, Markers DEF QueuesTyped
<1>3. ASSUME NEW b \in Bots PROVE OnePlace(b)'
  <2>1. Garbage # b /\ info[t] # b /\ Garbage \in Socks
    BY <1>1, Markers DEF QueuesTyped
  <2>2. (None(info, b) => None(info', b)) /\ (One(info, b) => One(info', b))
    <3>1. t \in DOMAIN info
      BY <1>1, <2>1 DEF QueuesTyped
    <3>2. QED
      BY <1>1, <2>1, <3>1, HandCount
  <2>3. OnePlace(b)
    BY <1>1
  <2>4. QED
    BY <1>1, <2>2, <2>3 DEF OnePlace
<1>4. QED
  BY <1>2, <1>3 DEF QueuesInv

(* A process that has ended has nothing in its queues.                       *)
LEMMA EndCounts ==
  ASSUME End("exited") \/ End("crashed")
  PROVE  QueuesInv'
<1>1. /\ makeQueue' = <<>> /\ sendQueue' = <<>> /\ fresh' = {}
      /\ info' = [t \in Workers |-> Nobody] /\ proc' # "run"
  BY DEF End
<1>2. QueuesTyped'
  BY <1>1 DEF QueuesTyped
<1>3. QED
  BY <1>1, <1>2 DEF QueuesInv

(* A step that touches no queue keeps the invariant.                         *)
LEMMA QueuesUntouched ==
  ASSUME QueuesInv, UNCHANGED <<proc, queues>>
  PROVE  QueuesInv'
BY DEF QueuesInv, QueuesTyped, OnePlace, queues

(* Every step keeps the invariant of the queues.                             *)
LEMMA QueuesNext == QueuesInv /\ [Next]_vars => QueuesInv'
<1> SUFFICES ASSUME QueuesInv, [Next]_vars PROVE QueuesInv'
  OBVIOUS
<1>1. ASSUME NEW t \in Makers, MakerStep(t) \/ PopMakeGarbage(t) PROVE QueuesInv'
  BY <1>1, PopMakeCounts, MakeMsgCounts, PopGarbageCounts, EndCounts DEF MakerStep, ReadGarbage, Workers
<1>2. ASSUME NEW t \in Senders, SenderStep(t) \/ PopSendGarbage(t) PROVE QueuesInv'
  BY <1>2, PopSendCounts, SendMsgCounts, PopGarbageCounts DEF SenderStep, Workers
<1>3. ASSUME NEW r \in Receivers, ReceiverStep(r) PROVE QueuesInv'
  BY <1>3, QueuesUntouched DEF ReceiverStep, Completion, CopyMap, SetClientMap
<1>4. ASSUME NEW b \in Bots, NEW s \in Statuses, Reply(b, s) PROVE QueuesInv'
  BY <1>4, QueuesUntouched DEF Reply
<1>5. CASE Disconnect
  BY <1>5, EndCounts DEF Disconnect
<1>6. CASE UNCHANGED vars
  BY <1>6, QueuesUntouched DEF vars
<1>7. QED
  BY <1>1, <1>2, <1>3, <1>4, <1>5, <1>6 DEF Next

(* As many entries as the disjunct that holds says.                          *)
LEMMA CountsAre ==
  ASSUME NEW q, NEW b
  PROVE  /\ None(q, b) => Cardinality({i \in DOMAIN q : q[i] = b}) = 0
         /\ One(q, b) => Cardinality({i \in DOMAIN q : q[i] = b}) = 1
<1>1. ASSUME None(q, b) PROVE Cardinality({i \in DOMAIN q : q[i] = b}) = 0
  <2>1. {i \in DOMAIN q : q[i] = b} = {}
    BY <1>1 DEF None
  <2>2. QED
    BY <2>1, FS_EmptySet
<1>2. ASSUME One(q, b) PROVE Cardinality({i \in DOMAIN q : q[i] = b}) = 1
  <2>1. PICK i \in DOMAIN q : q[i] = b /\ \A j \in DOMAIN q : q[j] = b => j = i
    BY <1>2 DEF One
  <2>2. {j \in DOMAIN q : q[j] = b} = {i}
    BY <2>1
  <2>3. QED
    BY <2>2, FS_Singleton
<1>3. QED
  BY <1>1, <1>2

(* With that every bot has its command in one place.                         *)
LEMMA OncePlaced == QueuesInv => EveryBotOnce
<1> SUFFICES ASSUME QueuesInv, proc = "run", NEW b \in Bots PROVE Places(b) = 1
  BY DEF EveryBotOnce
<1>1. OnePlace(b) /\ DOMAIN info = Workers
  BY DEF QueuesInv, QueuesTyped
<1>2. /\ None(makeQueue, b) => Cardinality({i \in DOMAIN makeQueue : makeQueue[i] = b}) = 0
      /\ One(makeQueue, b) => Cardinality({i \in DOMAIN makeQueue : makeQueue[i] = b}) = 1
      /\ None(sendQueue, b) => Cardinality({i \in DOMAIN sendQueue : sendQueue[i] = b}) = 0
      /\ One(sendQueue, b) => Cardinality({i \in DOMAIN sendQueue : sendQueue[i] = b}) = 1
      /\ None(info, b) => Cardinality({t \in Workers : info[t] = b}) = 0
      /\ One(info, b) => Cardinality({t \in Workers : info[t] = b}) = 1
  BY <1>1, CountsAre
<1>3. QED
  BY <1>1, <1>2 DEF Places, OnePlace

(* The INFO_CLIENT of every bot is in exactly one place, makeQueue,          *)
(* sendQueue or the hands of one MakeMsgThread or SendMsgThread, for any     *)
(* number of each and whatever entries of no bot are popped from empty       *)
(* queues and pushed after them, as long as the process runs.                *)
THEOREM BotsKeepOneEntry == Spec => []EveryBotOnce
<1>1. Init => QueuesInv
  BY QueuesInit
<1>2. QueuesInv /\ [Next]_vars => QueuesInv'
  BY QueuesNext
<1>3. QueuesInv => EveryBotOnce
  BY OncePlaced
<1>4. QED
  BY <1>1, <1>2, <1>3, PTL DEF Spec

-----------------------------------------------------------------------------
(* The replies.                                                              *)

ReceivesTyped ==
  /\ clientMap \in [Bots -> Statuses] /\ latest \in [Bots -> Statuses]
  /\ userCs \in Receivers \cup {Nobody}
  /\ arriving \in [Bots -> Seq(Statuses)]
  /\ \A b \in Bots : Len(arriving[b]) <= MaxReplies[b]
  /\ posted \subseteq Bots
  /\ reading \in [Receivers -> [sock : Bots \cup {Nobody}, left : Seq(Statuses)]]
  /\ copy \in [Receivers -> [Bots -> Statuses] \cup {NoCopy}]

(* A thread reads for a bot that has no outstanding receive, and no other    *)
(* thread does.                                                              *)
OneReader ==
  /\ \A r \in Receivers : IF reading[r].left = <<>> THEN reading[r] = NotReading
                                                    ELSE reading[r].sock \in Bots \ posted
  /\ \A r, q \in Receivers : reading[r].sock = reading[q].sock /\ reading[r].sock # Nobody => r = q

(* A copy of the map is held in userCs, and is still what the map is.        *)
CopyIsCurrent ==
  \A r \in Receivers : copy[r] # NoCopy => userCs = r /\ copy[r] = clientMap /\ reading[r].left # <<>>

(* The last status sent to a bot is the last of those that arrive, else the  *)
(* last of those that are read, else the one in the map.                     *)
LastOf(s) == s[Len(s)]
LastUnderWay ==
  /\ \A b \in Bots : arriving[b] # <<>> => LastOf(arriving[b]) = latest[b]
  /\ \A b \in Bots : arriving[b] = <<>> /\ b \in posted => clientMap[b] = latest[b]
  /\ \A r \in Receivers : reading[r].left # <<>> /\ arriving[reading[r].sock] = <<>>
                            => LastOf(reading[r].left) = latest[reading[r].sock]

ReceivesInv == ReceivesTyped /\ OneReader /\ CopyIsCurrent /\ LastUnderWay

(* At first nothing has arrived and no thread reads.                         *)
LEMMA ReceivesInit == Init => ReceivesInv
<1> SUFFICES ASSUME Init PROVE ReceivesInv
  OBVIOUS
<1> USE DEF Init
<1>1. ReceivesTyped
  BY BotAssumption DEF ReceivesTyped, NotReading, Statuses
<1>2. OneReader
  BY DEF OneReader, NotReading
<1>3. CopyIsCurrent
  BY DEF CopyIsCurrent
<1>4. LastUnderWay
  BY DEF LastUnderWay, NotReading
<1>5. QED
  BY <1>1, <1>2, <1>3, <1>4 DEF ReceivesInv

(* A process that has ended reads nothing more.                              *)
LEMMA EndReceives ==
  ASSUME ReceivesInv, End("exited") \/ End("crashed")
  PROVE  ReceivesInv'
<1>1. /\ clientMap' = latest /\ userCs' = Nobody /\ latest' = latest
      /\ arriving' = [b \in Bots |-> <<>>] /\ posted' = {}
      /\ reading' = [r \in Receivers |-> NotReading]
      /\ copy' = [r \in Receivers |-> NoCopy]
  BY DEF End
<1>2. latest \in [Bots -> Statuses]
  BY DEF ReceivesInv, ReceivesTyped
<1>3. ReceivesTyped'
  BY <1>1, <1>2, BotAssumption DEF ReceivesTyped, NotReading
<1>4. OneReader'
  BY <1>1 DEF OneReader, NotReading
<1>5. CopyIsCurrent'
  BY <1>1 DEF CopyIsCurrent
<1>6. LastUnderWay'
  BY <1>1 DEF LastUnderWay, NotReading
<1>7. QED
  BY <1>3, <1>4, <1>5, <1>6 DEF ReceivesInv

(* A step that touches neither the map nor the receives keeps the invariant. *)
LEMMA ReceivesUntouched ==
  ASSUME ReceivesInv, UNCHANGED <<clientMap, userCs, receives>>
  PROVE  ReceivesInv'
BY DEF ReceivesInv, ReceivesTyped, OneReader, CopyIsCurrent, LastUnderWay, receives

(* The server sends a status: it is the last one that arrives.               *)
LEMMA ReplyReceives ==
  ASSUME ReceivesInv, NEW b \in Bots, NEW s \in Statuses, Reply(b, s)
  PROVE  ReceivesInv'
<1> USE DEF Reply
<1>1. ReceivesTyped /\ OneReader /\ CopyIsCurrent /\ LastUnderWay
  BY DEF ReceivesInv
<1>2. arriving[b] \in Seq(Statuses) /\ Len(arriving[b]) < MaxReplies[b] /\ MaxReplies[b] \in Nat
  BY <1>1, BotAssumption DEF ReceivesTyped
<1>3. PICK a \in Seq(Statuses) : a = Append(arriving[b], s)
  <2>1. Append(arriving[b], s) \in Seq(Statuses)
    BY <1>2
  <2>2. QED
    BY <2>1
<1>4. Len(a) <= MaxReplies[b] /\ a # <<>> /\ LastOf(a) = s
  BY <1>2, <1>3 DEF LastOf
<1>5. /\ arriving' = [arriving EXCEPT ![b] = a] /\ latest' = [latest EXCEPT ![b] = s]
      /\ UNCHANGED <<clientMap, userCs, posted, reading, copy>>
  BY <1>1, <1>3 DEF ReceivesTyped
<1>6. ReceivesTyped'
  BY <1>1, <1>4, <1>5 DEF ReceivesTyped
<1>7. OneReader' /\ CopyIsCurrent'
  BY <1>1, <1>5 DEF OneReader, CopyIsCurrent
<1>8. LastUnderWay'
  <2>1. \A c \in Bots : /\ arriving'[c] = IF c = b THEN a ELSE arriving[c]
                        /\ latest'[c] = IF c = b THEN s ELSE latest[c]
    BY <1>1, <1>5 DEF ReceivesTyped
  <2>2. \A r \in Receivers : reading[r].left # <<>> => reading[r].sock \in Bots
    BY <1>1 DEF OneReader
  <2>3. QED
    BY <1>1, <1>4, <1>5, <2>1, <2>2 DEF LastUnderWay
<1>9. QED
  BY <1>6, <1>7, <1>8 DEF ReceivesInv

(* The first n statuses go to the thread, the others stay.                   *)
LEMMA Cut ==
  ASSUME NEW S, NEW s \in Seq(S), NEW n \in 1 .. Len(s)
  PROVE  /\ SubSeq(s, 1, n) \in Seq(S) /\ SubSeq(s, 1, n) # <<>>
         /\ SubSeq(s, n + 1, Len(s)) \in Seq(S) /\ Len(SubSeq(s, n + 1, Len(s))) <= Len(s)
         /\ IF SubSeq(s, n + 1, Len(s)) = <<>> THEN LastOf(SubSeq(s, 1, n)) = LastOf(s)
                                               ELSE LastOf(SubSeq(s, n + 1, Len(s))) = LastOf(s)
<1>1. Len(s) \in Nat /\ n \in Nat /\ n <= Len(s) /\ n >= 1
  OBVIOUS
<1>2. /\ SubSeq(s, 1, n) \in Seq(S) /\ Len(SubSeq(s, 1, n)) = n
      /\ \A i \in 1 .. n : SubSeq(s, 1, n)[i] = s[i]
  BY <1>1
<1>3. PICK m \in Nat : Len(s) = n + m
  <2>1. Len(s) - n \in Nat /\ Len(s) = n + (Len(s) - n)
    BY <1>1
  <2>2. QED
    BY <2>1
<1>4. /\ SubSeq(s, n + 1, Len(s)) \in Seq(S) /\ Len(SubSeq(s, n + 1, Len(s))) = m
      /\ \A i \in 1 .. m : SubSeq(s, n + 1, Len(s))[i] = s[n + i]
  BY <1>1, <1>3, SubSeqProperties
<1>5. CASE m = 0
  BY <1>1, <1>2, <1>3, <1>4, <1>5 DEF LastOf
<1>6. CASE m > 0
  BY <1>1, <1>2, <1>3, <1>4, <1>6 DEF LastOf
<1>7. QED
  BY <1>5, <1>6

(* A completion gives statuses to one RecvThread; the bot has no receive     *)
(* until it is done.                                                         *)
LEMMA CompletionReceives ==
  ASSUME ReceivesInv, NEW r \in Receivers, NEW b \in Bots, NEW n \in Nat, Completion(r, b, n)
  PROVE  ReceivesInv'
<1> USE DEF Completion
<1>1. ReceivesTyped /\ OneReader /\ CopyIsCurrent /\ LastUnderWay
  BY DEF ReceivesInv
<1>2. /\ arriving[b] \in Seq(Statuses) /\ Len(arriving[b]) <= MaxReplies[b] /\ MaxReplies[b] \in Nat
      /\ n \in 1 .. Len(arriving[b])
  BY <1>1, BotAssumption DEF ReceivesTyped
<1>3. PICK x \in Seq(Statuses) : x = SubSeq(arriving[b], 1, n)
  BY <1>2, Cut
<1>4. PICK a \in Seq(Statuses) : a = SubSeq(arriving[b], n + 1, Len(arriving[b]))
  BY <1>2, Cut
<1>5. /\ x # <<>> /\ Len(a) <= Len(arriving[b])
      /\ IF a = <<>> THEN LastOf(x) = LastOf(arriving[b]) ELSE LastOf(a) = LastOf(arriving[b])
  BY <1>2, <1>3, <1>4, Cut
<1>6. LastOf(arriving[b]) = latest[b]
  <2>1. arriving[b] # <<>>
    BY <1>2
  <2>2. QED
    BY <1>1, <2>1 DEF LastUnderWay
<1>7. /\ reading' = [reading EXCEPT ![r] = [sock |-> b, left |-> x]]
      /\ arriving' = [arriving EXCEPT ![b] = a]
      /\ posted' = posted \ {b} /\ b \in posted /\ reading[r] = NotReading
      /\ UNCHANGED <<clientMap, userCs, copy, latest>>
  BY <1>1, <1>3, <1>4 DEF ReceivesTyped
<1>8. /\ \A c \in Bots : arriving'[c] = IF c = b THEN a ELSE arriving[c]
      /\ \A q \in Receivers : q # r => reading'[q] = reading[q]
      /\ reading'[r].sock = b /\ reading'[r].left = x
  <2>1. \A c \in Bots : arriving'[c] = IF c = b THEN a ELSE arriving[c]
    BY <1>1, <1>7 DEF ReceivesTyped
  <2>2. reading'[r] = [sock |-> b, left |-> x] /\ \A q \in Receivers : q # r => reading'[q] = reading[q]
    BY <1>1, <1>7 DEF ReceivesTyped
  <2>3. QED
    BY <2>1, <2>2
<1>9. \A q \in Receivers : reading[q].left # <<>> => reading[q].sock \in Bots /\ reading[q].sock # b
  BY <1>1, <1>7 DEF OneReader
<1>10. Len(a) <= MaxReplies[b]
  <2>1. Len(a) \in Nat /\ Len(arriving[b]) \in Nat
    BY <1>2
  <2>2. QED
    BY <1>2, <1>5, <2>1
<1>11. ReceivesTyped'
  BY <1>1, <1>7, <1>10 DEF ReceivesTyped
<1>12. OneReader'
  <2>1. \A q \in Receivers : reading[q].sock # b
    BY <1>1, <1>7, Markers DEF OneReader, NotReading
  <2>2. QED
    <3>1. \A q \in Receivers : IF reading'[q].left = <<>> THEN reading'[q] = NotReading
                                                         ELSE reading'[q].sock \in Bots \ posted'
      BY <1>1, <1>5, <1>7, <1>8 DEF OneReader
    <3>2. \A p, q \in Receivers : reading'[p].sock = reading'[q].sock /\ reading'[p].sock # Nobody => p = q
      BY <1>1, <1>8, <2>1 DEF OneReader
    <3>3. QED
      BY <3>1, <3>2 DEF OneReader
<1>13. CopyIsCurrent'
  <2>1. \A q \in Receivers : reading[q].left # <<>> => reading'[q].left # <<>>
    BY <1>5, <1>8
  <2>2. QED
    BY <1>1, <1>7, <2>1 DEF CopyIsCurrent
<1>14. LastUnderWay'
  <2>1. \A c \in Bots : /\ arriving'[c] # <<>> => LastOf(arriving'[c]) = latest[c]
                        /\ arriving'[c] = <<>> /\ c \in posted' => clientMap[c] = latest[c]
    BY <1>1, <1>5, <1>6, <1>7, <1>8 DEF LastUnderWay
  <2>2. ASSUME NEW q \in Receivers, reading'[q].left # <<>>, arriving'[reading'[q].sock] = <<>>
        PROVE  LastOf(reading'[q].left) = latest[reading'[q].sock]
    <3>1. CASE q = r
      <4>1. a = <<>> /\ reading'[q].left = x /\ reading'[q].sock = b
        BY <1>8, <2>2, <3>1
      <4>2. LastOf(x) = latest[b]
        BY <1>5, <1>6, <4>1
      <4>3. QED
        BY <4>1, <4>2
    <3>2. CASE q # r
      BY <1>1, <1>8, <1>9, <2>2, <3>2 DEF LastUnderWay
    <3>3. QED
      BY <3>1, <3>2
  <2>3. QED
    BY <1>7, <2>1, <2>2 DEF LastUnderWay
<1>15. QED
  BY <1>11, <1>12, <1>13, <1>14 DEF ReceivesInv

(* A RecvThread copies the map in userCs.                                    *)
LEMMA CopyMapReceives ==
  ASSUME ReceivesInv, NEW r \in Receivers, CopyMap(r)
  PROVE  ReceivesInv'
<1> USE DEF CopyMap
<1>1. ReceivesTyped /\ OneReader /\ CopyIsCurrent /\ LastUnderWay
  BY DEF ReceivesInv
<1>2. ReceivesTyped'
  BY <1>1 DEF ReceivesTyped
<1>3. OneReader' /\ LastUnderWay'
  BY <1>1 DEF OneReader, LastUnderWay
<1>4. CopyIsCurrent'
  <2>1. \A q \in Receivers : copy[q] = NoCopy
    BY <1>1, Markers DEF CopyIsCurrent
  <2>2. \A q \in Receivers : copy'[q] = IF q = r THEN clientMap ELSE NoCopy
    BY <1>1, <2>1 DEF ReceivesTyped
  <2>3. QED
    BY <2>2 DEF CopyIsCurrent
<1>5. QED
  BY <1>2, <1>3, <1>4 DEF ReceivesInv

(* One status less to read; the rest ends in the same.                       *)
LEMMA Rest ==
  ASSUME NEW S, NEW s \in Seq(S), s # <<>>
  PROVE  /\ Head(s) \in S /\ Tail(s) \in Seq(S)
         /\ IF Tail(s) = <<>> THEN LastOf(s) = Head(s) ELSE LastOf(Tail(s)) = LastOf(s)
<1>1. Len(s) \in Nat /\ Len(s) >= 1 /\ Head(s) = s[1] /\ Head(s) \in S /\ Tail(s) \in Seq(S)
  OBVIOUS
<1>2. PICK m \in Nat : Len(s) = m + 1
  <2>1. Len(s) - 1 \in Nat /\ Len(s) = (Len(s) - 1) + 1
    BY <1>1
  <2>2. QED
    BY <2>1
<1>3. Len(Tail(s)) = m /\ \A i \in 1 .. m : Tail(s)[i] = s[i + 1]
  BY <1>1, <1>2
<1>4. CASE m = 0
  <2>1. Tail(s) = <<>> /\ Len(s) = 1
    <3>1. Len(Tail(s)) = 0 /\ Len(s) = 1
      BY <1>2, <1>3, <1>4
    <3>2. QED
      BY <1>1, <3>1, EmptySeq
  <2>2. QED
    BY <1>1, <2>1 DEF LastOf
<1>5. CASE m > 0
  <2>1. Tail(s) # <<>> /\ m \in 1 .. m
    <3>1. Len(Tail(s)) # 0 /\ m \in 1 .. m
      BY <1>3, <1>5
    <3>2. QED
      BY <1>1, <3>1, EmptySeq
  <2>2. Tail(s)[m] = s[m + 1]
    BY <1>3, <2>1
  <2>3. QED
    BY <1>1, <1>2, <1>3, <2>1, <2>2 DEF LastOf
<1>6. QED
  BY <1>1, <1>4, <1>5

(* It stores the copy with one status changed, and posts a receive after the *)
(* last.                                                                     *)
LEMMA SetClientMapReceives ==
  ASSUME ReceivesInv, NEW r \in Receivers, SetClientMap(r)
  PROVE  ReceivesInv'
<1>1. ReceivesTyped /\ OneReader /\ CopyIsCurrent /\ LastUnderWay
  BY DEF ReceivesInv
<1>2. copy[r] # NoCopy /\ copy[r] = clientMap /\ reading[r].left # <<>> /\ userCs = r
  BY <1>1 DEF SetClientMap, CopyIsCurrent
<1>3. PICK b \in Bots : b = reading[r].sock /\ b \notin posted
  BY <1>1, <1>2 DEF OneReader
<1>4. PICK s \in Statuses : s = Head(reading[r].left)
  BY <1>1, <1>2, Rest DEF ReceivesTyped
<1>5. PICK left \in Seq(Statuses) : left = Tail(reading[r].left)
  BY <1>1, <1>2, Rest DEF ReceivesTyped
<1>6. PICK x \in [sock : Bots \cup {Nobody}, left : Seq(Statuses)] :
        /\ x = IF left = <<>> THEN NotReading ELSE [sock |-> b, left |-> left]
        /\ x.left = left
        /\ left # <<>> => x.sock = b
  <2>1. CASE left = <<>>
    <3>1. NotReading \in [sock : Bots \cup {Nobody}, left : Seq(Statuses)] /\ NotReading.left = <<>>
      BY DEF NotReading
    <3>2. QED
      BY <2>1, <3>1
  <2>2. CASE left # <<>>
    <3>1. PICK y \in [sock : Bots \cup {Nobody}, left : Seq(Statuses)] : y = [sock |-> b, left |-> left]
      OBVIOUS
    <3>2. y.left = left /\ y.sock = b
      BY <3>1
    <3>3. QED
      BY <2>2, <3>1, <3>2
  <2>3. QED
    BY <2>1, <2>2
<1>7. reading[r] = [sock |-> b, left |-> reading[r].left]
  BY <1>1, <1>3 DEF ReceivesTyped
<1>8. x = IF left = <<>> THEN NotReading ELSE [reading[r] EXCEPT !.left = left]
  BY <1>6, <1>7
<1>9. /\ clientMap' = [clientMap EXCEPT ![b] = s]
      /\ reading' = [reading EXCEPT ![r] = x]
      /\ posted' = IF left = <<>> THEN posted \cup {b} ELSE posted
      /\ copy' = [copy EXCEPT ![r] = NoCopy]
      /\ userCs' = Nobody
      /\ arriving' = arriving /\ latest' = latest
  BY <1>2, <1>3, <1>4, <1>5, <1>8 DEF SetClientMap
<1>10. /\ \A q \in Receivers : reading'[q] = IF q = r THEN x ELSE reading[q]
       /\ \A c \in Bots : clientMap'[c] = IF c = b THEN s ELSE clientMap[c]
       /\ \A q \in Receivers : copy'[q] = IF q = r THEN NoCopy ELSE copy[q]
  BY <1>1, <1>9 DEF ReceivesTyped
<1>11. ReceivesTyped'
  BY <1>1, <1>9, <1>6 DEF ReceivesTyped
<1>12. \A q \in Receivers : q # r => reading[q].sock # b
  BY <1>1, <1>3, Markers DEF OneReader
<1>13. OneReader'
  BY <1>1, <1>3, <1>6, <1>9, <1>10, <1>12, Markers DEF OneReader, NotReading
<1>14. CopyIsCurrent'
  <2>1. \A q \in Receivers : q # r => copy[q] = NoCopy
    BY <1>1, <1>2 DEF CopyIsCurrent
  <2>2. QED
    BY <1>10, <2>1 DEF CopyIsCurrent
<1>15. LastUnderWay'
  <2>1. arriving[b] = <<>> => IF left = <<>> THEN s = latest[b] ELSE LastOf(left) = latest[b]
    <3>1. reading[r].left \in Seq(Statuses)
      BY <1>1 DEF ReceivesTyped
    <3>2. IF left = <<>> THEN LastOf(reading[r].left) = s ELSE LastOf(left) = LastOf(reading[r].left)
      BY <1>2, <1>4, <1>5, <3>1, Rest
    <3>3. arriving[b] = <<>> => LastOf(reading[r].left) = latest[b]
      BY <1>1, <1>2, <1>3 DEF LastUnderWay
    <3>4. QED
      BY <3>2, <3>3
  <2>2. \A c \in Bots : arriving[c] = <<>> /\ c \in posted' => clientMap'[c] = latest[c]
    BY <1>1, <1>3, <1>9, <1>10, <2>1 DEF LastUnderWay
  <2>3. \A q \in Receivers : reading'[q].left # <<>> /\ arriving[reading'[q].sock] = <<>>
                               => LastOf(reading'[q].left) = latest[reading'[q].sock]
    BY <1>1, <1>6, <1>10, <2>1 DEF LastUnderWay, NotReading
  <2>4. QED
    BY <1>1, <1>9, <2>2, <2>3 DEF LastUnderWay
<1>16. QED
  BY <1>11, <1>13, <1>14, <1>15 DEF ReceivesInv

(* Every step keeps the invariant of the receives.                           *)
LEMMA ReceivesNext == ReceivesInv /\ [Next]_vars => ReceivesInv'
<1> SUFFICES ASSUME ReceivesInv, [Next]_vars PROVE ReceivesInv'
  OBVIOUS
<1>1. ASSUME NEW t \in Makers, MakerStep(t) \/ PopMakeGarbage(t) PROVE ReceivesInv'
  BY <1>1, EndReceives, ReceivesUntouched
     DEF MakerStep, ReadGarbage, PopMake, MakeMsg, PopMakeGarbage
<1>2. ASSUME NEW t \in Senders, SenderStep(t) \/ PopSendGarbage(t) PROVE ReceivesInv'
  BY <1>2, ReceivesUntouched DEF SenderStep, PopSend, SendMsg, PopSendGarbage
<1>3. ASSUME NEW r \in Receivers, ReceiverStep(r) PROVE ReceivesInv'
  <2>1. ASSUME NEW b \in Bots, NEW n \in 1 .. MaxReplies[b], Completion(r, b, n) PROVE ReceivesInv'
    <3>1. n \in Nat
      BY BotAssumption
    <3>2. QED
      BY <2>1, <3>1, CompletionReceives
  <2>2. QED
    BY <1>3, <2>1, CopyMapReceives, SetClientMapReceives DEF ReceiverStep
<1>4. ASSUME NEW b \in Bots, NEW s \in Statuses, Reply(b, s) PROVE ReceivesInv'
  BY <1>4, ReplyReceives
<1>5. CASE Disconnect
  BY <1>5, EndReceives DEF Disconnect
<1>6. CASE UNCHANGED vars
  BY <1>6, ReceivesUntouched DEF vars
<1>7. QED
  BY <1>1, <1>2, <1>3, <1>4, <1>5, <1>6 DEF Next

(* Once its replies have been read, a bot has the last status the server has *)
(* sent it: for any number of RecvMsgThreads, each of which copies and       *)
(* writes back the statuses of all bots.                                     *)
THEOREM NoStatusLost == Spec => []LastStatusKept
<1>1. Init => ReceivesInv
  BY ReceivesInit
<1>2. ReceivesInv /\ [Next]_vars => ReceivesInv'
  BY ReceivesNext
<1>3. ReceivesInv => LastStatusKept
  BY DEF ReceivesInv, LastUnderWay, LastStatusKept
<1>4. QED
  BY <1>1, <1>2, <1>3, PTL DEF Spec

(* The types of BotClient's variables, of which those of the queues and of   *)
(* the receives are parts of the invariants above.                           *)
THEOREM BotTypes == Spec => []TypeOK
<1> DEFINE ProcTyped == proc \in {"run", "exited", "crashed"}
           Inv == QueuesInv /\ ReceivesInv /\ ProcTyped
<1>1. Init => Inv
  BY QueuesInit, ReceivesInit DEF Init
<1>2. ProcTyped /\ [Next]_vars => ProcTyped'
  BY DEF vars, Next, MakerStep, SenderStep, ReceiverStep, PopMake, PopMakeGarbage, MakeMsg, ReadGarbage,
         PopSend, PopSendGarbage, SendMsg, Reply, Completion, CopyMap, SetClientMap, Disconnect, End
<1>3. Inv /\ [Next]_vars => Inv'
  BY <1>2, QueuesNext, ReceivesNext
<1>4. Inv => TypeOK
  BY DEF QueuesInv, QueuesTyped, ReceivesInv, ReceivesTyped, TypeOK
<1>5. QED
  BY <1>1, <1>3, <1>4, PTL DEF Spec
=============================================================================
