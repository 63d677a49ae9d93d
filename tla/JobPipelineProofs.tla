------------------------- MODULE JobPipelineProofs -------------------------
(***************************************************************************)
(* Theorems about JobPipeline for any number of connections, packets,       *)
(* RecvThreads and WorkThreads: no job is lost or run twice, the jobs of a  *)
(* connection stay in order, and CALLCOUNT counts each pushed job once.     *)
(* Then, about SendPath, for any number of producers, senders and replies:  *)
(* no reply is lost or sent twice on its way through the queues.  At last,  *)
(* about Accounts, what the handlers of the jobs do to the database.        *)
(***************************************************************************)
EXTENDS JobPipeline, SendPath, Accounts, FiniteSetTheorems, TLAPS

-----------------------------------------------------------------------------
(* What the queues of the server do to the set of their entries: push, pop,  *)
(* swap and whole batches, and how such sets are counted.                    *)

(* The elements of the sequences that the steps make.                        *)
LEMMA RangeEmpty == Range(<<>>) = {} /\ IsInjective(<<>>)
BY DEF Range, IsInjective

(* A push adds one element, at the end.                                      *)
LEMMA RangeAppend ==
  ASSUME NEW S, NEW s \in Seq(S), NEW m \in S
  PROVE  /\ Append(s, m) \in Seq(S)
         /\ Range(Append(s, m)) = Range(s) \cup {m}
         /\ IsInjective(s) /\ m \notin Range(s) => IsInjective(Append(s, m))
<1>1. /\ Append(s, m) \in Seq(S)
      /\ DOMAIN Append(s, m) = 1 .. Len(s) + 1
      /\ DOMAIN s = 1 .. Len(s) /\ Len(s) \in Nat
      /\ \A i \in 1 .. Len(s) : Append(s, m)[i] = s[i]
      /\ Append(s, m)[Len(s) + 1] = m
  OBVIOUS
<1>2. Range(Append(s, m)) = Range(s) \cup {m}
  BY <1>1 DEF Range
<1>3. ASSUME IsInjective(s), m \notin Range(s) PROVE IsInjective(Append(s, m))
  BY <1>1, <1>3 DEF Range, IsInjective
<1>4. QED
  BY <1>1, <1>2, <1>3

(* Of a sequence without repeats Tail removes just the head.                 *)
LEMMA RangeTail ==
  ASSUME NEW S, NEW s \in Seq(S), s # <<>>, IsInjective(s)
  PROVE  /\ Head(s) \in S /\ Head(s) \in Range(s)
         /\ Tail(s) \in Seq(S)
         /\ Range(Tail(s)) = Range(s) \ {Head(s)}
         /\ IsInjective(Tail(s))
<1>1. /\ Tail(s) \in Seq(S) /\ Head(s) = s[1] /\ Head(s) \in S
      /\ Len(s) \in Nat /\ Len(s) > 0
      /\ DOMAIN s = 1 .. Len(s) /\ DOMAIN Tail(s) = 1 .. Len(s) - 1
      /\ \A i \in 1 .. Len(s) - 1 : Tail(s)[i] = s[i + 1]
  OBVIOUS
<1>2. Head(s) \in Range(s)
  BY <1>1 DEF Range
<1>3. Range(Tail(s)) = Range(s) \ {Head(s)}
  <2>1. ASSUME NEW x \in Range(Tail(s)) PROVE x \in Range(s) \ {Head(s)}
    <3>1. PICK i \in 1 .. Len(s) - 1 : x = s[i + 1]
      BY <1>1 DEF Range
    <3>2. i + 1 \in DOMAIN s /\ 1 \in DOMAIN s /\ i + 1 # 1
      BY <1>1
    <3>3. QED
      BY <1>1, <3>1, <3>2 DEF Range, IsInjective
  <2>2. ASSUME NEW x \in Range(s), x # Head(s) PROVE x \in Range(Tail(s))
    <3>1. PICK i \in 1 .. Len(s) : x = s[i] /\ i # 1
      BY <1>1, <2>2 DEF Range
    <3>2. i - 1 \in 1 .. Len(s) - 1 /\ Tail(s)[i - 1] = x
      BY <1>1, <3>1
    <3>3. QED
      BY <1>1, <3>2 DEF Range
  <2>3. QED
    BY <2>1, <2>2
<1>4. IsInjective(Tail(s))
  <2>1. ASSUME NEW i \in 1 .. Len(s) - 1, NEW j \in 1 .. Len(s) - 1, Tail(s)[i] = Tail(s)[j] PROVE i = j
    <3>1. i + 1 \in DOMAIN s /\ j + 1 \in DOMAIN s /\ s[i + 1] = s[j + 1]
      BY <1>1, <2>1
    <3>2. i + 1 = j + 1
      BY <3>1 DEF IsInjective
    <3>3. QED
      BY <3>2
  <2>2. QED
    BY <1>1, <2>1 DEF IsInjective
<1>5. QED
  BY <1>1, <1>2, <1>3, <1>4

(* A batch is added at the end.                                              *)
LEMMA RangeConcat ==
  ASSUME NEW S, NEW s \in Seq(S), NEW t \in Seq(S)
  PROVE  /\ s \o t \in Seq(S)
         /\ Range(s \o t) = Range(s) \cup Range(t)
         /\ IsInjective(s) /\ IsInjective(t) /\ Range(s) \cap Range(t) = {} => IsInjective(s \o t)
<1>1. /\ s \o t \in Seq(S)
      /\ Len(s) \in Nat /\ Len(t) \in Nat
      /\ DOMAIN s = 1 .. Len(s) /\ DOMAIN t = 1 .. Len(t) /\ DOMAIN (s \o t) = 1 .. Len(s) + Len(t)
      /\ \A i \in 1 .. Len(s) : (s \o t)[i] = s[i]
      /\ \A i \in Len(s) + 1 .. Len(s) + Len(t) : (s \o t)[i] = t[i - Len(s)]
  OBVIOUS
<1>2. \A i \in 1 .. Len(t) : (s \o t)[Len(s) + i] = t[i] /\ Len(s) + i \in DOMAIN (s \o t)
  <2>1. ASSUME NEW i \in 1 .. Len(t) PROVE (s \o t)[Len(s) + i] = t[i] /\ Len(s) + i \in DOMAIN (s \o t)
    <3>1. Len(s) + i \in Len(s) + 1 .. Len(s) + Len(t) /\ Len(s) + i - Len(s) = i
      BY <1>1
    <3>2. QED
      BY <1>1, <3>1
  <2>2. QED
    BY <2>1
<1>3. Range(s \o t) = Range(s) \cup Range(t)
  <2>1. ASSUME NEW x \in Range(s \o t) PROVE x \in Range(s) \cup Range(t)
    <3>1. PICK i \in 1 .. Len(s) + Len(t) : x = (s \o t)[i]
      BY <1>1 DEF Range
    <3>2. CASE i <= Len(s)
      BY <1>1, <3>1, <3>2 DEF Range
    <3>3. CASE i > Len(s)
      <4>1. i \in Len(s) + 1 .. Len(s) + Len(t) /\ i - Len(s) \in 1 .. Len(t)
        BY <1>1, <3>3
      <4>2. x = t[i - Len(s)]
        BY <1>1, <3>1, <4>1
      <4>3. QED
        BY <1>1, <4>1, <4>2 DEF Range
    <3>4. QED
      BY <1>1, <3>2, <3>3
  <2>2. ASSUME NEW x \in Range(s) PROVE x \in Range(s \o t)
    <3>1. PICK i \in 1 .. Len(s) : x = s[i]
      BY <1>1 DEF Range
    <3>2. i \in DOMAIN (s \o t) /\ (s \o t)[i] = x
      BY <1>1, <3>1
    <3>3. QED
      BY <3>2 DEF Range
  <2>3. ASSUME NEW x \in Range(t) PROVE x \in Range(s \o t)
    <3>1. PICK i \in 1 .. Len(t) : x = t[i]
      BY <1>1 DEF Range
    <3>2. QED
      BY <1>2, <3>1 DEF Range
  <2>4. QED
    BY <2>1, <2>2, <2>3
<1>4. ASSUME IsInjective(s), IsInjective(t), Range(s) \cap Range(t) = {},
             NEW i \in 1 .. Len(s) + Len(t), NEW j \in 1 .. Len(s) + Len(t), (s \o t)[i] = (s \o t)[j]
      PROVE  i = j
  <2>1. CASE i <= Len(s) /\ j <= Len(s)
    BY <1>1, <1>4, <2>1 DEF IsInjective
  <2>2. CASE i > Len(s) /\ j > Len(s)
    <3>1. /\ i \in Len(s) + 1 .. Len(s) + Len(t) /\ j \in Len(s) + 1 .. Len(s) + Len(t)
          /\ i - Len(s) \in 1 .. Len(t) /\ j - Len(s) \in 1 .. Len(t)
      BY <1>1, <2>2
    <3>2. t[i - Len(s)] = t[j - Len(s)]
      BY <1>1, <1>4, <3>1
    <3>3. i - Len(s) = j - Len(s)
      BY <1>1, <1>4, <3>1, <3>2 DEF IsInjective
    <3>4. QED
      BY <1>1, <3>3
  <2>3. ASSUME NEW a \in 1 .. Len(s) + Len(t), NEW b \in 1 .. Len(s) + Len(t), a <= Len(s), b > Len(s),
               (s \o t)[a] = (s \o t)[b]
        PROVE  FALSE
    <3>1. a \in 1 .. Len(s) /\ b \in Len(s) + 1 .. Len(s) + Len(t) /\ b - Len(s) \in 1 .. Len(t)
      BY <1>1, <2>3
    <3>2. s[a] = t[b - Len(s)]
      BY <1>1, <2>3, <3>1
    <3>3. s[a] \in Range(s) /\ t[b - Len(s)] \in Range(t)
      BY <1>1, <3>1 DEF Range
    <3>4. QED
      BY <1>4, <3>2, <3>3
  <2>4. QED
    BY <1>1, <1>4, <2>1, <2>2, <2>3
<1>5. QED
  BY <1>1, <1>3, <1>4 DEF IsInjective

(* A set with at most one element has the cardinality that says whether it   *)
(* has one.                                                                  *)
LEMMA AtMostOne ==
  ASSUME NEW S, \A x, y \in S : x = y
  PROVE  Cardinality(S) = IF S = {} THEN 0 ELSE 1
<1>1. CASE S = {}
  BY <1>1, FS_EmptySet
<1>2. CASE S # {}
  <2>1. PICK x : x \in S
    BY <1>2
  <2>2. S = {x}
    BY <2>1
  <2>3. QED
    BY <1>2, <2>2, FS_Singleton
<1>3. QED
  BY <1>1, <1>2

(* A sequence without repeats has as many elements as its length says.       *)
LEMMA CardinalityOfRange ==
  ASSUME NEW S, NEW s \in Seq(S), IsInjective(s)
  PROVE  /\ IsFiniteSet(Range(s))
         /\ Cardinality(Range(s)) = Len(s) /\ Len(s) \in Nat
<1>1. Len(s) \in Nat /\ s \in [1 .. Len(s) -> Range(s)] /\ DOMAIN s = 1 .. Len(s)
  BY DEF Range
<1>2. s \in Bijection(1 .. Len(s), Range(s))
  BY <1>1 DEF Bijection, Injection, Surjection, Range
<1>3. ExistsBijection(1 .. Len(s), Range(s))
  BY <1>2 DEF ExistsBijection
<1>4. QED
  BY <1>1, <1>3, FS_CountingElements, FS_NatBijection

-----------------------------------------------------------------------------
(* JobPipeline.                                                              *)

Batch == [more : BOOLEAN, jobs : Seq(Jobs), conns : SUBSET Conns]

Typed ==
  /\ got \in [Conns -> Nat] /\ \A c \in Conns : got[c] <= MaxPacket[c]
  /\ armed \subseteq Conns
  /\ rpc \in [Receivers -> {"idle", "push", "notify", "recv"}]
  /\ batch \in [Receivers -> Batch]
  /\ jobQueue \in Seq(Jobs)
  /\ packetCnt \in Nat
  /\ wpc \in [Workers -> {"check", "wait", "work"}]
  /\ localQueue \in [Workers -> Seq(Jobs)]
  /\ running \in [Workers -> SUBSET Jobs]
  /\ done \subseteq Jobs
  /\ reported \in Nat

Received(j) == j[2] <= got[j[1]]

(* Where a job can be.  The batch counts until it has been pushed.           *)
InBatch(j, r) == rpc[r] = "push" /\ j \in Range(batch[r].jobs)
InQueue(j) == j \in Range(jobQueue)
InLocal(j, w) == j \in Range(localQueue[w])
Runs(j, w) == j \in running[w]

(* A received job is somewhere,                                              *)
Somewhere ==
  \A j \in Jobs :
    Received(j) <=> \/ \E r \in Receivers : InBatch(j, r)
                    \/ InQueue(j)
                    \/ \E w \in Workers : InLocal(j, w)
                    \/ \E w \in Workers : Runs(j, w)
                    \/ j \in done

(* and nowhere else.                                                         *)
NowhereElse ==
  \A j \in Jobs :
    /\ \A r \in Receivers : InBatch(j, r) =>
         /\ ~InQueue(j) /\ j \notin done
         /\ \A w \in Workers : ~InLocal(j, w) /\ ~Runs(j, w)
         /\ \A s \in Receivers : InBatch(j, s) => s = r
    /\ InQueue(j) => j \notin done /\ \A w \in Workers : ~InLocal(j, w) /\ ~Runs(j, w)
    /\ \A w \in Workers : InLocal(j, w) =>
         /\ j \notin done
         /\ \A v \in Workers : ~Runs(j, v) /\ (InLocal(j, v) => v = w)
    /\ \A w \in Workers : Runs(j, w) =>
         /\ j \notin done
         /\ \A v \in Workers : Runs(j, v) => v = w

(* A queue has no job twice.                                                 *)
NoRepeats ==
  /\ \A r \in Receivers : IsInjective(batch[r].jobs)
  /\ IsInjective(jobQueue)
  /\ \A w \in Workers : IsInjective(localQueue[w])

(* A WorkThread that goes to the queue has run all it had taken.             *)
TakenIsRun == \A w \in Workers : wpc[w] # "work" => localQueue[w] = <<>>

Once == Typed /\ Somewhere /\ NowhereElse /\ NoRepeats /\ TakenIsRun

(* A connection has one receive at a time as long as none ends inside a      *)
(* packet, and its jobs that are queued come before those of the batch.      *)
OneReceiver ==
  /\ \A r \in Receivers : rpc[r] = "recv" => ~batch[r].more
  /\ \A r \in Receivers : batch[r].more => batch[r].conns \subseteq Splitting
  /\ \A r \in Receivers : ~batch[r].more => batch[r].conns \cap armed = {}
  /\ \A r, s \in Receivers :
       (r # s /\ ~batch[r].more /\ ~batch[s].more) => batch[r].conns \cap batch[s].conns = {}
Before(S, T) ==
  \A i \in S, j \in T : (i[1] = j[1] /\ i[1] \notin Splitting) => i[2] < j[2]
BatchesInOrder ==
  \A r \in Receivers :
    /\ InOrder(batch[r].jobs)
    /\ \A j \in Range(batch[r].jobs) : j[1] \in batch[r].conns
    /\ rpc[r] = "push" => Before(Range(jobQueue), Range(batch[r].jobs))

Order == Once /\ OneReceiver /\ BatchesInOrder /\ QueuesInOrder

(* The jobs that have been pushed.                                           *)
Pushed == {j \in Jobs : Received(j) /\ \A r \in Receivers : ~InBatch(j, r)}
Count == Once /\ IsFiniteSet(Pushed) /\ packetCnt + reported = Cardinality(Pushed)

-----------------------------------------------------------------------------
(* A job is a connection and the number of a packet on it.                   *)
LEMMA JobsType ==
  /\ \A c \in Conns : \A n \in 1 .. MaxPacket[c] : <<c, n>> \in Jobs
  /\ \A j \in Jobs : j = <<j[1], j[2]>> /\ j[1] \in Conns /\ j[2] \in 1 .. MaxPacket[j[1]]
BY DEF Jobs

(* Nothing has been received at first.                                       *)
LEMMA InitOnce == Init => Once
<1> SUFFICES ASSUME Init PROVE Once
  OBVIOUS
<1>1. <<>> \in Seq(Jobs) /\ NoBatch \in Batch
  BY DEF NoBatch, Batch
<1>2. Typed
  BY <1>1, PipelineAssumption DEF Init, Typed
<1>3. /\ \A j \in Jobs, r \in Receivers : ~InBatch(j, r)
      /\ \A j \in Jobs : ~InQueue(j) /\ j \notin done
      /\ \A j \in Jobs, w \in Workers : ~InLocal(j, w) /\ ~Runs(j, w)
  BY RangeEmpty DEF Init, InBatch, InQueue, InLocal, Runs
<1>4. \A j \in Jobs : ~Received(j)
  BY JobsType, PipelineAssumption DEF Init, Received
<1>5. Somewhere /\ NowhereElse
  BY <1>3, <1>4 DEF Somewhere, NowhereElse
<1>6. NoRepeats /\ TakenIsRun
  BY RangeEmpty DEF Init, NoBatch, NoRepeats, TakenIsRun
<1>7. QED
  BY <1>2, <1>5, <1>6 DEF Once

(* The steps that move no job: waking, waiting, posting a receive.           *)
LEMMA NoJobMoves ==
  ASSUME Once, Typed', NoRepeats', TakenIsRun',
         UNCHANGED <<got, jobQueue, localQueue, running, done>>,
         \A j \in Jobs, r \in Receivers : InBatch(j, r)' <=> InBatch(j, r)
  PROVE  Once'
<1>1. /\ \A j \in Jobs : (Received(j)' <=> Received(j)) /\ (InQueue(j)' <=> InQueue(j)) /\ (j \in done' <=> j \in done)
      /\ \A j \in Jobs, w \in Workers : (InLocal(j, w)' <=> InLocal(j, w)) /\ (Runs(j, w)' <=> Runs(j, w))
  BY DEF Received, InQueue, InLocal, Runs
<1>2. Somewhere'
  BY <1>1 DEF Once, Somewhere
<1>3. NowhereElse'
  BY <1>1 DEF Once, NowhereElse
<1>4. QED
  BY <1>2, <1>3 DEF Once

(* A completion of k packets of connection c puts these jobs, in order, into *)
(* the batch of the RecvThread.                                              *)
New(j, c, k) == j[1] = c /\ got[c] < j[2] /\ j[2] <= got[c] + k
Completed(r, c, k, more) ==
  /\ rpc[r] = "idle" /\ c \in armed /\ got[c] \in Nat /\ k \in Nat
  /\ more => c \in Splitting
  /\ rpc'[r] = "push" /\ \A s \in Receivers \ {r} : rpc'[s] = rpc[s] /\ batch'[s] = batch[s]
  /\ got'[c] = got[c] + k /\ \A d \in Conns \ {c} : got'[d] = got[d]
  /\ batch'[r].more = more /\ batch'[r].conns = {c}
  /\ batch'[r].jobs = [i \in 1 .. k |-> <<c, got[c] + i>>]
  /\ \A j \in Jobs : j \in Range(batch'[r].jobs) <=> New(j, c, k)
  /\ Range(batch'[r].jobs) \subseteq Jobs
  /\ IsInjective(batch'[r].jobs)
  /\ armed' = IF more THEN armed ELSE armed \ {c}
  /\ UNCHANGED <<jobQueue, packetCnt, wpc, localQueue, running, done, reported>>
  /\ Typed'

(* That is what a completion does.                                           *)
LEMMA CompletionBatch ==
  ASSUME Once, NEW r \in Receivers, NEW c \in Conns, NEW more \in BOOLEAN, NEW k \in 0 .. MaxPacket[c],
         Completion(r, c, k, more)
  PROVE  Completed(r, c, k, more)
<1> DEFINE new == [i \in 1 .. k |-> <<c, got[c] + i>>]
<1>0. /\ rpc[r] = "idle" /\ c \in armed
      /\ more => c \in Splitting
      /\ got[c] + k <= MaxPacket[c]
      /\ got' = [got EXCEPT ![c] = got[c] + k]
      /\ armed' = IF more THEN armed ELSE armed \ {c}
      /\ batch' = [batch EXCEPT ![r] = [more |-> more, conns |-> {c}, jobs |-> new]]
      /\ rpc' = [rpc EXCEPT ![r] = "push"]
      /\ UNCHANGED <<jobQueue, packetCnt, wpc, localQueue, running, done, reported>>
  BY DEF Completion, workVars
<1>1. MaxPacket[c] \in Nat /\ k \in Nat /\ got[c] \in Nat
  BY PipelineAssumption DEF Once, Typed
<1>2. \A i \in 1 .. k : new[i] = <<c, got[c] + i>> /\ new[i] \in Jobs
  <2>1. ASSUME NEW i \in 1 .. k PROVE new[i] = <<c, got[c] + i>> /\ new[i] \in Jobs
    <3>1. got[c] + i \in 1 .. MaxPacket[c]
      BY <1>0, <1>1
    <3>2. QED
      BY <3>1, JobsType
  <2>2. QED
    BY <2>1
<1>3. new \in Seq(Jobs)
  BY <1>1, <1>2
<1>4. [more |-> more, conns |-> {c}, jobs |-> new] \in Batch
  <2> HIDE DEF new
  <2>1. QED
    BY <1>3 DEF Batch
<1>5. /\ rpc'[r] = "push" /\ \A s \in Receivers \ {r} : rpc'[s] = rpc[s] /\ batch'[s] = batch[s]
      /\ got'[c] = got[c] + k /\ \A d \in Conns \ {c} : got'[d] = got[d]
      /\ batch'[r] = [more |-> more, conns |-> {c}, jobs |-> new]
  <2> HIDE DEF new
  <2>1. QED
    BY <1>0 DEF Once, Typed
<1>6. batch'[r].more = more /\ batch'[r].conns = {c} /\ batch'[r].jobs = new
  <2> HIDE DEF new
  <2>1. QED
    BY <1>5
<1>7. \A j \in Jobs : j \in Range(new) <=> j[1] = c /\ got[c] < j[2] /\ j[2] <= got[c] + k
  <2>0. DOMAIN new = 1 .. k
    OBVIOUS
  <2>1. ASSUME NEW j \in Jobs, j \in Range(new) PROVE j[1] = c /\ got[c] < j[2] /\ j[2] <= got[c] + k
    <3>1. PICK i \in 1 .. k : j = new[i]
      BY <2>0, <2>1 DEF Range
    <3>2. j[1] = c /\ j[2] = got[c] + i
      BY <1>2, <3>1
    <3>3. QED
      BY <1>1, <3>2
  <2>2. ASSUME NEW j \in Jobs, j[1] = c, got[c] < j[2], j[2] <= got[c] + k PROVE j \in Range(new)
    <3>1. j = <<c, j[2]>> /\ j[2] \in Nat
      BY <1>1, <2>2, JobsType
    <3>2. j[2] - got[c] \in 1 .. k /\ got[c] + (j[2] - got[c]) = j[2]
      BY <1>1, <2>2, <3>1
    <3>3. new[j[2] - got[c]] = j
      BY <1>2, <3>1, <3>2
    <3>4. QED
      BY <2>0, <3>2, <3>3 DEF Range
  <2>3. QED
    BY <2>1, <2>2
<1>8. Range(new) \subseteq Jobs /\ IsInjective(new)
  <2>1. \A i, j \in 1 .. k : new[i] = new[j] => i = j
    <3>1. ASSUME NEW i \in 1 .. k, NEW j \in 1 .. k, new[i] = new[j] PROVE i = j
      <4>1. got[c] + i = got[c] + j
        BY <1>2, <3>1
      <4>2. QED
        BY <1>1, <4>1
    <3>2. QED
      BY <3>1
  <2>2. DOMAIN new = 1 .. k
    OBVIOUS
  <2>3. QED
    BY <1>2, <2>1, <2>2 DEF Range, IsInjective
<1>9. Typed'
  <2> HIDE DEF new
  <2>1. /\ got' \in [Conns -> Nat] /\ \A d \in Conns : got'[d] <= MaxPacket[d]
    BY <1>0, <1>1, <1>5 DEF Once, Typed
  <2>2. /\ batch' \in [Receivers -> Batch]
        /\ rpc' \in [Receivers -> {"idle", "push", "notify", "recv"}]
        /\ armed' \subseteq Conns
    BY <1>0, <1>4 DEF Once, Typed
  <2>3. QED
    BY <1>0, <2>1, <2>2 DEF Once, Typed
<1>10. QED
  <2> HIDE DEF new
  <2>1. QED
    BY <1>0, <1>1, <1>5, <1>6, <1>7, <1>8, <1>9 DEF new, Completed, New

(* These jobs were nowhere before.                                           *)
LEMMA CompletionOnce ==
  ASSUME Once, NEW r \in Receivers, NEW c \in Conns, NEW more \in BOOLEAN, NEW k \in 0 .. MaxPacket[c],
         Completion(r, c, k, more)
  PROVE  Once'
<1>a. Completed(r, c, k, more)
  BY CompletionBatch
<1>0. /\ rpc[r] = "idle" /\ got[c] \in Nat /\ k \in Nat
      /\ rpc'[r] = "push" /\ \A s \in Receivers \ {r} : rpc'[s] = rpc[s] /\ batch'[s] = batch[s]
      /\ got'[c] = got[c] + k /\ \A d \in Conns \ {c} : got'[d] = got[d]
      /\ \A j \in Jobs : j \in Range(batch'[r].jobs) <=> New(j, c, k)
      /\ IsInjective(batch'[r].jobs)
      /\ UNCHANGED <<jobQueue, packetCnt, wpc, localQueue, running, done, reported>>
      /\ Typed'
  BY <1>a DEF Completed
<1>1. \A j \in Jobs : (Received(j)' <=> Received(j) \/ New(j, c, k)) /\ ~(Received(j) /\ New(j, c, k))
  <2>1. ASSUME NEW j \in Jobs PROVE (Received(j)' <=> Received(j) \/ New(j, c, k)) /\ ~(Received(j) /\ New(j, c, k))
    <3>1. j[1] \in Conns /\ j[2] \in Nat /\ got[j[1]] \in Nat
      BY JobsType, PipelineAssumption DEF Once, Typed
    <3>2. CASE j[1] = c
      BY <1>0, <3>1, <3>2 DEF Received, New
    <3>3. CASE j[1] # c
      BY <1>0, <3>1, <3>3 DEF Received, New
    <3>4. QED
      BY <3>2, <3>3
  <2>2. QED
    BY <2>1
<1>2. \A j \in Jobs, s \in Receivers : InBatch(j, s)' <=> IF s = r THEN New(j, c, k) ELSE InBatch(j, s)
  <2>1. ASSUME NEW j \in Jobs, NEW s \in Receivers PROVE InBatch(j, s)' <=> IF s = r THEN New(j, c, k) ELSE InBatch(j, s)
    BY <1>0 DEF InBatch
  <2>2. QED
    BY <2>1
<1>3. \A j \in Jobs : ~InBatch(j, r)
  BY <1>0 DEF InBatch
<1>4. /\ \A j \in Jobs : (InQueue(j)' <=> InQueue(j)) /\ (j \in done' <=> j \in done)
      /\ \A j \in Jobs, w \in Workers : (InLocal(j, w)' <=> InLocal(j, w)) /\ (Runs(j, w)' <=> Runs(j, w))
  BY <1>0 DEF InQueue, InLocal, Runs
<1>5. Somewhere'
  <2>1. ASSUME NEW j \in Jobs
        PROVE  Received(j)' <=> \/ \E s \in Receivers : InBatch(j, s)'
                                \/ InQueue(j)'
                                \/ \E w \in Workers : InLocal(j, w)'
                                \/ \E w \in Workers : Runs(j, w)'
                                \/ j \in done'
    BY <1>1, <1>2, <1>3, <1>4 DEF Once, Somewhere
  <2>2. QED
    BY <2>1 DEF Somewhere
<1>6. \A j \in Jobs : New(j, c, k) => /\ \A s \in Receivers : ~InBatch(j, s)
                                /\ ~InQueue(j) /\ j \notin done
                                /\ \A w \in Workers : ~InLocal(j, w) /\ ~Runs(j, w)
  BY <1>1 DEF Once, Somewhere
<1>7. NowhereElse'
  BY <1>2, <1>3, <1>4, <1>6 DEF Once, NowhereElse
<1>8. NoRepeats' /\ TakenIsRun'
  BY <1>0 DEF Once, NoRepeats, TakenIsRun
<1>9. QED
  BY <1>0, <1>5, <1>7, <1>8 DEF Once

(* A push moves the batch to the end of jobQueue.                            *)
Moved(r) ==
  /\ rpc[r] = "push" /\ batch[r].jobs \in Seq(Jobs)
  /\ rpc'[r] = "notify" /\ \A s \in Receivers \ {r} : rpc'[s] = rpc[s]
  /\ packetCnt' = packetCnt + Len(batch[r].jobs)
  /\ jobQueue' = jobQueue \o batch[r].jobs
  /\ Range(jobQueue') = Range(jobQueue) \cup Range(batch[r].jobs)
  /\ Range(jobQueue) \cap Range(batch[r].jobs) = {}
  /\ Range(batch[r].jobs) \subseteq Jobs
  /\ IsInjective(jobQueue')
  /\ UNCHANGED <<got, armed, batch, wpc, localQueue, running, done, reported>>
  /\ Typed'

(* The elements of a sequence of jobs are jobs.                              *)
LEMMA RangeOfJobs == ASSUME NEW q \in Seq(Jobs) PROVE Range(q) \subseteq Jobs
BY DEF Range

(* A push does that: what is in the batch is not in jobQueue.                *)
LEMMA PushMoves == ASSUME Once, NEW r \in Receivers, Push(r) PROVE Moved(r)
<1>1. /\ rpc[r] = "push" /\ batch[r] \in Batch /\ jobQueue \in Seq(Jobs)
      /\ rpc' = [rpc EXCEPT ![r] = "notify"]
      /\ packetCnt' = packetCnt + Len(batch[r].jobs)
      /\ jobQueue' = jobQueue \o batch[r].jobs
      /\ UNCHANGED <<got, armed, batch, wpc, localQueue, running, done, reported>>
  BY DEF Push, workVars, Once, Typed
<1>2. batch[r].jobs \in Seq(Jobs)
  BY <1>1 DEF Batch
<1>3. Range(batch[r].jobs) \subseteq Jobs /\ Len(batch[r].jobs) \in Nat
  BY <1>2, RangeOfJobs
<1>4. Range(jobQueue) \cap Range(batch[r].jobs) = {}
  BY <1>1, <1>3 DEF Once, NowhereElse, InBatch, InQueue
<1>5. /\ jobQueue' \in Seq(Jobs)
      /\ Range(jobQueue') = Range(jobQueue) \cup Range(batch[r].jobs)
      /\ IsInjective(jobQueue')
  BY <1>1, <1>2, <1>4, RangeConcat DEF Once, NoRepeats
<1>6. rpc'[r] = "notify" /\ \A s \in Receivers \ {r} : rpc'[s] = rpc[s]
  BY <1>1 DEF Once, Typed
<1>7. Typed'
  <2>1. /\ rpc' \in [Receivers -> {"idle", "push", "notify", "recv"}]
        /\ packetCnt' \in Nat
    BY <1>1, <1>3 DEF Once, Typed
  <2>2. QED
    BY <1>1, <1>5, <2>1 DEF Once, Typed
<1>8. QED
  BY <1>1, <1>2, <1>3, <1>4, <1>5, <1>6, <1>7 DEF Moved

(* It keeps the invariant.                                                   *)
LEMMA PushOnce == ASSUME Once, NEW r \in Receivers, Push(r) PROVE Once'
<1>0. Moved(r)
  BY PushMoves
<1>1. /\ rpc[r] = "push" /\ rpc'[r] = "notify"
      /\ \A s \in Receivers \ {r} : rpc'[s] = rpc[s]
      /\ UNCHANGED <<got, armed, batch, wpc, localQueue, running, done, reported>>
      /\ Range(jobQueue') = Range(jobQueue) \cup Range(batch[r].jobs)
      /\ IsInjective(jobQueue') /\ Typed'
  BY <1>0 DEF Moved
<1>2. \A j \in Jobs, s \in Receivers : InBatch(j, s)' <=> InBatch(j, s) /\ s # r
  <2>1. ASSUME NEW j \in Jobs, NEW s \in Receivers PROVE InBatch(j, s)' <=> InBatch(j, s) /\ s # r
    BY <1>1 DEF InBatch
  <2>2. QED
    BY <2>1
<1>3. \A j \in Jobs : InQueue(j)' <=> InQueue(j) \/ InBatch(j, r)
  BY <1>1 DEF InQueue, InBatch
<1>4. /\ \A j \in Jobs : (Received(j)' <=> Received(j)) /\ (j \in done' <=> j \in done)
      /\ \A j \in Jobs, w \in Workers : (InLocal(j, w)' <=> InLocal(j, w)) /\ (Runs(j, w)' <=> Runs(j, w))
  BY <1>1 DEF Received, InLocal, Runs
<1>5. Somewhere'
  <2>1. ASSUME NEW j \in Jobs
        PROVE  Received(j)' <=> \/ \E s \in Receivers : InBatch(j, s)'
                                \/ InQueue(j)'
                                \/ \E w \in Workers : InLocal(j, w)'
                                \/ \E w \in Workers : Runs(j, w)'
                                \/ j \in done'
    BY <1>2, <1>3, <1>4 DEF Once, Somewhere
  <2>2. QED
    BY <2>1 DEF Somewhere
<1>6. NowhereElse'
  BY <1>2, <1>3, <1>4 DEF Once, NowhereElse
<1>7. NoRepeats' /\ TakenIsRun'
  BY <1>1 DEF Once, NoRepeats, TakenIsRun
<1>8. QED
  BY <1>1, <1>5, <1>6, <1>7 DEF Once

(* Notify and Recv change a batch that has been pushed.                      *)
Cleared(r) ==
  /\ rpc[r] # "push" /\ rpc'[r] # "push"
  /\ rpc'[r] = "recv" => ~batch'[r].more
  /\ \A s \in Receivers \ {r} : rpc'[s] = rpc[s] /\ batch'[s] = batch[s]
  /\ batch'[r].jobs = <<>>
  /\ \/ batch'[r].more = batch[r].more /\ batch'[r].conns = batch[r].conns
     \/ batch'[r] = NoBatch
  /\ UNCHANGED <<got, jobQueue, packetCnt, localQueue, running, done, reported>>
  /\ \A w \in Workers : wpc'[w] = wpc[w] \/ (wpc[w] = "wait" /\ wpc'[w] = "check")
  /\ Typed'

(* Notify does that,                                                         *)
LEMMA NotifyClears ==
  ASSUME Once, NEW r \in Receivers, Notify(r)
  PROVE  Cleared(r) /\ armed' = armed
<1>1. /\ rpc[r] = "notify" /\ batch[r] \in Batch
      /\ wpc' = [w \in Workers |-> IF wpc[w] = "wait" THEN "check" ELSE wpc[w]]
      /\ rpc' = [rpc EXCEPT ![r] = IF batch[r].more THEN "idle" ELSE "recv"]
      /\ batch' = [batch EXCEPT ![r] = IF batch[r].more THEN NoBatch ELSE [batch[r] EXCEPT !.jobs = <<>>]]
      /\ UNCHANGED <<got, armed, jobQueue, packetCnt, localQueue, running, done, reported>>
  BY DEF Notify, Once, Typed
<1> DEFINE b == IF batch[r].more THEN NoBatch ELSE [batch[r] EXCEPT !.jobs = <<>>]
<1>2. /\ b \in Batch /\ b.jobs = <<>>
      /\ ((b.more = batch[r].more /\ b.conns = batch[r].conns) \/ b = NoBatch)
      /\ ~b.more
  <2>1. <<>> \in Seq(Jobs)
    OBVIOUS
  <2>2. QED
    BY <1>1, <2>1 DEF Batch, NoBatch
<1>3. batch' = [batch EXCEPT ![r] = b]
  BY <1>1
<1> HIDE DEF b
<1>4. /\ batch'[r] = b
      /\ rpc'[r] \in {"idle", "recv"} /\ (rpc'[r] = "recv" => ~batch[r].more)
      /\ \A s \in Receivers \ {r} : rpc'[s] = rpc[s] /\ batch'[s] = batch[s]
  BY <1>1, <1>3 DEF Once, Typed
<1>5. Typed'
  <2>1. /\ rpc' \in [Receivers -> {"idle", "push", "notify", "recv"}]
        /\ wpc' \in [Workers -> {"check", "wait", "work"}]
        /\ batch' \in [Receivers -> Batch]
    BY <1>1, <1>2, <1>3 DEF Once, Typed
  <2>2. QED
    BY <1>1, <2>1 DEF Once, Typed
<1>6. QED
  BY <1>1, <1>2, <1>4, <1>5 DEF Cleared

(* and Recv, which asks for the next bytes as well.                          *)
LEMMA RecvClears ==
  ASSUME Once, NEW r \in Receivers, Recv(r)
  PROVE  Cleared(r) /\ armed' = armed \cup batch[r].conns /\ batch'[r] = NoBatch
<1>1. /\ rpc[r] = "recv" /\ batch[r] \in Batch
      /\ armed' = armed \cup batch[r].conns
      /\ batch' = [batch EXCEPT ![r] = NoBatch]
      /\ rpc' = [rpc EXCEPT ![r] = "idle"]
      /\ UNCHANGED <<got, jobQueue, packetCnt, wpc, localQueue, running, done, reported>>
  BY DEF Recv, workVars, Once, Typed
<1>2. NoBatch \in Batch /\ NoBatch.jobs = <<>>
  BY DEF NoBatch, Batch
<1>3. batch[r].conns \subseteq Conns
  BY <1>1 DEF Batch
<1>4. /\ batch'[r] = NoBatch /\ rpc'[r] = "idle"
      /\ \A s \in Receivers \ {r} : rpc'[s] = rpc[s] /\ batch'[s] = batch[s]
  BY <1>1 DEF Once, Typed
<1>5. Typed'
  BY <1>1, <1>2, <1>3 DEF Once, Typed
<1>6. QED
  BY <1>1, <1>2, <1>4, <1>5 DEF Cleared

(* The jobs of such a batch are elsewhere.                                   *)
LEMMA ClearedOnce == ASSUME Once, NEW r \in Receivers, Cleared(r) PROVE Once'
<1>1. \A j \in Jobs, s \in Receivers : InBatch(j, s)' <=> InBatch(j, s)
  <2>1. ASSUME NEW j \in Jobs, NEW s \in Receivers PROVE InBatch(j, s)' <=> InBatch(j, s)
    BY DEF Cleared, InBatch
  <2>2. QED
    BY <2>1
<1>2. NoRepeats' /\ TakenIsRun'
  BY RangeEmpty DEF Cleared, Once, NoRepeats, TakenIsRun
<1>3. QED
  BY <1>1, <1>2, NoJobMoves DEF Cleared

(* A WorkThread takes all of jobQueue; it had nothing left.                  *)
LEMMA TakeQueueOnce ==
  ASSUME Once, NEW w \in Workers, TakeQueue(w)
  PROVE  /\ Once'
         /\ jobQueue' = <<>> /\ localQueue'[w] = jobQueue
         /\ \A v \in Workers \ {w} : localQueue'[v] = localQueue[v]
<1>1. /\ wpc[w] = "check" /\ localQueue[w] = <<>> /\ jobQueue \in Seq(Jobs)
      /\ localQueue' = [localQueue EXCEPT ![w] = jobQueue]
      /\ jobQueue' = <<>>
      /\ wpc' = [wpc EXCEPT ![w] = "work"]
      /\ UNCHANGED <<got, armed, rpc, batch, packetCnt, running, done, reported>>
  BY DEF TakeQueue, recvVars, Once, Typed, TakenIsRun
<1>2. /\ localQueue'[w] = jobQueue /\ wpc'[w] = "work"
      /\ \A v \in Workers \ {w} : localQueue'[v] = localQueue[v] /\ wpc'[v] = wpc[v]
  BY <1>1 DEF Once, Typed
<1>3. Typed'
  BY <1>1 DEF Once, Typed
<1>4. /\ \A j \in Jobs : ~InQueue(j)' /\ ~InLocal(j, w)
      /\ \A j \in Jobs, v \in Workers : InLocal(j, v)' <=> IF v = w THEN InQueue(j) ELSE InLocal(j, v)
  <2>1. \A j \in Jobs : ~InQueue(j)' /\ ~InLocal(j, w)
    BY <1>1, RangeEmpty DEF InQueue, InLocal
  <2>2. ASSUME NEW j \in Jobs, NEW v \in Workers PROVE InLocal(j, v)' <=> IF v = w THEN InQueue(j) ELSE InLocal(j, v)
    BY <1>2 DEF InQueue, InLocal
  <2>3. QED
    BY <2>1, <2>2
<1>5. /\ \A j \in Jobs : (Received(j)' <=> Received(j)) /\ (j \in done' <=> j \in done)
      /\ \A j \in Jobs, r \in Receivers : InBatch(j, r)' <=> InBatch(j, r)
      /\ \A j \in Jobs, v \in Workers : Runs(j, v)' <=> Runs(j, v)
  BY <1>1 DEF Received, InBatch, Runs
<1>6. Somewhere'
  <2>1. ASSUME NEW j \in Jobs
        PROVE  Received(j)' <=> \/ \E s \in Receivers : InBatch(j, s)'
                                \/ InQueue(j)'
                                \/ \E v \in Workers : InLocal(j, v)'
                                \/ \E v \in Workers : Runs(j, v)'
                                \/ j \in done'
    BY <1>4, <1>5 DEF Once, Somewhere
  <2>2. QED
    BY <2>1 DEF Somewhere
<1>7. NowhereElse'
  BY <1>4, <1>5 DEF Once, NowhereElse
<1>8. NoRepeats'
  BY <1>1, <1>2, RangeEmpty DEF Once, NoRepeats
<1>9. TakenIsRun'
  BY <1>2 DEF Once, TakenIsRun
<1>10. QED
  BY <1>1, <1>2, <1>3, <1>6, <1>7, <1>8, <1>9 DEF Once

(* The next job of a WorkThread leaves its queue.                            *)
Popped(w, m) ==
  /\ m \in Jobs /\ m \in Range(localQueue[w])
  /\ localQueue[w] \in Seq(Jobs) /\ localQueue[w] # <<>>
  /\ wpc[w] = "work" /\ running[w] = {}
  /\ localQueue'[w] = Tail(localQueue[w])
  /\ localQueue' \in [Workers -> Seq(Jobs)]
  /\ Range(localQueue'[w]) = Range(localQueue[w]) \ {m}
  /\ IsInjective(localQueue'[w])
  /\ \A v \in Workers \ {w} : localQueue'[v] = localQueue[v]

(* It is the head of the queue, which has it once.                           *)
LEMMA NextJobPops ==
  ASSUME Once, NEW w \in Workers, NextJob(w), localQueue' = [localQueue EXCEPT ![w] = Tail(localQueue[w])]
  PROVE  Popped(w, Head(localQueue[w]))
<1>1. /\ localQueue[w] \in Seq(Jobs) /\ localQueue[w] # <<>> /\ IsInjective(localQueue[w])
      /\ wpc[w] = "work" /\ running[w] = {}
  BY DEF NextJob, Once, Typed, NoRepeats
<1>2. /\ Head(localQueue[w]) \in Jobs /\ Head(localQueue[w]) \in Range(localQueue[w])
      /\ Tail(localQueue[w]) \in Seq(Jobs)
      /\ Range(Tail(localQueue[w])) = Range(localQueue[w]) \ {Head(localQueue[w])}
      /\ IsInjective(Tail(localQueue[w]))
  BY <1>1, RangeTail
<1>3. /\ localQueue'[w] = Tail(localQueue[w])
      /\ localQueue' \in [Workers -> Seq(Jobs)]
      /\ \A v \in Workers \ {w} : localQueue'[v] = localQueue[v]
  BY <1>2 DEF Once, Typed
<1>4. QED
  BY <1>1, <1>2, <1>3 DEF Popped

(* DropJob and CallCount have it done at once.                               *)
LEMMA DoneOnce ==
  ASSUME Once, NEW w \in Workers, NEW m, Popped(w, m), done' = done \cup {m},
         UNCHANGED <<got, armed, rpc, batch, jobQueue, wpc, running>>,
         packetCnt' \in Nat, reported' \in Nat
  PROVE  Once'
<1>1. Typed'
  BY DEF Popped, Once, Typed
<1>2. \A j \in Jobs, v \in Workers : InLocal(j, v)' <=> InLocal(j, v) /\ ~(v = w /\ j = m)
  <2>1. ASSUME NEW j \in Jobs, NEW v \in Workers PROVE InLocal(j, v)' <=> InLocal(j, v) /\ ~(v = w /\ j = m)
    BY DEF InLocal, Popped
  <2>2. QED
    BY <2>1
<1>3. /\ \A j \in Jobs : (Received(j)' <=> Received(j)) /\ (InQueue(j)' <=> InQueue(j)) /\ (j \in done' <=> j \in done \/ j = m)
      /\ \A j \in Jobs, r \in Receivers : InBatch(j, r)' <=> InBatch(j, r)
      /\ \A j \in Jobs, v \in Workers : Runs(j, v)' <=> Runs(j, v)
      /\ InLocal(m, w) /\ m \in Jobs
  BY DEF Received, InBatch, InQueue, InLocal, Runs, Popped
<1>4. Somewhere'
  <2>1. ASSUME NEW j \in Jobs
        PROVE  Received(j)' <=> \/ \E s \in Receivers : InBatch(j, s)'
                                \/ InQueue(j)'
                                \/ \E v \in Workers : InLocal(j, v)'
                                \/ \E v \in Workers : Runs(j, v)'
                                \/ j \in done'
    BY <1>2, <1>3 DEF Once, Somewhere
  <2>2. QED
    BY <2>1 DEF Somewhere
<1>5. NowhereElse'
  BY <1>2, <1>3 DEF Once, NowhereElse
<1>6. NoRepeats' /\ TakenIsRun'
  BY DEF Popped, Once, NoRepeats, TakenIsRun
<1>7. QED
  BY <1>1, <1>4, <1>5, <1>6 DEF Once

(* StartJob has it run.                                                      *)
LEMMA StartOnce ==
  ASSUME Once, NEW w \in Workers, NEW m, Popped(w, m), running' = [running EXCEPT ![w] = {m}],
         UNCHANGED <<got, armed, rpc, batch, jobQueue, packetCnt, wpc, done, reported>>
  PROVE  Once'
<1>1. Typed'
  BY DEF Popped, Once, Typed
<1>2. \A j \in Jobs, v \in Workers : InLocal(j, v)' <=> InLocal(j, v) /\ ~(v = w /\ j = m)
  <2>1. ASSUME NEW j \in Jobs, NEW v \in Workers PROVE InLocal(j, v)' <=> InLocal(j, v) /\ ~(v = w /\ j = m)
    BY DEF InLocal, Popped
  <2>2. QED
    BY <2>1
<1>3. \A j \in Jobs, v \in Workers : Runs(j, v)' <=> Runs(j, v) \/ (v = w /\ j = m)
  <2>1. running'[w] = {m} /\ running[w] = {} /\ \A v \in Workers \ {w} : running'[v] = running[v]
    BY DEF Once, Typed, Popped
  <2>2. ASSUME NEW j \in Jobs, NEW v \in Workers PROVE Runs(j, v)' <=> Runs(j, v) \/ (v = w /\ j = m)
    BY <2>1 DEF Runs
  <2>3. QED
    BY <2>2
<1>4. /\ \A j \in Jobs : (Received(j)' <=> Received(j)) /\ (InQueue(j)' <=> InQueue(j)) /\ (j \in done' <=> j \in done)
      /\ \A j \in Jobs, r \in Receivers : InBatch(j, r)' <=> InBatch(j, r)
      /\ InLocal(m, w) /\ m \in Jobs
  BY DEF Received, InBatch, InQueue, InLocal, Popped
<1>5. Somewhere'
  <2>1. ASSUME NEW j \in Jobs
        PROVE  Received(j)' <=> \/ \E s \in Receivers : InBatch(j, s)'
                                \/ InQueue(j)'
                                \/ \E v \in Workers : InLocal(j, v)'
                                \/ \E v \in Workers : Runs(j, v)'
                                \/ j \in done'
    BY <1>2, <1>3, <1>4 DEF Once, Somewhere
  <2>2. QED
    BY <2>1 DEF Somewhere
<1>6. NowhereElse'
  BY <1>2, <1>3, <1>4 DEF Once, NowhereElse
<1>7. NoRepeats' /\ TakenIsRun'
  BY DEF Popped, Once, NoRepeats, TakenIsRun
<1>8. QED
  BY <1>1, <1>5, <1>6, <1>7 DEF Once

(* A handler that ends has its job done.                                     *)
LEMMA FinishOnce == ASSUME Once, NEW w \in Workers, FinishJob(w) PROVE Once'
<1>0. /\ done' = done \cup running[w]
      /\ running' = [running EXCEPT ![w] = {}]
      /\ UNCHANGED <<got, armed, rpc, batch, jobQueue, packetCnt, wpc, localQueue, reported>>
  BY DEF FinishJob, recvVars
<1>1. Typed'
  BY <1>0 DEF Once, Typed
<1>2. \A j \in Jobs, v \in Workers : Runs(j, v)' <=> Runs(j, v) /\ v # w
  <2>1. running'[w] = {} /\ \A v \in Workers \ {w} : running'[v] = running[v]
    BY <1>0 DEF Once, Typed
  <2>2. ASSUME NEW j \in Jobs, NEW v \in Workers PROVE Runs(j, v)' <=> Runs(j, v) /\ v # w
    BY <2>1 DEF Runs
  <2>3. QED
    BY <2>2
<1>3. /\ \A j \in Jobs : (Received(j)' <=> Received(j)) /\ (InQueue(j)' <=> InQueue(j)) /\ (j \in done' <=> j \in done \/ Runs(j, w))
      /\ \A j \in Jobs, r \in Receivers : InBatch(j, r)' <=> InBatch(j, r)
      /\ \A j \in Jobs, v \in Workers : InLocal(j, v)' <=> InLocal(j, v)
  BY <1>0 DEF Received, InBatch, InQueue, InLocal, Runs
<1>4. Somewhere'
  <2>1. ASSUME NEW j \in Jobs
        PROVE  Received(j)' <=> \/ \E s \in Receivers : InBatch(j, s)'
                                \/ InQueue(j)'
                                \/ \E v \in Workers : InLocal(j, v)'
                                \/ \E v \in Workers : Runs(j, v)'
                                \/ j \in done'
    BY <1>2, <1>3 DEF Once, Somewhere
  <2>2. QED
    BY <2>1 DEF Somewhere
<1>5. NowhereElse'
  BY <1>2, <1>3 DEF Once, NowhereElse
<1>6. NoRepeats' /\ TakenIsRun'
  BY <1>0 DEF Once, NoRepeats, TakenIsRun
<1>7. QED
  BY <1>1, <1>4, <1>5, <1>6 DEF Once

(* A WorkThread that waits, wakes or goes back to the queue moves no job.    *)
Idles(w) == Wait(w) \/ SpuriousWakeup(w) \/ BackToQueue(w)

(* It keeps the invariant.                                                   *)
LEMMA IdlesOnce ==
  ASSUME Once, NEW w \in Workers, Idles(w)
  PROVE  Once' /\ UNCHANGED <<got, armed, rpc, batch, jobQueue, packetCnt, localQueue, running, done, reported>>
<1>1. UNCHANGED <<got, armed, rpc, batch, jobQueue, packetCnt, localQueue, running, done, reported>>
  BY DEF Idles, Wait, SpuriousWakeup, BackToQueue, recvVars
<1>2. \/ wpc[w] # "work" /\ wpc' = [wpc EXCEPT ![w] = "wait"]
      \/ wpc[w] # "work" /\ wpc' = [wpc EXCEPT ![w] = "check"]
      \/ localQueue[w] = <<>> /\ wpc' = [wpc EXCEPT ![w] = "check"]
  BY DEF Idles, Wait, SpuriousWakeup, BackToQueue
<1>3. Typed' /\ TakenIsRun'
  BY <1>1, <1>2 DEF Once, Typed, TakenIsRun
<1>4. NoRepeats' /\ \A j \in Jobs, r \in Receivers : InBatch(j, r)' <=> InBatch(j, r)
  BY <1>1 DEF Once, NoRepeats, InBatch
<1>5. QED
  BY <1>1, <1>3, <1>4, NoJobMoves

-----------------------------------------------------------------------------
(* What a step does to the jobs.                                             *)
LEMMA NextCases ==
  ASSUME [Next]_vars
  PROVE  \/ \E r \in Receivers, c \in Conns, more \in BOOLEAN : \E k \in 0 .. MaxPacket[c] : Completion(r, c, k, more)
         \/ \E r \in Receivers : Push(r) \/ Notify(r) \/ Recv(r)
         \/ \E w \in Workers : TakeQueue(w) \/ DropJob(w) \/ CallCount(w) \/ StartJob(w) \/ FinishJob(w) \/ Idles(w)
         \/ UNCHANGED vars
BY DEF Next, Receive, RecvStep, WorkStep, Idles

(* CallCount moves the count to the answer, DropJob leaves it.               *)
LEMMA DropPops ==
  ASSUME Once, NEW w \in Workers, DropJob(w) \/ CallCount(w)
  PROVE  /\ Popped(w, Head(localQueue[w])) /\ done' = done \cup {Head(localQueue[w])}
         /\ UNCHANGED <<got, armed, rpc, batch, jobQueue, wpc, running>>
         /\ packetCnt' \in Nat /\ reported' \in Nat
         /\ packetCnt' + reported' = packetCnt + reported
<1>1. /\ NextJob(w) /\ localQueue' = [localQueue EXCEPT ![w] = Tail(localQueue[w])]
      /\ done' = done \cup {Head(localQueue[w])}
      /\ UNCHANGED <<got, armed, rpc, batch, jobQueue, wpc, running>>
      /\ \/ UNCHANGED <<packetCnt, reported>>
         \/ reported' = reported + packetCnt /\ packetCnt' = 0
  BY DEF DropJob, CallCount, recvVars
<1>2. packetCnt' \in Nat /\ reported' \in Nat /\ packetCnt' + reported' = packetCnt + reported
  BY <1>1 DEF Once, Typed
<1>3. QED
  BY <1>1, <1>2, NextJobPops

(* StartJob.                                                                 *)
LEMMA StartPops ==
  ASSUME Once, NEW w \in Workers, StartJob(w)
  PROVE  /\ Popped(w, Head(localQueue[w])) /\ running' = [running EXCEPT ![w] = {Head(localQueue[w])}]
         /\ UNCHANGED <<got, armed, rpc, batch, jobQueue, packetCnt, wpc, done, reported>>
BY NextJobPops DEF StartJob, recvVars

(* Every step keeps each job in one place.                                   *)
LEMMA NextOnce == Once /\ [Next]_vars => Once'
<1> SUFFICES ASSUME Once, [Next]_vars PROVE Once'
  OBVIOUS
<1>1. ASSUME NEW r \in Receivers, Push(r) \/ Notify(r) \/ Recv(r) PROVE Once'
  BY <1>1, PushOnce, NotifyClears, RecvClears, ClearedOnce
<1>2. ASSUME NEW w \in Workers, DropJob(w) \/ CallCount(w) PROVE Once'
  BY <1>2, DropPops, DoneOnce
<1>3. ASSUME NEW w \in Workers, StartJob(w) PROVE Once'
  BY <1>3, StartPops, StartOnce
<1>4. CASE UNCHANGED vars
  <2>1. UNCHANGED <<got, armed, rpc, batch, jobQueue, packetCnt, wpc, localQueue, running, done, reported>>
    BY <1>4 DEF vars, recvVars, workVars
  <2>2. Typed' /\ NoRepeats' /\ TakenIsRun' /\ \A j \in Jobs, r \in Receivers : InBatch(j, r)' <=> InBatch(j, r)
    BY <2>1 DEF Once, Typed, NoRepeats, TakenIsRun, InBatch
  <2>3. QED
    BY <2>1, <2>2, NoJobMoves
<1>5. QED
  BY <1>1, <1>2, <1>3, <1>4, NextCases, CompletionOnce, TakeQueueOnce, FinishOnce, IdlesOnce

(* That is an invariant of the specification.                                *)
THEOREM OnceInvariant == Spec => []Once
BY InitOnce, NextOnce, PTL DEF Spec

(* What the places of EveryJobOnce hold.                                     *)
LEMMA HeldFacts ==
  /\ \A r \in Receivers : Held(<<"batch", r>>) = Range(batch[r].jobs)
  /\ Held(<<"queue">>) = Range(jobQueue)
  /\ Held(<<"done">>) = done
  /\ \A w \in Workers : Held(<<"local", w>>) = Range(localQueue[w]) /\ Held(<<"running", w>>) = running[w]
BY DEF Held

(* A received job is in exactly one of the batches, the queue, the           *)
(* WorkThreads' queues, the running handlers and the finished jobs, and a    *)
(* job that was not received is in none: RecvThreads and WorkThreads lose    *)
(* and repeat no packet, for any number of them.                             *)
THEOREM JobsMoveOnce == Spec => []EveryJobOnce
<1>1. Once => EveryJobOnce
  <2> SUFFICES ASSUME Once, NEW j \in Jobs
               PROVE  Cardinality({p \in Places : j \in Held(p) /\ (p[1] = "batch" => rpc[p[2]] = "push")})
                        = IF j[2] <= got[j[1]] THEN 1 ELSE 0
    BY DEF EveryJobOnce
  <2> DEFINE at == {p \in Places : j \in Held(p) /\ (p[1] = "batch" => rpc[p[2]] = "push")}
  <2>1. /\ \A r \in Receivers : <<"batch", r>> \in at <=> InBatch(j, r)
        /\ <<"queue">> \in at <=> InQueue(j)
        /\ <<"done">> \in at <=> j \in done
        /\ \A w \in Workers : (<<"local", w>> \in at <=> InLocal(j, w)) /\ (<<"running", w>> \in at <=> Runs(j, w))
    <3>1. /\ \A r \in Receivers : <<"batch", r>> \in Places
          /\ <<"queue">> \in Places /\ <<"done">> \in Places
          /\ \A w \in Workers : <<"local", w>> \in Places /\ <<"running", w>> \in Places
      BY DEF Places
    <3>2. QED
      BY <3>1, HeldFacts DEF InBatch, InQueue, InLocal, Runs
  <2>2. ASSUME NEW p \in at
        PROVE  \/ \E r \in Receivers : p = <<"batch", r>>
               \/ p = <<"queue">> \/ p = <<"done">>
               \/ \E w \in Workers : p = <<"local", w>> \/ p = <<"running", w>>
    BY DEF Places
  <2> HIDE DEF at
  <2>3. \A p, q \in at : p = q
    <3> SUFFICES ASSUME NEW p \in at, NEW q \in at PROVE p = q
      OBVIOUS
    <3>0. /\ \A r \in Receivers : InBatch(j, r) =>
               /\ ~InQueue(j) /\ j \notin done
               /\ \A w \in Workers : ~InLocal(j, w) /\ ~Runs(j, w)
               /\ \A s \in Receivers : InBatch(j, s) => s = r
          /\ InQueue(j) => j \notin done /\ \A w \in Workers : ~InLocal(j, w) /\ ~Runs(j, w)
          /\ \A w \in Workers : InLocal(j, w) =>
               /\ j \notin done
               /\ \A v \in Workers : ~Runs(j, v) /\ (InLocal(j, v) => v = w)
          /\ \A w \in Workers : Runs(j, w) =>
               /\ j \notin done
               /\ \A v \in Workers : Runs(j, v) => v = w
      BY DEF Once, NowhereElse
    <3>1. ASSUME NEW r \in Receivers, p = <<"batch", r>> PROVE p = q
      <4>1. InBatch(j, r)
        BY <2>1, <3>1
      <4>2. /\ ~InQueue(j) /\ j \notin done
            /\ \A w \in Workers : ~InLocal(j, w) /\ ~Runs(j, w)
            /\ \A s \in Receivers : InBatch(j, s) => s = r
        BY <3>0, <4>1
      <4>3. QED
        BY <2>1, <2>2, <3>1, <4>2
    <3>2. CASE p = <<"queue">>
      <4>1. InQueue(j)
        BY <2>1, <3>2
      <4>2. /\ j \notin done
            /\ \A w \in Workers : ~InLocal(j, w) /\ ~Runs(j, w)
            /\ \A s \in Receivers : ~InBatch(j, s)
        BY <3>0, <4>1
      <4>3. QED
        BY <2>1, <2>2, <3>2, <4>2
    <3>3. CASE p = <<"done">>
      <4>1. j \in done
        BY <2>1, <3>3
      <4>2. /\ ~InQueue(j)
            /\ \A w \in Workers : ~InLocal(j, w) /\ ~Runs(j, w)
            /\ \A s \in Receivers : ~InBatch(j, s)
        BY <3>0, <4>1
      <4>3. QED
        BY <2>1, <2>2, <3>3, <4>2
    <3>4. ASSUME NEW w \in Workers, p = <<"local", w>> PROVE p = q
      <4>1. InLocal(j, w)
        BY <2>1, <3>4
      <4>2. /\ ~InQueue(j) /\ j \notin done
            /\ \A v \in Workers : ~Runs(j, v) /\ (InLocal(j, v) => v = w)
            /\ \A s \in Receivers : ~InBatch(j, s)
        BY <3>0, <4>1
      <4>3. QED
        BY <2>1, <2>2, <3>4, <4>2
    <3>5. ASSUME NEW w \in Workers, p = <<"running", w>> PROVE p = q
      <4>1. Runs(j, w)
        BY <2>1, <3>5
      <4>2. /\ ~InQueue(j) /\ j \notin done
            /\ \A v \in Workers : ~InLocal(j, v) /\ (Runs(j, v) => v = w)
            /\ \A s \in Receivers : ~InBatch(j, s)
        BY <3>0, <4>1
      <4>3. QED
        BY <2>1, <2>2, <3>5, <4>2
    <3>6. QED
      BY <2>2, <3>1, <3>2, <3>3, <3>4, <3>5
  <2>4. at = {} <=> ~Received(j)
    BY <2>1, <2>2 DEF Once, Somewhere
  <2>5. Cardinality(at) = IF at = {} THEN 0 ELSE 1
    BY <2>3, AtMostOne
  <2>6. Cardinality(at) = IF j[2] <= got[j[1]] THEN 1 ELSE 0
    BY <2>4, <2>5 DEF Received
  <2>7. QED
    BY <2>6 DEF at
<1>2. QED
  BY <1>1, OnceInvariant, PTL

-----------------------------------------------------------------------------
(* The order of jobs.  Of two queues in order, of which the first comes      *)
(* before the second, the concatenation is in order.                         *)
LEMMA InOrderConcat ==
  ASSUME NEW s \in Seq(Jobs), NEW t \in Seq(Jobs), InOrder(s), InOrder(t), Before(Range(s), Range(t))
  PROVE  InOrder(s \o t)
<1>1. /\ Len(s) \in Nat /\ Len(t) \in Nat
      /\ DOMAIN s = 1 .. Len(s) /\ DOMAIN t = 1 .. Len(t) /\ DOMAIN (s \o t) = 1 .. Len(s) + Len(t)
      /\ \A i \in 1 .. Len(s) : (s \o t)[i] = s[i]
      /\ \A i \in Len(s) + 1 .. Len(s) + Len(t) : (s \o t)[i] = t[i - Len(s)]
  OBVIOUS
<1> SUFFICES ASSUME NEW i \in 1 .. Len(s) + Len(t), NEW k \in 1 .. Len(s) + Len(t), i < k,
                    (s \o t)[i][1] = (s \o t)[k][1], (s \o t)[i][1] \notin Splitting
             PROVE  (s \o t)[i][2] < (s \o t)[k][2]
  BY <1>1 DEF InOrder
<1>2. CASE k <= Len(s)
  <2>1. i \in 1 .. Len(s) /\ k \in 1 .. Len(s)
    BY <1>1, <1>2
  <2>2. QED
    BY <1>1, <2>1 DEF InOrder
<1>3. CASE i > Len(s)
  <2>1. /\ i \in Len(s) + 1 .. Len(s) + Len(t) /\ k \in Len(s) + 1 .. Len(s) + Len(t)
        /\ i - Len(s) \in 1 .. Len(t) /\ k - Len(s) \in 1 .. Len(t) /\ i - Len(s) < k - Len(s)
    BY <1>1, <1>3
  <2>2. (s \o t)[i] = t[i - Len(s)] /\ (s \o t)[k] = t[k - Len(s)]
    BY <1>1, <2>1
  <2>3. i - Len(s) \in DOMAIN t /\ k - Len(s) \in DOMAIN t
    BY <1>1, <2>1
  <2>4. t[i - Len(s)][2] < t[k - Len(s)][2]
    BY <2>1, <2>2, <2>3 DEF InOrder
  <2>5. QED
    BY <2>2, <2>4
<1>4. CASE i <= Len(s) /\ k > Len(s)
  <2>1. i \in 1 .. Len(s) /\ k \in Len(s) + 1 .. Len(s) + Len(t) /\ k - Len(s) \in 1 .. Len(t)
    BY <1>1, <1>4
  <2>2. (s \o t)[i] = s[i] /\ (s \o t)[k] = t[k - Len(s)]
    BY <1>1, <2>1
  <2>3. s[i] \in Range(s) /\ t[k - Len(s)] \in Range(t)
    BY <1>1, <2>1 DEF Range
  <2>4. QED
    BY <2>2, <2>3 DEF Before
<1>5. QED
  BY <1>1, <1>2, <1>3, <1>4

(* A queue that loses its head, and an empty one, are in order.              *)
LEMMA InOrderTail ==
  ASSUME NEW s \in Seq(Jobs), s # <<>>, InOrder(s)
  PROVE  InOrder(Tail(s))
<1>1. /\ Len(s) \in Nat /\ DOMAIN s = 1 .. Len(s) /\ DOMAIN Tail(s) = 1 .. Len(s) - 1
      /\ \A i \in 1 .. Len(s) - 1 : Tail(s)[i] = s[i + 1]
  OBVIOUS
<1> SUFFICES ASSUME NEW i \in 1 .. Len(s) - 1, NEW k \in 1 .. Len(s) - 1, i < k,
                    Tail(s)[i][1] = Tail(s)[k][1], Tail(s)[i][1] \notin Splitting
             PROVE  Tail(s)[i][2] < Tail(s)[k][2]
  BY <1>1 DEF InOrder
<1>2. i + 1 \in DOMAIN s /\ k + 1 \in DOMAIN s /\ i + 1 < k + 1 /\ Tail(s)[i] = s[i + 1] /\ Tail(s)[k] = s[k + 1]
  BY <1>1
<1>3. QED
  BY <1>2 DEF InOrder

(* The empty queue.                                                          *)
LEMMA InOrderEmpty == InOrder(<<>>)
BY DEF InOrder

(* Nothing is queued at first.                                               *)
LEMMA InitOrder == Init => Order
<1> SUFFICES ASSUME Init PROVE Order
  OBVIOUS
<1>1. Once
  BY InitOnce
<1>2. OneReceiver
  BY DEF Init, NoBatch, OneReceiver
<1>3. BatchesInOrder
  BY RangeEmpty, InOrderEmpty DEF Init, NoBatch, BatchesInOrder
<1>4. QueuesInOrder
  BY InOrderEmpty DEF Init, QueuesInOrder
<1>5. QED
  BY <1>1, <1>2, <1>3, <1>4 DEF Order

(* The jobs of a completion come after all that the connection had before.   *)
LEMMA CompletionOrder ==
  ASSUME Order, NEW r \in Receivers, NEW c \in Conns, NEW more \in BOOLEAN, NEW k \in 0 .. MaxPacket[c],
         Completion(r, c, k, more)
  PROVE  Order'
<1>a. Completed(r, c, k, more) /\ Once'
  BY CompletionBatch, CompletionOnce DEF Order
<1>0. /\ rpc[r] = "idle" /\ c \in armed /\ got[c] \in Nat /\ k \in Nat
      /\ more => c \in Splitting
      /\ rpc'[r] = "push" /\ \A s \in Receivers \ {r} : rpc'[s] = rpc[s] /\ batch'[s] = batch[s]
      /\ batch'[r].more = more /\ batch'[r].conns = {c}
      /\ batch'[r].jobs = [i \in 1 .. k |-> <<c, got[c] + i>>]
      /\ \A j \in Jobs : j \in Range(batch'[r].jobs) <=> New(j, c, k)
      /\ Range(batch'[r].jobs) \subseteq Jobs
      /\ armed' = IF more THEN armed ELSE armed \ {c}
      /\ UNCHANGED <<jobQueue, localQueue>>
  BY <1>a DEF Completed
<1>1. OneReceiver'
  <2>1. \A s \in Receivers \ {r} : ~batch[s].more => c \notin batch[s].conns
    BY <1>0 DEF Order, OneReceiver
  <2>2. \A s \in Receivers : batch'[s].more => batch'[s].conns \subseteq Splitting
    BY <1>0 DEF Order, OneReceiver
  <2>3. \A s \in Receivers : ~batch'[s].more => batch'[s].conns \cap armed' = {}
    BY <1>0 DEF Order, OneReceiver
  <2>4. \A s, u \in Receivers :
          (s # u /\ ~batch'[s].more /\ ~batch'[u].more) => batch'[s].conns \cap batch'[u].conns = {}
    BY <1>0, <2>1 DEF Order, OneReceiver
  <2>5. \A s \in Receivers : rpc'[s] = "recv" => ~batch'[s].more
    BY <1>0 DEF Order, OneReceiver
  <2>6. QED
    BY <2>2, <2>3, <2>4, <2>5 DEF OneReceiver
<1>2. InOrder(batch'[r].jobs)
  <2> DEFINE new == [i \in 1 .. k |-> <<c, got[c] + i>>]
  <2>1. DOMAIN new = 1 .. k /\ \A i \in 1 .. k : new[i][2] = got[c] + i
    OBVIOUS
  <2>2. \A i, j \in 1 .. k : i < j => got[c] + i < got[c] + j
    BY <1>0
  <2> HIDE DEF new
  <2>3. InOrder(new)
    BY <2>1, <2>2 DEF InOrder
  <2>4. QED
    BY <1>0, <2>3 DEF new
<1>3. \A j \in Range(batch'[r].jobs) : j[1] \in batch'[r].conns
  BY <1>0 DEF New
<1>4. Before(Range(jobQueue), Range(batch'[r].jobs))
  <2> SUFFICES ASSUME NEW i \in Range(jobQueue), NEW j \in Range(batch'[r].jobs), i[1] = j[1]
               PROVE  i[2] < j[2]
    BY DEF Before
  <2>1. i \in Jobs /\ j \in Jobs
    BY <1>0, RangeOfJobs DEF Order, Once, Typed
  <2>2. j[1] = c /\ got[c] < j[2]
    BY <1>0, <2>1 DEF New
  <2>3. i[2] <= got[c]
    BY <2>1, <2>2 DEF Order, Once, Somewhere, InQueue, Received
  <2>4. i[2] \in Nat /\ j[2] \in Nat
    BY <2>1, JobsType, PipelineAssumption
  <2>5. QED
    BY <1>0, <2>2, <2>3, <2>4
<1>5. BatchesInOrder'
  <2>1. ASSUME NEW s \in Receivers
        PROVE  /\ InOrder(batch'[s].jobs)
               /\ \A j \in Range(batch'[s].jobs) : j[1] \in batch'[s].conns
               /\ rpc'[s] = "push" => Before(Range(jobQueue), Range(batch'[s].jobs))
    BY <1>0, <1>2, <1>3, <1>4 DEF Order, BatchesInOrder
  <2>2. QED
    BY <1>0, <2>1 DEF BatchesInOrder, InOrder, Before
<1>6. QueuesInOrder'
  BY <1>0 DEF Order, QueuesInOrder, InOrder
<1>7. QED
  BY <1>a, <1>1, <1>5, <1>6 DEF Order

(* A push keeps the order: no other batch has jobs of a whole connection.    *)
LEMMA PushOrder == ASSUME Order, NEW r \in Receivers, Push(r) PROVE Order'
<1>a. Moved(r) /\ Once'
  BY PushMoves, PushOnce DEF Order
<1>0. /\ rpc[r] = "push" /\ batch[r].jobs \in Seq(Jobs) /\ jobQueue \in Seq(Jobs)
      /\ rpc'[r] = "notify" /\ \A s \in Receivers \ {r} : rpc'[s] = rpc[s]
      /\ jobQueue' = jobQueue \o batch[r].jobs
      /\ Range(jobQueue') = Range(jobQueue) \cup Range(batch[r].jobs)
      /\ UNCHANGED <<got, armed, batch, localQueue>>
  BY <1>a DEF Moved, Order, Once, Typed
<1>1. OneReceiver'
  BY <1>0 DEF Order, OneReceiver
<1>2. InOrder(jobQueue')
  BY <1>0, InOrderConcat DEF Order, BatchesInOrder, QueuesInOrder
<1>3. QueuesInOrder'
  BY <1>0, <1>2 DEF Order, QueuesInOrder, InOrder
<1>4. ASSUME NEW s \in Receivers, rpc'[s] = "push"
      PROVE  Before(Range(jobQueue'), Range(batch[s].jobs))
  <2>1. s # r /\ rpc[s] = "push"
    BY <1>0, <1>4
  <2>2. Before(Range(jobQueue), Range(batch[s].jobs))
    BY <2>1 DEF Order, BatchesInOrder
  <2>3. Before(Range(batch[r].jobs), Range(batch[s].jobs))
    <3>1. ASSUME NEW i \in Range(batch[r].jobs), NEW j \in Range(batch[s].jobs), i[1] = j[1]
          PROVE  i[1] \in Splitting
      <4>1. i[1] \in batch[r].conns /\ i[1] \in batch[s].conns
        BY <3>1 DEF Order, BatchesInOrder
      <4>2. QED
        BY <2>1, <4>1 DEF Order, OneReceiver
    <3>2. QED
      BY <3>1 DEF Before
  <2>4. QED
    BY <1>0, <2>2, <2>3 DEF Before
<1>5. BatchesInOrder'
  <2>1. ASSUME NEW s \in Receivers
        PROVE  /\ InOrder(batch[s].jobs)
               /\ \A j \in Range(batch[s].jobs) : j[1] \in batch[s].conns
               /\ rpc'[s] = "push" => Before(Range(jobQueue'), Range(batch[s].jobs))
    BY <1>4 DEF Order, BatchesInOrder
  <2>2. QED
    BY <1>0, <2>1 DEF BatchesInOrder, InOrder, Before
<1>6. QED
  BY <1>a, <1>1, <1>3, <1>5 DEF Order

(* Notify and Recv.  Recv arms a connection that no batch has any more.      *)
LEMMA ClearedOrder ==
  ASSUME Order, NEW r \in Receivers, Cleared(r),
         armed' = armed \/ (armed' = armed \cup batch[r].conns /\ batch'[r] = NoBatch /\ ~batch[r].more)
  PROVE  Order'
<1>a. Once'
  BY ClearedOnce DEF Order
<1>0. /\ rpc'[r] # "push" /\ (rpc'[r] = "recv" => ~batch'[r].more)
      /\ \A s \in Receivers \ {r} : rpc'[s] = rpc[s] /\ batch'[s] = batch[s]
      /\ batch'[r].jobs = <<>>
      /\ \/ batch'[r].more = batch[r].more /\ batch'[r].conns = batch[r].conns
         \/ batch'[r] = NoBatch
      /\ UNCHANGED <<jobQueue, localQueue>>
  BY DEF Cleared
<1>1. OneReceiver'
  <2>0. NoBatch.conns = {}
    BY DEF NoBatch
  <2>1. \A s \in Receivers : batch'[s].more => batch'[s].conns \subseteq Splitting
    BY <1>0, <2>0 DEF Order, OneReceiver
  <2>2. \A s \in Receivers : ~batch'[s].more => batch'[s].conns \cap armed' = {}
    BY <1>0, <2>0 DEF Order, OneReceiver
  <2>3. \A s, u \in Receivers :
          (s # u /\ ~batch'[s].more /\ ~batch'[u].more) => batch'[s].conns \cap batch'[u].conns = {}
    BY <1>0, <2>0 DEF Order, OneReceiver
  <2>4. \A s \in Receivers : rpc'[s] = "recv" => ~batch'[s].more
    BY <1>0 DEF Order, OneReceiver
  <2>5. QED
    BY <2>1, <2>2, <2>3, <2>4 DEF OneReceiver
<1>2. BatchesInOrder'
  <2>1. ASSUME NEW s \in Receivers
        PROVE  /\ InOrder(batch'[s].jobs)
               /\ \A j \in Range(batch'[s].jobs) : j[1] \in batch'[s].conns
               /\ rpc'[s] = "push" => Before(Range(jobQueue), Range(batch'[s].jobs))
    BY <1>0, RangeEmpty, InOrderEmpty DEF Order, BatchesInOrder
  <2>2. QED
    BY <1>0, <2>1 DEF BatchesInOrder, InOrder, Before
<1>3. QueuesInOrder'
  BY <1>0 DEF Order, QueuesInOrder, InOrder
<1>4. QED
  BY <1>a, <1>1, <1>2, <1>3 DEF Order

(* The steps of WorkThreads.                                                 *)
LEMMA WorkOrder ==
  ASSUME Order, Once', UNCHANGED <<armed, rpc, batch>>, jobQueue' \in {jobQueue, <<>>},
         \A w \in Workers : InOrder(localQueue'[w])
  PROVE  Order'
<1>1. OneReceiver'
  BY DEF Order, OneReceiver
<1>2. InOrder(jobQueue')
  BY InOrderEmpty DEF Order, QueuesInOrder
<1>3. QueuesInOrder'
  BY <1>2 DEF QueuesInOrder, InOrder
<1>4. Range(jobQueue') \subseteq Range(jobQueue)
  BY RangeEmpty
<1>5. BatchesInOrder'
  <2>1. ASSUME NEW s \in Receivers
        PROVE  /\ InOrder(batch[s].jobs)
               /\ \A j \in Range(batch[s].jobs) : j[1] \in batch[s].conns
               /\ rpc[s] = "push" => Before(Range(jobQueue'), Range(batch[s].jobs))
    BY <1>4 DEF Order, BatchesInOrder, Before
  <2>2. QED
    BY <2>1 DEF BatchesInOrder, InOrder, Before
<1>6. QED
  BY <1>1, <1>3, <1>5 DEF Order

(* Every step keeps the order.                                               *)
LEMMA NextOrder == Order /\ [Next]_vars => Order'
<1> SUFFICES ASSUME Order, [Next]_vars PROVE Order'
  OBVIOUS
<1>0. Once /\ Once' /\ \A w \in Workers : InOrder(localQueue[w])
  BY NextOnce DEF Order, QueuesInOrder
<1>1. ASSUME NEW r \in Receivers, Notify(r) PROVE Order'
  BY <1>0, <1>1, NotifyClears, ClearedOrder
<1>2. ASSUME NEW r \in Receivers, Recv(r) PROVE Order'
  <2>1. ~batch[r].more
    BY <1>2 DEF Recv, Order, OneReceiver
  <2>2. QED
    BY <1>0, <1>2, <2>1, RecvClears, ClearedOrder
<1>3. ASSUME NEW w \in Workers, TakeQueue(w) PROVE Order'
  <2>1. /\ jobQueue' = <<>> /\ localQueue'[w] = jobQueue
        /\ \A v \in Workers \ {w} : localQueue'[v] = localQueue[v]
    BY <1>0, <1>3, TakeQueueOnce
  <2>2. UNCHANGED <<armed, rpc, batch>>
    BY <1>3 DEF TakeQueue, recvVars
  <2>3. \A v \in Workers : InOrder(localQueue'[v])
    BY <1>0, <2>1 DEF Order, QueuesInOrder
  <2>4. QED
    BY <1>0, <2>1, <2>2, <2>3, WorkOrder
<1>4. ASSUME NEW w \in Workers, NEW m, Popped(w, m), UNCHANGED <<armed, rpc, batch, jobQueue>> PROVE Order'
  <2>1. /\ localQueue[w] \in Seq(Jobs) /\ localQueue[w] # <<>>
        /\ localQueue'[w] = Tail(localQueue[w])
        /\ \A v \in Workers \ {w} : localQueue'[v] = localQueue[v]
    BY <1>4 DEF Popped
  <2>2. InOrder(localQueue'[w])
    BY <1>0, <2>1, InOrderTail
  <2>3. \A v \in Workers : InOrder(localQueue'[v])
    BY <1>0, <2>1, <2>2
  <2>4. QED
    BY <1>0, <1>4, <2>3, WorkOrder
<1>5. ASSUME NEW w \in Workers, DropJob(w) \/ CallCount(w) \/ StartJob(w) PROVE Order'
  <2>1. Popped(w, Head(localQueue[w])) /\ UNCHANGED <<armed, rpc, batch, jobQueue>>
    BY <1>0, <1>5, DropPops, StartPops
  <2>2. QED
    BY <1>4, <2>1
<1>6. CASE UNCHANGED <<armed, rpc, batch, jobQueue, localQueue>>
  <2>1. \A w \in Workers : InOrder(localQueue'[w])
    BY <1>0, <1>6
  <2>2. QED
    BY <1>0, <1>6, <2>1, WorkOrder
<1>7. ASSUME NEW w \in Workers, FinishJob(w) \/ Idles(w) PROVE Order'
  BY <1>0, <1>6, <1>7, IdlesOnce DEF FinishJob, recvVars
<1>8. CASE UNCHANGED vars
  BY <1>6, <1>8 DEF vars, recvVars, workVars
<1>9. QED
  BY <1>1, <1>2, <1>3, <1>5, <1>7, <1>8, NextCases, CompletionOrder, PushOrder

(* The jobs of a connection whose receives end between packets stand in      *)
(* jobQueue, and in what a WorkThread has taken, in the order they were      *)
(* sent: RecvThreads get such a connection's receives one after the other    *)
(* and push one batch before the next is received.                           *)
THEOREM JobsStayInOrder == Spec => []QueuesInOrder
<1>1. Order => QueuesInOrder
  BY DEF Order
<1>2. QED
  BY <1>1, InitOrder, NextOrder, PTL DEF Spec

-----------------------------------------------------------------------------
(* The count.  A step that changes neither the pushed jobs nor the sum keeps *)
(* it.                                                                       *)
LEMMA SameCount ==
  ASSUME Count, Once',
         \A j \in Jobs : (j \in Pushed)' <=> j \in Pushed,
         packetCnt' + reported' = packetCnt + reported
  PROVE  Count'
<1>1. Pushed' = Pushed
  BY DEF Pushed
<1>2. QED
  BY <1>1 DEF Count

(* Every step keeps it; a push adds as many jobs as the batch is long.       *)
LEMMA NextCount == Count /\ [Next]_vars => Count'
<1> SUFFICES ASSUME Count, [Next]_vars PROVE Count'
  OBVIOUS
<1>0. Once /\ Once'
  BY NextOnce DEF Count
<1>1. ASSUME NEW r \in Receivers, NEW c \in Conns, NEW more \in BOOLEAN, NEW k \in 0 .. MaxPacket[c],
             Completion(r, c, k, more)
      PROVE  Count'
  <2>1. Completed(r, c, k, more)
    BY <1>0, <1>1, CompletionBatch
  <2>2. /\ rpc[r] = "idle" /\ got[c] \in Nat /\ k \in Nat
        /\ rpc'[r] = "push" /\ \A s \in Receivers \ {r} : rpc'[s] = rpc[s] /\ batch'[s] = batch[s]
        /\ got'[c] = got[c] + k /\ \A d \in Conns \ {c} : got'[d] = got[d]
        /\ \A j \in Jobs : j \in Range(batch'[r].jobs) <=> New(j, c, k)
        /\ UNCHANGED <<packetCnt, reported>>
    BY <2>1 DEF Completed
  <2>3. ASSUME NEW j \in Jobs PROVE (j \in Pushed)' <=> j \in Pushed
    <3>1. j[1] \in Conns /\ j[2] \in Nat /\ got[j[1]] \in Nat
      BY <1>0, JobsType, PipelineAssumption DEF Once, Typed
    <3>2. (Received(j)' <=> Received(j) \/ New(j, c, k)) /\ ~(Received(j) /\ New(j, c, k))
      BY <2>2, <3>1 DEF Received, New
    <3>3. \A s \in Receivers : InBatch(j, s)' <=> IF s = r THEN New(j, c, k) ELSE InBatch(j, s)
      BY <2>2 DEF InBatch
    <3>4. ~InBatch(j, r)
      BY <2>2 DEF InBatch
    <3>5. QED
      BY <3>2, <3>3, <3>4 DEF Pushed
  <2>4. QED
    BY <1>0, <2>2, <2>3, SameCount
<1>2. ASSUME NEW r \in Receivers, Push(r) PROVE Count'
  <2>1. Moved(r)
    BY <1>0, <1>2, PushMoves
  <2>2. /\ rpc[r] = "push" /\ batch[r].jobs \in Seq(Jobs)
        /\ rpc'[r] = "notify" /\ \A s \in Receivers \ {r} : rpc'[s] = rpc[s]
        /\ packetCnt' = packetCnt + Len(batch[r].jobs)
        /\ Range(batch[r].jobs) \subseteq Jobs
        /\ UNCHANGED <<got, batch, reported>>
    BY <2>1 DEF Moved
  <2> DEFINE B == Range(batch[r].jobs)
  <2>3. IsFiniteSet(B) /\ Cardinality(B) = Len(batch[r].jobs) /\ Len(batch[r].jobs) \in Nat
    BY <1>0, <2>2, CardinalityOfRange DEF Once, NoRepeats
  <2>4. \A j \in Jobs : (j \in B <=> InBatch(j, r)) /\ (Received(j)' <=> Received(j))
    BY <2>2 DEF InBatch, Received
  <2>5. \A j \in Jobs, s \in Receivers : InBatch(j, s)' <=> InBatch(j, s) /\ s # r
    <3>1. ASSUME NEW j \in Jobs, NEW s \in Receivers PROVE InBatch(j, s)' <=> InBatch(j, s) /\ s # r
      BY <2>2 DEF InBatch
    <3>2. QED
      BY <3>1
  <2>6. \A j \in Jobs : InBatch(j, r) => Received(j) /\ \A s \in Receivers : InBatch(j, s) => s = r
    BY <1>0 DEF Once, Somewhere, NowhereElse
  <2> HIDE DEF B
  <2>7. Pushed \cap B = {}
    BY <2>4 DEF Pushed
  <2>8. Pushed' = Pushed \cup B
    <3>1. B \subseteq Jobs
      BY <2>2 DEF B
    <3>2. \A j \in Jobs : (j \in Pushed)' <=> j \in Pushed \cup B
      BY <2>4, <2>5, <2>6 DEF Pushed
    <3>3. QED
      BY <3>1, <3>2 DEF Pushed
  <2>9. IsFiniteSet(Pushed') /\ Cardinality(Pushed') = Cardinality(Pushed) + Cardinality(B)
    <3>1. IsFiniteSet(Pushed)
      BY DEF Count
    <3>2. /\ IsFiniteSet(Pushed \cup B)
          /\ Cardinality(Pushed \cup B) = Cardinality(Pushed) + Cardinality(B) - Cardinality(Pushed \cap B)
      BY <2>3, <3>1, FS_Union
    <3>3. Cardinality(Pushed \cap B) = 0 /\ Cardinality(Pushed) \in Nat /\ Cardinality(B) \in Nat
      BY <2>3, <2>7, <3>1, FS_EmptySet, FS_CardinalityType
    <3>4. QED
      BY <2>8, <3>2, <3>3
  <2>10. packetCnt' + reported' = Cardinality(Pushed')
    BY <1>0, <2>2, <2>3, <2>9 DEF Count, Once, Typed
  <2>11. QED
    BY <1>0, <2>9, <2>10 DEF Count
<1>3. ASSUME NEW r \in Receivers, Cleared(r) PROVE Count'
  <2>1. ASSUME NEW j \in Jobs PROVE (Received(j)' <=> Received(j)) /\ \A s \in Receivers : InBatch(j, s)' <=> InBatch(j, s)
    BY <1>3 DEF Cleared, InBatch, Received
  <2>2. UNCHANGED <<packetCnt, reported>>
    BY <1>3 DEF Cleared
  <2>3. \A j \in Jobs : (j \in Pushed)' <=> j \in Pushed
    BY <2>1 DEF Pushed
  <2>4. QED
    BY <1>0, <2>2, <2>3, SameCount
<1>4. ASSUME UNCHANGED <<got, rpc, batch>>, packetCnt' + reported' = packetCnt + reported PROVE Count'
  <2>1. \A j \in Jobs : (j \in Pushed)' <=> j \in Pushed
    BY <1>4 DEF Pushed, Received, InBatch
  <2>2. QED
    BY <1>0, <1>4, <2>1, SameCount
<1>5. ASSUME NEW w \in Workers, DropJob(w) \/ CallCount(w) PROVE Count'
  BY <1>0, <1>4, <1>5, DropPops
<1>6. CASE UNCHANGED <<got, rpc, batch, packetCnt, reported>>
  BY <1>4, <1>6
<1>7. ASSUME NEW w \in Workers, TakeQueue(w) \/ StartJob(w) \/ FinishJob(w) \/ Idles(w) PROVE Count'
  BY <1>6, <1>7 DEF TakeQueue, StartJob, FinishJob, Idles, Wait, SpuriousWakeup, BackToQueue, recvVars
<1>8. CASE UNCHANGED vars
  BY <1>6, <1>8 DEF vars, recvVars, workVars
<1>9. QED
  BY <1>0, <1>1, <1>2, <1>3, <1>5, <1>7, <1>8, NextCases, NotifyClears, RecvClears

(* What CALLCOUNT has answered and what packetCnt holds add up to the jobs   *)
(* that were pushed: the exchange with 0 and the additions of the            *)
(* RecvThreads lose and repeat none, whatever their order.                   *)
THEOREM CountsAddUp == Spec => []PacketsCounted
<1>1. Init => Count
  <2> SUFFICES ASSUME Init PROVE Count
    OBVIOUS
  <2>1. Once
    BY InitOnce
  <2>2. \A j \in Jobs : ~Received(j)
    BY JobsType, PipelineAssumption DEF Init, Received
  <2>3. Pushed = {}
    BY <2>2 DEF Pushed
  <2>4. QED
    BY <2>1, <2>3, FS_EmptySet DEF Count, Init
<1>2. Count => PacketsCounted
  <2> SUFFICES ASSUME Count PROVE PacketsCounted
    OBVIOUS
  <2> DEFINE pushed == {j \in Jobs : j[2] <= got[j[1]]}
             waiting == UNION {Range(batch[r].jobs) : r \in {x \in Receivers : rpc[x] = "push"}}
  <2>1. \A j \in Jobs : j \in waiting <=> \E r \in Receivers : InBatch(j, r)
    BY DEF InBatch
  <2>2. pushed \ waiting = Pushed
    <3> HIDE DEF waiting
    <3>1. QED
      BY <2>1 DEF Pushed, Received
  <2>3. packetCnt + reported = Cardinality(pushed \ waiting)
    BY <2>2 DEF Count
  <2>4. QED
    BY <2>3 DEF PacketsCounted
<1>3. QED
  BY <1>1, <1>2, NextCount, PTL DEF Spec

-----------------------------------------------------------------------------
(* SendPath: the queues behind the handlers.                                 *)

InSendQueue(m, q) == m \in Range(sendQueue[q])
TakenBy(m, t) == m \in Range(taken[t])

(* A reply is somewhere,                                                     *)
ReplySomewhere ==
  \A m \in Replies :
    m \in fresh \/ m \in sent \/ (\E q \in Queues : InSendQueue(m, q)) \/ (\E t \in Senders : TakenBy(m, t))

(* and nowhere else.                                                         *)
ReplyNowhereElse ==
  \A m \in Replies :
    /\ m \in fresh => m \notin sent
    /\ \A q \in Queues : InSendQueue(m, q) => m \notin fresh /\ m \notin sent
    /\ \A t \in Senders : TakenBy(m, t) => m \notin fresh /\ m \notin sent
    /\ \A q \in Queues, t \in Senders : ~(InSendQueue(m, q) /\ TakenBy(m, t))
    /\ \A q, r \in Queues : InSendQueue(m, q) /\ InSendQueue(m, r) => q = r
    /\ \A t, u \in Senders : TakenBy(m, t) /\ TakenBy(m, u) => t = u

(* A sender that tests or waits has sent all that it had taken.              *)
TakenIsSent == \A t \in Senders : pc[t] # "send" => taken[t] = <<>>

QueuesNoRepeats ==
  /\ \A q \in Queues : IsInjective(sendQueue[q])
  /\ \A t \in Senders : IsInjective(taken[t])

SendInv == SendTypeOK /\ ReplySomewhere /\ ReplyNowhereElse /\ TakenIsSent /\ QueuesNoRepeats

-----------------------------------------------------------------------------
(* Every thread has one of the two queues.                                   *)
LEMMA QueueOfType == ASSUME NEW t PROVE QueueOf(t) \in Queues
BY DEF QueueOf, Queues

-----------------------------------------------------------------------------
(* At first every reply is fresh.                                            *)
LEMMA SendInitInv == SendInit => SendInv
<1> SUFFICES ASSUME SendInit PROVE SendInv
  OBVIOUS
<1>1. SendTypeOK
  <2>1. <<>> \in Seq(Replies) /\ SendThreads \subseteq Senders
    BY DEF Senders
  <2>2. QED
    BY <2>1 DEF SendInit, SendTypeOK
<1>2. /\ \A m \in Replies, q \in Queues : ~InSendQueue(m, q)
      /\ \A m \in Replies, t \in Senders : ~TakenBy(m, t)
  BY RangeEmpty DEF SendInit, InSendQueue, TakenBy
<1>3. ReplySomewhere /\ ReplyNowhereElse
  BY <1>2 DEF SendInit, ReplySomewhere, ReplyNowhereElse
<1>4. TakenIsSent /\ QueuesNoRepeats
  BY RangeEmpty DEF SendInit, TakenIsSent, QueuesNoRepeats
<1>5. QED
  BY <1>1, <1>3, <1>4 DEF SendInv

(* The steps that move no reply: waiting and waking.                         *)
LEMMA NoReplyMoves ==
  ASSUME SendInv, SendTypeOK', TakenIsSent', UNCHANGED <<fresh, sendQueue, taken, sent>>
  PROVE  SendInv'
BY DEF SendInv, ReplySomewhere, ReplyNowhereElse, QueuesNoRepeats, InSendQueue, TakenBy

(* A push moves one reply from the producer to its queue.                    *)
LEMMA PushStep ==
  ASSUME SendInv, NEW h \in Producers, NEW m \in Replies, PushReply(h, m)
  PROVE  SendInv'
<1> DEFINE k == QueueOf(h)
<1>0. /\ k \in Queues /\ m \in fresh /\ sendQueue[k] \in Seq(Replies)
      /\ fresh' = fresh \ {m}
      /\ UNCHANGED <<pc, taken, sent, sendStop, stopping>>
      /\ notifying' = notifying \cup {h}
  BY QueueOfType DEF PushReply, SendInv, SendTypeOK
<1>1. /\ sendQueue'[k] = Append(sendQueue[k], m)
      /\ \A q \in Queues \ {k} : sendQueue'[q] = sendQueue[q]
      /\ sendQueue' \in [Queues -> Seq(Replies)]
  <2>1. sendQueue' = [sendQueue EXCEPT ![k] = Append(sendQueue[k], m)] /\ sendQueue \in [Queues -> Seq(Replies)]
    BY DEF PushReply, SendInv, SendTypeOK
  <2>2. Append(sendQueue[k], m) \in Seq(Replies)
    BY <1>0, RangeAppend
  <2>3. QED
    BY <1>0, <2>1, <2>2
<1>2. SendTypeOK' /\ TakenIsSent'
  BY <1>0, <1>1 DEF SendInv, SendTypeOK, TakenIsSent
<1>3. \A q \in Queues : ~InSendQueue(m, q)
  BY <1>0 DEF SendInv, ReplyNowhereElse
<1>4. /\ Range(sendQueue'[k]) = Range(sendQueue[k]) \cup {m}
      /\ IsInjective(sendQueue'[k])
  BY <1>0, <1>1, <1>3, RangeAppend DEF SendInv, QueuesNoRepeats, InSendQueue
<1>5. /\ \A x \in Replies, q \in Queues : InSendQueue(x, q)' <=> InSendQueue(x, q) \/ (x = m /\ q = k)
      /\ \A x \in Replies, t \in Senders : TakenBy(x, t)' <=> TakenBy(x, t)
  <2>1. ASSUME NEW x \in Replies, NEW q \in Queues PROVE InSendQueue(x, q)' <=> InSendQueue(x, q) \/ (x = m /\ q = k)
    BY <1>1, <1>4 DEF InSendQueue
  <2>2. QED
    BY <1>0, <2>1 DEF TakenBy
<1>6. ReplySomewhere'
  BY <1>0, <1>5 DEF SendInv, ReplySomewhere
<1>7. ReplyNowhereElse'
  BY <1>0, <1>3, <1>5 DEF SendInv, ReplyNowhereElse
<1>8. QueuesNoRepeats'
  BY <1>0, <1>1, <1>4 DEF SendInv, QueuesNoRepeats
<1>9. QED
  BY <1>2, <1>6, <1>7, <1>8 DEF SendInv

(* The swap moves all of a queue to the sender, which had nothing.           *)
LEMMA TakeQueueStep ==
  ASSUME SendInv, NEW t \in Senders, TakeSendQueue(t)
  PROVE  SendInv'
<1> DEFINE k == QueueOf(t)
<1>0. /\ k \in Queues /\ sendQueue[k] \in Seq(Replies) /\ pc[t] = "check" /\ MayProceed(t)
      /\ UNCHANGED <<fresh, notifying, sent, sendStop, stopping>>
      /\ taken[t] = <<>>
  BY QueueOfType DEF TakeSendQueue, SendInv, SendTypeOK, TakenIsSent
<1>1. CASE sendQueue[k] = <<>>
  <2>1. pc' = [pc EXCEPT ![t] = "returned"] /\ UNCHANGED <<sendQueue, taken>>
    BY <1>1 DEF TakeSendQueue
  <2>2. t \in SendworkCallers
    BY <1>0, <1>1 DEF MayProceed
  <2>3. SendTypeOK' /\ TakenIsSent'
    BY <1>0, <2>1, <2>2, SendAssumption DEF SendInv, SendTypeOK, TakenIsSent, Senders
  <2>4. QED
    BY <1>0, <2>1, <2>3, NoReplyMoves
<1>2. CASE sendQueue[k] # <<>>
  <2>1. /\ taken' = [taken EXCEPT ![t] = sendQueue[k]]
        /\ sendQueue' = [sendQueue EXCEPT ![k] = <<>>]
        /\ pc' = [pc EXCEPT ![t] = "send"]
    BY <1>2 DEF TakeSendQueue
  <2>2. SendTypeOK'
    BY <1>0, <2>1 DEF SendInv, SendTypeOK
  <2>3. /\ taken'[t] = sendQueue[k] /\ \A u \in Senders \ {t} : taken'[u] = taken[u]
        /\ sendQueue'[k] = <<>> /\ \A q \in Queues \ {k} : sendQueue'[q] = sendQueue[q]
        /\ pc'[t] = "send" /\ \A u \in Senders \ {t} : pc'[u] = pc[u]
    BY <1>0, <2>1 DEF SendInv, SendTypeOK
  <2>4. TakenIsSent'
    BY <2>3 DEF SendInv, TakenIsSent
  <2>5. /\ \A x \in Replies, q \in Queues : InSendQueue(x, q)' <=> InSendQueue(x, q) /\ q # k
        /\ \A x \in Replies, u \in Senders : TakenBy(x, u)' <=> IF u = t THEN InSendQueue(x, k) ELSE TakenBy(x, u)
    <3>1. ASSUME NEW x \in Replies, NEW q \in Queues PROVE InSendQueue(x, q)' <=> InSendQueue(x, q) /\ q # k
      BY <2>3, RangeEmpty DEF InSendQueue
    <3>2. ASSUME NEW x \in Replies, NEW u \in Senders
          PROVE  TakenBy(x, u)' <=> IF u = t THEN InSendQueue(x, k) ELSE TakenBy(x, u)
      BY <2>3 DEF TakenBy, InSendQueue
    <3>3. QED
      BY <3>1, <3>2
  <2>6. \A x \in Replies : ~TakenBy(x, t)
    BY <1>0, RangeEmpty DEF TakenBy
  <2>7. ReplySomewhere'
    <3>1. ASSUME NEW x \in Replies
          PROVE  \/ x \in fresh' \/ x \in sent' \/ \E q \in Queues : InSendQueue(x, q)'
                 \/ \E u \in Senders : TakenBy(x, u)'
      BY <1>0, <2>5, <2>6 DEF SendInv, ReplySomewhere
    <3>2. QED
      BY <3>1 DEF ReplySomewhere
  <2>8. ReplyNowhereElse'
    BY <1>0, <2>5, <2>6 DEF SendInv, ReplyNowhereElse
  <2>9. QueuesNoRepeats'
    BY <1>0, <2>3, RangeEmpty DEF SendInv, QueuesNoRepeats
  <2>10. QED
    BY <2>2, <2>4, <2>7, <2>8, <2>9 DEF SendInv
<1>3. QED
  BY <1>1, <1>2

(* A send moves one reply from the sender to the network.                    *)
LEMMA SendOneStep ==
  ASSUME SendInv, NEW t \in Senders, SendOne(t)
  PROVE  SendInv'
<1>0. PICK m \in Replies :
        /\ m = Head(taken[t]) /\ m \in Range(taken[t])
        /\ Tail(taken[t]) \in Seq(Replies)
        /\ Range(Tail(taken[t])) = Range(taken[t]) \ {m}
        /\ IsInjective(Tail(taken[t]))
  <2>1. taken[t] \in Seq(Replies) /\ taken[t] # <<>> /\ IsInjective(taken[t])
    BY DEF SendInv, SendTypeOK, QueuesNoRepeats, SendOne
  <2>2. QED
    BY <2>1, RangeTail
<1>1. /\ sent' = sent \cup {m} /\ pc[t] = "send"
      /\ taken' = [taken EXCEPT ![t] = Tail(taken[t])]
      /\ UNCHANGED <<fresh, notifying, sendQueue, pc, sendStop, stopping>>
  BY <1>0 DEF SendOne
<1>2. /\ taken'[t] = Tail(taken[t])
      /\ \A u \in Senders \ {t} : taken'[u] = taken[u]
      /\ taken' \in [Senders -> Seq(Replies)]
  BY <1>0, <1>1 DEF SendInv, SendTypeOK
<1>3. SendTypeOK' /\ TakenIsSent'
  BY <1>1, <1>2 DEF SendInv, SendTypeOK, TakenIsSent
<1>4. /\ \A x \in Replies, q \in Queues : InSendQueue(x, q)' <=> InSendQueue(x, q)
      /\ \A x \in Replies, u \in Senders : TakenBy(x, u)' <=> TakenBy(x, u) /\ ~(u = t /\ x = m)
      /\ TakenBy(m, t)
  <2>1. ASSUME NEW x \in Replies, NEW u \in Senders PROVE TakenBy(x, u)' <=> TakenBy(x, u) /\ ~(u = t /\ x = m)
    BY <1>0, <1>2 DEF TakenBy
  <2>2. QED
    BY <1>0, <1>1, <2>1 DEF InSendQueue, TakenBy
<1>5. ReplySomewhere'
  BY <1>1, <1>4 DEF SendInv, ReplySomewhere
<1>6. ReplyNowhereElse'
  BY <1>1, <1>4 DEF SendInv, ReplyNowhereElse
<1>7. QueuesNoRepeats'
  BY <1>0, <1>1, <1>2 DEF SendInv, QueuesNoRepeats
<1>8. QED
  BY <1>3, <1>5, <1>6, <1>7 DEF SendInv

(* Every step keeps the invariant.                                           *)
LEMMA SendNextInv == SendInv /\ [SendNext]_sendVars => SendInv'
<1> SUFFICES ASSUME SendInv, [SendNext]_sendVars PROVE SendInv'
  OBVIOUS
<1>1. ASSUME NEW h \in Producers, NEW m \in Replies, InsertSendQueue(h, m) \/ EnqueueSend(h, m) PROVE SendInv'
  BY <1>1, PushStep DEF InsertSendQueue, EnqueueSend
<1>2. ASSUME NEW h \in Producers, NotifyOne(h) PROVE SendInv'
  <2>1. /\ notifying' = notifying \ {h}
        /\ UNCHANGED <<fresh, sendQueue, taken, sent, sendStop, stopping>>
    BY <1>2 DEF NotifyOne
  <2>2. /\ pc' \in [Senders -> {"check", "decide", "wait", "send", "returned"}]
        /\ \A t \in Senders : pc'[t] = pc[t] \/ (pc'[t] = "check" /\ pc[t] = "wait")
    <3>1. CASE UNCHANGED pc
      BY <3>1 DEF SendInv, SendTypeOK
    <3>2. ASSUME NEW t \in Waiting(QueueOf(h)), pc' = [pc EXCEPT ![t] = "check"]
          PROVE  /\ pc' \in [Senders -> {"check", "decide", "wait", "send", "returned"}]
                 /\ \A u \in Senders : pc'[u] = pc[u] \/ (pc'[u] = "check" /\ pc[u] = "wait")
      BY <3>2 DEF Waiting, SendInv, SendTypeOK
    <3>3. QED
      BY <1>2, <3>1, <3>2 DEF NotifyOne
  <2>3. SendTypeOK' /\ TakenIsSent'
    <3>1. SendThreads \subseteq Senders
      BY DEF Senders
    <3>2. QED
      BY <2>1, <2>2, <3>1 DEF SendInv, SendTypeOK, TakenIsSent
  <2>4. QED
    BY <2>1, <2>3, NoReplyMoves
<1>3. ASSUME NEW t \in Senders, PredicateFalse(t) PROVE SendInv'
  <2>1. SendTypeOK' /\ TakenIsSent'
    BY <1>3 DEF PredicateFalse, SendInv, SendTypeOK, TakenIsSent
  <2>2. QED
    BY <1>3, <2>1, NoReplyMoves DEF PredicateFalse
<1>4. ASSUME NEW t \in Senders, Block(t) PROVE SendInv'
  <2>1. SendTypeOK' /\ TakenIsSent'
    BY <1>4 DEF Block, SendInv, SendTypeOK, TakenIsSent
  <2>2. QED
    BY <1>4, <2>1, NoReplyMoves DEF Block
<1>5. ASSUME NEW t \in Senders, BackToWait(t) PROVE SendInv'
  <2>1. SendTypeOK' /\ TakenIsSent'
    BY <1>5 DEF BackToWait, SendInv, SendTypeOK, TakenIsSent
  <2>2. QED
    BY <1>5, <2>1, NoReplyMoves DEF BackToWait
<1>6. ASSUME NEW t \in Senders, SpuriousSenderWakeup(t) PROVE SendInv'
  <2>1. SendTypeOK' /\ TakenIsSent'
    BY <1>6 DEF SpuriousSenderWakeup, SendInv, SendTypeOK, TakenIsSent
  <2>2. QED
    BY <1>6, <2>1, NoReplyMoves DEF SpuriousSenderWakeup
<1>7. ASSUME StoreStop PROVE SendInv'
  <2>1. SendTypeOK' /\ TakenIsSent'
    BY <1>7 DEF StoreStop, SendInv, SendTypeOK, TakenIsSent
  <2>2. QED
    BY <1>7, <2>1, NoReplyMoves DEF StoreStop
<1>8. ASSUME NotifyAll PROVE SendInv'
  <2>1. pc' = [t \in Senders |-> IF t \in Waiting("service") THEN "check" ELSE pc[t]]
    BY <1>8 DEF NotifyAll
  <2>2. \A t \in Senders : pc'[t] = pc[t] \/ (pc'[t] = "check" /\ pc[t] = "wait")
    BY <2>1 DEF Waiting
  <2>3. SendTypeOK' /\ TakenIsSent'
    <3>1. SendThreads \subseteq Senders
      BY DEF Senders
    <3>2. QED
      BY <1>8, <2>1, <2>2, <3>1 DEF NotifyAll, SendInv, SendTypeOK, TakenIsSent
  <2>4. QED
    BY <1>8, <2>3, NoReplyMoves DEF NotifyAll
<1>9. ASSUME UNCHANGED sendVars PROVE SendInv'
  <2>1. SendTypeOK' /\ TakenIsSent'
    BY <1>9 DEF sendVars, SendInv, SendTypeOK, TakenIsSent
  <2>2. QED
    BY <1>9, <2>1, NoReplyMoves DEF sendVars
<1>10. QED
  BY <1>1, <1>2, <1>3, <1>4, <1>5, <1>6, <1>7, <1>8, <1>9, TakeQueueStep, SendOneStep
    DEF SendNext, SendStep

(* The invariant is one of the specification.                                *)
THEOREM SendInvariant == SendSpec => []SendInv
BY SendInitInv, SendNextInv, PTL DEF SendSpec

-----------------------------------------------------------------------------
(* No reply is lost, queued twice or sent by two senders: the queues'        *)
(* condition variables, the swap of Sendwork and SendThread, spurious        *)
(* wakeups and StopSendWorker move each reply through one place at a time.   *)
THEOREM RepliesMoveOnce == SendSpec => []EveryReplyOnce
<1>1. SendInv => EveryReplyOnce
  <2> SUFFICES ASSUME SendInv, NEW m \in Replies
               PROVE  Cardinality({q \in Queues : m \in Range(sendQueue[q])})
                        + Cardinality({t \in Senders : m \in Range(taken[t])})
                        + Cardinality(fresh \cap {m}) + Cardinality(sent \cap {m}) = 1
    BY DEF EveryReplyOnce
  <2> DEFINE Q == {q \in Queues : m \in Range(sendQueue[q])}
             T == {t \in Senders : m \in Range(taken[t])}
             F == fresh \cap {m}
             X == sent \cap {m}
  <2>1. /\ Cardinality(Q) = IF Q = {} THEN 0 ELSE 1
        /\ Cardinality(T) = IF T = {} THEN 0 ELSE 1
        /\ Cardinality(F) = IF F = {} THEN 0 ELSE 1
        /\ Cardinality(X) = IF X = {} THEN 0 ELSE 1
    <3>1. (\A x, y \in Q : x = y) /\ (\A x, y \in T : x = y)
      BY DEF SendInv, ReplyNowhereElse, InSendQueue, TakenBy
    <3>2. (\A x, y \in F : x = y) /\ (\A x, y \in X : x = y)
      OBVIOUS
    <3>3. QED
      BY <3>1, <3>2, AtMostOne
  <2>2. \/ Q # {} /\ T = {} /\ F = {} /\ X = {}
        \/ Q = {} /\ T # {} /\ F = {} /\ X = {}
        \/ Q = {} /\ T = {} /\ F # {} /\ X = {}
        \/ Q = {} /\ T = {} /\ F = {} /\ X # {}
    <3>1. /\ Q # {} <=> \E q \in Queues : InSendQueue(m, q)
          /\ T # {} <=> \E t \in Senders : TakenBy(m, t)
          /\ F # {} <=> m \in fresh
          /\ X # {} <=> m \in sent
      BY DEF InSendQueue, TakenBy
    <3>2. QED
      BY <3>1 DEF SendInv, ReplySomewhere, ReplyNowhereElse
  <2>3. QED
    <3> HIDE DEF Q, T, F, X
    <3>1. Cardinality(Q) + Cardinality(T) + Cardinality(F) + Cardinality(X) = 1
      BY <2>1, <2>2
    <3>2. QED
      BY <3>1 DEF Q, T, F, X
<1>2. QED
  BY <1>1, SendInvariant, PTL

(* The sender threads, the queues and the stop have their types; a           *)
(* SendThread never returns.                                                 *)
THEOREM SendTypes == SendSpec => []SendTypeOK
<1>1. SendInv => SendTypeOK
  BY DEF SendInv
<1>2. QED
  BY <1>1, SendInvariant, PTL

-----------------------------------------------------------------------------
(* Accounts: handlers that use the database, for any number of threads,      *)
(* accounts, passwords and nicknames.  The two statements of a handler are   *)
(* not one transaction; what the second may rely on is that an account is    *)
(* never changed or removed and that getdate() does not go back.             *)

(* What a handler is about to insert.                                        *)
HandlerLocals == (Ids \X Account) \cup Ids \cup (Ids \X Ids) \cup {None}
AccountsTyped == AccountsTypeOK /\ inserting \in [Callers -> HandlerLocals]

(* The rows of cso_relation are what users were told, as far as ids are read *)
(* back, and both statements of FriendAdd concern an account that exists.    *)
RowsAsTold ==
  \A from, to \in Ids : ReadsBack(to) => (<<from, to>> \in cso_relation <=> <<from, to>> \in friends)
FriendsExist ==
  /\ \A f \in friends : Exists(f[2])
  /\ \A w \in Callers : stepOf[w] = "insertRelation" => Exists(inserting[w][2])

(* No date is later than getdate().                                          *)
DatesPast == \A id \in Ids : lastlogdate[id] # None => lastlogdate[id] <= now

AccountsInv ==
  /\ AccountsTyped
  /\ AccountsStay /\ StoredWasCreated
  /\ RowsAsTold /\ FriendsExist
  /\ DatesPast /\ LastLoginIsLogged

-----------------------------------------------------------------------------
(* The step of a handler changes what its own thread does next, and inserts. *)
LEMMA GotoFacts ==
  ASSUME AccountsTyped, NEW w \in Callers, NEW label, NEW x, Goto(w, label, x)
  PROVE  /\ stepOf'[w] = label /\ inserting'[w] = x
         /\ \A u \in Callers \ {w} : stepOf'[u] = stepOf[u] /\ inserting'[u] = inserting[u]
BY DEF Goto, AccountsTyped, AccountsTypeOK

(* It keeps their types.                                                     *)
LEMMA GotoTyped ==
  ASSUME AccountsTyped, NEW w \in Callers, NEW x \in HandlerLocals,
         NEW label \in {"idle", "insertUser", "updateUser", "insertLogin", "insertRelation"},
         Goto(w, label, x),
         label = "insertUser" => x \in Ids \X Account,
         label \in {"updateUser", "insertLogin"} => x \in Ids,
         label = "insertRelation" => x \in Ids \X Ids
  PROVE  /\ stepOf' \in [Callers -> {"idle", "insertUser", "updateUser", "insertLogin", "insertRelation"}]
         /\ inserting' \in [Callers -> HandlerLocals]
         /\ \A u \in Callers :
              /\ stepOf'[u] = "insertUser" => inserting'[u] \in Ids \X Account
              /\ stepOf'[u] \in {"updateUser", "insertLogin"} => inserting'[u] \in Ids
              /\ stepOf'[u] = "insertRelation" => inserting'[u] \in Ids \X Ids
<1>1. /\ stepOf'[w] = label /\ inserting'[w] = x
      /\ \A u \in Callers \ {w} : stepOf'[u] = stepOf[u] /\ inserting'[u] = inserting[u]
  BY GotoFacts
<1>2. /\ stepOf' \in [Callers -> {"idle", "insertUser", "updateUser", "insertLogin", "insertRelation"}]
      /\ inserting' \in [Callers -> HandlerLocals]
  BY DEF Goto, AccountsTyped, AccountsTypeOK
<1>3. QED
  BY <1>1, <1>2 DEF AccountsTyped, AccountsTypeOK

(* An account, once stored, is neither changed nor removed, and a new one is *)
(* stored under the id it was asked for, as that is cut.                     *)
LEMMA StoreKeeps ==
  ASSUME AccountsTyped, NEW i \in Ids, NEW account \in Account, StoreUser(i, account)
  PROVE  /\ cso_id' \in [Ids -> Account \cup {None}]
         /\ \A id \in Ids : Exists(id) => Exists(id)' /\ cso_id'[id] = cso_id[id]
         /\ \A id \in Ids : Exists(id)' => Exists(id) \/ (id = Cut10[i] /\ cso_id'[id] = StoredAccount(account))
<1>1. Cut10[i] \in Ids /\ StoredAccount(account) \in Account /\ StoredAccount(account) # None
  BY AccountsAssumption DEF StoredAccount, Account
<1>2. CASE UNCHANGED cso_id
  BY <1>2 DEF Exists, AccountsTyped, AccountsTypeOK
<1>3. CASE ~Exists(Cut10[i]) /\ cso_id' = [cso_id EXCEPT ![Cut10[i]] = StoredAccount(account)]
  <2>1. /\ cso_id' \in [Ids -> Account \cup {None}]
        /\ cso_id'[Cut10[i]] = StoredAccount(account)
        /\ \A id \in Ids \ {Cut10[i]} : cso_id'[id] = cso_id[id]
    BY <1>1, <1>3 DEF AccountsTyped, AccountsTypeOK
  <2>2. QED
    BY <1>3, <2>1 DEF Exists
<1>4. QED
  BY <1>2, <1>3 DEF StoreUser

(* So ReadsBack holds of no id of which it did not hold before.              *)
LEMMA StoreConfuses ==
  ASSUME AccountsTyped, NEW i \in Ids, NEW account \in Account, StoreUser(i, account),
         NEW to \in Ids, ReadsBack(to)'
  PROVE  ReadsBack(to)
BY StoreKeeps DEF ReadsBack

(* The invariant holds at first.                                             *)
LEMMA AccountsInitInv == AccountsInit => AccountsInv
BY AccountsAssumption
   DEF AccountsInit, AccountsInv, AccountsTyped, AccountsTypeOK, HandlerLocals,
       AccountsStay, LetsIn, StoredWasCreated, RowsAsTold, ReadsBack,
       FriendsExist, DatesPast, LastLoginIsLogged, Exists, Dates

-----------------------------------------------------------------------------
(* One lemma per statement or handler step.                                  *)

(* UserMake selects; what it will insert is checked again by the key.        *)
LEMMA UserMakeStep ==
  ASSUME AccountsInv, NEW w \in Callers, NEW id \in Ids, NEW account \in Account, UserMake(w, id, account)
  PROVE  AccountsInv'
<1>1. CASE UNCHANGED accountsVars
  BY <1>1
    DEF accountsVars, tables, logins, history, AccountsInv, AccountsTyped, AccountsTypeOK, AccountsStay, LetsIn, StoredWasCreated, RowsAsTold, ReadsBack, FriendsExist, DatesPast, LastLoginIsLogged, Exists
<1>2. CASE Goto(w, "insertUser", <<id, account>>)
  <2>0. /\ UNCHANGED <<tables, logins, now, history>> /\ stepOf[w] = "idle"
        /\ UNCHANGED <<cso_id, cso_relation, lastlogdate, cso_login, created, entered, friends>>
    BY DEF UserMake, tables, logins, history
  <2>1. AccountsTyped'
    BY <1>2, <2>0, GotoTyped DEF AccountsInv, AccountsTyped, AccountsTypeOK, HandlerLocals
  <2>2. /\ stepOf'[w] = "insertUser"
        /\ \A u \in Callers \ {w} : stepOf'[u] = stepOf[u] /\ inserting'[u] = inserting[u]
    BY <1>2, GotoFacts DEF AccountsInv
  <2>3. FriendsExist' /\ LastLoginIsLogged'
    BY <2>0, <2>2 DEF AccountsInv, FriendsExist, LastLoginIsLogged, Exists
  <2>4. QED
    BY <2>0, <2>1, <2>3
      DEF AccountsInv, AccountsStay, LetsIn, StoredWasCreated, RowsAsTold, ReadsBack, DatesPast, Exists
<1>3. QED
  BY <1>1, <1>2 DEF UserMake, accountsVars, tables, logins, history

(* InsertUser stores the account or finds one that was made meanwhile.       *)
LEMMA InsertUserStep ==
  ASSUME AccountsInv, NEW w \in Callers, InsertUser(w)
  PROVE  AccountsInv'
<1>0. PICK i \in Ids, account \in Account :
        /\ inserting[w] = <<i, account>> /\ stepOf[w] = "insertUser"
        /\ StoreUser(i, account)
        /\ created' = created \cup {<<i, account>>}
        /\ Goto(w, "idle", None)
        /\ UNCHANGED <<cso_relation, lastlogdate, cso_login, now, entered, friends>>
  BY DEF InsertUser, AccountsInv, AccountsTyped, AccountsTypeOK, logins
<1>1. /\ cso_id' \in [Ids -> Account \cup {None}]
      /\ \A id \in Ids : Exists(id) => Exists(id)' /\ cso_id'[id] = cso_id[id]
      /\ \A id \in Ids : Exists(id)' => Exists(id) \/ (id = Cut10[i] /\ cso_id'[id] = StoredAccount(account))
  BY <1>0, StoreKeeps DEF AccountsInv
<1>2. /\ stepOf'[w] = "idle"
      /\ \A u \in Callers \ {w} : stepOf'[u] = stepOf[u] /\ inserting'[u] = inserting[u]
  BY <1>0, GotoFacts DEF AccountsInv
<1>3. AccountsTyped'
  BY <1>0, <1>1, GotoTyped DEF AccountsInv, AccountsTyped, AccountsTypeOK, HandlerLocals
<1>4. AccountsStay'
  <2>1. ASSUME NEW e \in entered PROVE LetsIn(e[1], e[2])'
    <3>1. Cut10[e[1]] \in Ids /\ LetsIn(e[1], e[2])
      BY AccountsAssumption DEF AccountsInv, AccountsTyped, AccountsTypeOK, AccountsStay
    <3>2. QED
      BY <1>1, <3>1 DEF LetsIn
  <2>2. QED
    BY <1>0, <2>1 DEF AccountsStay
<1>6. StoredWasCreated'
  <2>1. ASSUME NEW id \in Ids, Exists(id)'
        PROVE  \E c \in created' : Cut10[c[1]] = id /\ StoredAccount(c[2]) = cso_id'[id]
    <3>1. CASE Exists(id)
      BY <1>0, <1>1, <3>1 DEF AccountsInv, StoredWasCreated
    <3>2. CASE id = Cut10[i] /\ cso_id'[id] = StoredAccount(account)
      <4>1. <<i, account>> \in created' /\ <<i, account>>[1] = i /\ <<i, account>>[2] = account
        BY <1>0
      <4>2. QED
        BY <3>2, <4>1
    <3>3. QED
      BY <1>1, <2>1, <3>1, <3>2
  <2>2. QED
    BY <2>1 DEF StoredWasCreated, StoredAccount
<1>7. FriendsExist'
  <2>1. ASSUME NEW f \in friends PROVE Exists(f[2])'
    <3>1. f[2] \in Ids /\ Exists(f[2])
      BY DEF AccountsInv, AccountsTyped, AccountsTypeOK, FriendsExist
    <3>2. QED
      BY <1>1, <3>1
  <2>2. ASSUME NEW u \in Callers, stepOf'[u] = "insertRelation" PROVE cso_id'[inserting'[u][2]] # None
    <3>1. u # w /\ stepOf[u] = "insertRelation" /\ inserting'[u] = inserting[u]
      BY <1>2, <2>2
    <3>2. inserting[u][2] \in Ids /\ Exists(inserting[u][2])
      BY <3>1 DEF AccountsInv, AccountsTyped, AccountsTypeOK, FriendsExist
    <3>3. QED
      BY <1>1, <3>1, <3>2 DEF Exists
  <2>3. QED
    BY <1>0, <2>1, <2>2 DEF FriendsExist, Exists
<1>8. RowsAsTold' /\ DatesPast'
  <2>1. \A to \in Ids : ReadsBack(to)' => ReadsBack(to)
    BY <1>0, StoreConfuses DEF AccountsInv
  <2>2. RowsAsTold'
    BY <1>0, <2>1 DEF AccountsInv, RowsAsTold
  <2>3. QED
    BY <1>0, <2>2 DEF AccountsInv, DatesPast
<1>9. LastLoginIsLogged'
  BY <1>0, <1>2 DEF AccountsInv, LastLoginIsLogged
<1>10. QED
  BY <1>3, <1>4, <1>6, <1>7, <1>8, <1>9 DEF AccountsInv

(* UserEnter lets in who knows the stored password.                          *)
LEMMA UserEnterStep ==
  ASSUME AccountsInv, NEW w \in Callers, NEW id \in Ids, NEW password \in Passwords, UserEnter(w, id, password)
  PROVE  AccountsInv'
<1>0. UNCHANGED <<cso_id, cso_relation, lastlogdate, cso_login, now, created, friends>> /\ stepOf[w] = "idle"
  BY DEF UserEnter, tables, logins
<1>1. /\ entered' \subseteq Ids \X Passwords
      /\ AccountsStay'
  <2>1. CASE entered' = entered
    BY <1>0, <2>1 DEF AccountsInv, AccountsTyped, AccountsTypeOK, AccountsStay, LetsIn, Exists
  <2>2. CASE LetsIn(id, password) /\ entered' = entered \cup {<<id, password>>}
    BY <1>0, <2>2 DEF AccountsInv, AccountsTyped, AccountsTypeOK, AccountsStay, LetsIn, Exists
  <2>3. QED
    BY <2>1, <2>2 DEF UserEnter
<1>2. StoredWasCreated' /\ RowsAsTold' /\ DatesPast'
  BY <1>0 DEF AccountsInv, StoredWasCreated, RowsAsTold, ReadsBack, DatesPast, Exists
<1>3. CASE UNCHANGED <<stepOf, inserting>>
  <2>1. AccountsTyped' /\ FriendsExist' /\ LastLoginIsLogged'
    BY <1>0, <1>1, <1>3 DEF AccountsInv, AccountsTyped, AccountsTypeOK, FriendsExist, LastLoginIsLogged, Exists
  <2>2. QED
    BY <1>1, <1>2, <2>1 DEF AccountsInv
<1>4. CASE Goto(w, "updateUser", Cut10[id])
  <2>1. AccountsTyped'
    BY <1>0, <1>1, <1>4, GotoTyped, AccountsAssumption DEF AccountsInv, AccountsTyped, AccountsTypeOK, HandlerLocals
  <2>2. /\ stepOf'[w] = "updateUser"
        /\ \A u \in Callers \ {w} : stepOf'[u] = stepOf[u] /\ inserting'[u] = inserting[u]
    BY <1>4, GotoFacts DEF AccountsInv
  <2>3. FriendsExist' /\ LastLoginIsLogged'
    BY <1>0, <2>2 DEF AccountsInv, FriendsExist, LastLoginIsLogged, Exists
  <2>4. QED
    BY <1>1, <1>2, <2>1, <2>3 DEF AccountsInv
<1>5. QED
  BY <1>3, <1>4 DEF UserEnter

(* UpdateUser writes the date; its InsertLogin is still to come.             *)
LEMMA UpdateUserStep ==
  ASSUME AccountsInv, NEW w \in Callers, UpdateUser(w)
  PROVE  AccountsInv'
<1>0. PICK i \in Ids :
        /\ inserting[w] = i /\ stepOf[w] = "updateUser"
        /\ lastlogdate' = [lastlogdate EXCEPT ![i] = now]
        /\ Goto(w, "insertLogin", i)
        /\ UNCHANGED <<cso_id, cso_relation, cso_login, now, created, entered, friends>>
  BY DEF UpdateUser, AccountsInv, AccountsTyped, AccountsTypeOK, tables, history
<1>1. /\ stepOf'[w] = "insertLogin" /\ inserting'[w] = i
      /\ \A u \in Callers \ {w} : stepOf'[u] = stepOf[u] /\ inserting'[u] = inserting[u]
  BY <1>0, GotoFacts DEF AccountsInv
<1>2. /\ lastlogdate' \in [Ids -> Dates \cup {None}]
      /\ lastlogdate'[i] = now
      /\ \A id \in Ids \ {i} : lastlogdate'[id] = lastlogdate[id]
  BY <1>0 DEF AccountsInv, AccountsTyped, AccountsTypeOK
<1>3. AccountsTyped'
  BY <1>0, <1>2, GotoTyped DEF AccountsInv, AccountsTyped, AccountsTypeOK, HandlerLocals
<1>4. AccountsStay' /\ StoredWasCreated' /\ RowsAsTold'
  BY <1>0 DEF AccountsInv, AccountsStay, LetsIn, StoredWasCreated, RowsAsTold, ReadsBack, Exists
<1>5. FriendsExist'
  BY <1>0, <1>1 DEF AccountsInv, FriendsExist, Exists
<1>6. DatesPast'
  <2>1. now \in Nat /\ now' = now
    BY <1>0, AccountsAssumption DEF AccountsInv, AccountsTyped, AccountsTypeOK, Dates
  <2>2. QED
    BY <1>2, <2>1 DEF AccountsInv, DatesPast
<1>7. LastLoginIsLogged'
  <2>1. ASSUME NEW id \in Ids \ {i}
        PROVE  \/ lastlogdate'[id] = None
               \/ \E date \in Dates : date >= lastlogdate'[id] /\ <<id, date>> \in cso_login'
               \/ \E u \in Callers : stepOf'[u] = "insertLogin" /\ inserting'[u] = id
    <3>1. lastlogdate'[id] = lastlogdate[id] /\ cso_login' = cso_login
      BY <1>0, <1>2
    <3>2. \A u \in Callers : stepOf[u] = "insertLogin" => stepOf'[u] = "insertLogin" /\ inserting'[u] = inserting[u]
      BY <1>0, <1>1
    <3>3. QED
      BY <3>1, <3>2 DEF AccountsInv, LastLoginIsLogged
  <2>2. QED
    BY <1>1, <2>1 DEF LastLoginIsLogged
<1>8. QED
  BY <1>3, <1>4, <1>5, <1>6, <1>7 DEF AccountsInv

(* InsertLogin logs a date that is not before the last-login date.           *)
LEMMA InsertLoginStep ==
  ASSUME AccountsInv, NEW w \in Callers, InsertLogin(w)
  PROVE  AccountsInv'
<1>0. PICK i \in Ids :
        /\ inserting[w] = i /\ stepOf[w] = "insertLogin"
        /\ cso_login' = cso_login \cup {<<i, now>>}
        /\ Goto(w, "idle", None)
        /\ UNCHANGED <<cso_id, cso_relation, lastlogdate, now, created, entered, friends>>
  BY DEF InsertLogin, AccountsInv, AccountsTyped, AccountsTypeOK, tables, history
<1>1. /\ stepOf'[w] = "idle"
      /\ \A u \in Callers \ {w} : stepOf'[u] = stepOf[u] /\ inserting'[u] = inserting[u]
  BY <1>0, GotoFacts DEF AccountsInv
<1>2. AccountsTyped'
  BY <1>0, GotoTyped DEF AccountsInv, AccountsTyped, AccountsTypeOK, HandlerLocals
<1>3. AccountsStay' /\ StoredWasCreated' /\ RowsAsTold' /\ DatesPast'
  BY <1>0 DEF AccountsInv, AccountsStay, LetsIn, StoredWasCreated, RowsAsTold, ReadsBack, DatesPast, Exists
<1>4. FriendsExist'
  BY <1>0, <1>1 DEF AccountsInv, FriendsExist, Exists
<1>5. LastLoginIsLogged'
  <2>1. ASSUME NEW id \in Ids, lastlogdate[id] # None,
               ~ \E date \in Dates : date >= lastlogdate[id] /\ <<id, date>> \in cso_login'
        PROVE  \E u \in Callers : stepOf'[u] = "insertLogin" /\ inserting'[u] = id
    <3>1. now \in Dates /\ now >= lastlogdate[id]
      <4>1. now \in Dates /\ lastlogdate[id] \in Dates /\ lastlogdate[id] <= now
        BY <2>1 DEF AccountsInv, AccountsTyped, AccountsTypeOK, DatesPast
      <4>2. QED
        BY <4>1, AccountsAssumption DEF Dates
    <3>2. id # i
      BY <1>0, <2>1, <3>1
    <3>3. PICK u \in Callers : stepOf[u] = "insertLogin" /\ inserting[u] = id
      BY <1>0, <2>1 DEF AccountsInv, LastLoginIsLogged
    <3>4. QED
      BY <1>0, <1>1, <3>2, <3>3
  <2>2. QED
    BY <1>0, <2>1 DEF LastLoginIsLogged
<1>6. QED
  BY <1>2, <1>3, <1>4, <1>5 DEF AccountsInv

(* FriendAdd selects an account, which stays.                                *)
LEMMA FriendAddStep ==
  ASSUME AccountsInv, NEW w \in Callers, NEW from \in Ids, NEW nick \in Nicks, FriendAdd(w, from, nick)
  PROVE  AccountsInv'
<1>0. UNCHANGED <<cso_id, cso_relation, lastlogdate, cso_login, now, created, entered, friends>> /\ stepOf[w] = "idle"
  BY DEF FriendAdd, tables, logins, history
<1>1. AccountsStay' /\ StoredWasCreated' /\ RowsAsTold' /\ DatesPast'
  BY <1>0 DEF AccountsInv, AccountsStay, LetsIn, StoredWasCreated, RowsAsTold, ReadsBack, DatesPast, Exists
<1>2. CASE UNCHANGED <<stepOf, inserting>>
  <2>1. AccountsTyped' /\ FriendsExist' /\ LastLoginIsLogged'
    BY <1>0, <1>2 DEF AccountsInv, AccountsTyped, AccountsTypeOK, FriendsExist, LastLoginIsLogged, Exists
  <2>2. QED
    BY <1>1, <2>1 DEF AccountsInv
<1>3. ASSUME NEW to \in Named(nick), Goto(w, "insertRelation", <<from, to>>)
      PROVE  AccountsInv'
  <2>0. to \in Ids /\ Exists(to)
    BY DEF Named
  <2>1. AccountsTyped'
    BY <1>0, <1>3, <2>0, GotoTyped DEF AccountsInv, AccountsTyped, AccountsTypeOK, HandlerLocals
  <2>2. /\ stepOf'[w] = "insertRelation" /\ inserting'[w] = <<from, to>>
        /\ \A u \in Callers \ {w} : stepOf'[u] = stepOf[u] /\ inserting'[u] = inserting[u]
    BY <1>3, GotoFacts DEF AccountsInv
  <2>3. FriendsExist'
    BY <1>0, <2>0, <2>2 DEF AccountsInv, FriendsExist, Exists
  <2>4. LastLoginIsLogged'
    BY <1>0, <2>2 DEF AccountsInv, LastLoginIsLogged
  <2>5. QED
    BY <1>1, <2>1, <2>3, <2>4 DEF AccountsInv
<1>4. QED
  BY <1>2, <1>3 DEF FriendAdd

(* InsertRelation adds a row and tells so, or fails and does neither.  The    *)
(* row is that of the friend told unless the cut confuses its id.            *)
LEMMA InsertRelationStep ==
  ASSUME AccountsInv, NEW w \in Callers, InsertRelation(w)
  PROVE  AccountsInv'
<1>a. PICK from \in Ids, to \in Ids : inserting[w] = <<from, to>>
  BY DEF InsertRelation, AccountsInv, AccountsTyped, AccountsTypeOK
<1>0. /\ inserting[w] = <<from, to>> /\ stepOf[w] = "insertRelation"
      /\ \/ /\ cso_relation' = cso_relation \cup {<<from, Cut9[to]>>}
            /\ friends' = friends \cup {<<from, to>>}
         \/ UNCHANGED <<cso_relation, friends>>
      /\ Goto(w, "idle", None)
      /\ UNCHANGED <<cso_id, lastlogdate, cso_login, now, created, entered>>
  BY <1>a DEF InsertRelation, NewRow, logins
<1>b. Exists(to) /\ Cut9[to] \in Ids
  BY <1>0, AccountsAssumption DEF AccountsInv, FriendsExist
<1>1. /\ stepOf'[w] = "idle"
      /\ \A u \in Callers \ {w} : stepOf'[u] = stepOf[u] /\ inserting'[u] = inserting[u]
  BY <1>0, GotoFacts DEF AccountsInv
<1>2. AccountsTyped'
  BY <1>0, <1>b, GotoTyped DEF AccountsInv, AccountsTyped, AccountsTypeOK, HandlerLocals
<1>3. AccountsStay' /\ StoredWasCreated' /\ DatesPast'
  BY <1>0 DEF AccountsInv, AccountsStay, LetsIn, StoredWasCreated, DatesPast, Exists
<1>4. RowsAsTold'
  <2>1. ASSUME NEW f \in Ids, NEW t \in Ids, ReadsBack(t)
        PROVE  <<f, t>> \in cso_relation' <=> <<f, t>> \in friends'
    <3>1. <<f, t>> \in cso_relation <=> <<f, t>> \in friends
      BY <2>1 DEF AccountsInv, RowsAsTold
    <3>2. Cut9[to] = t <=> to = t
      BY <1>b, <2>1 DEF ReadsBack
    <3>3. QED
      BY <1>0, <3>1, <3>2
  <2>2. \A t \in Ids : ReadsBack(t)' => ReadsBack(t)
    BY <1>0 DEF ReadsBack, Exists
  <2>3. QED
    BY <2>1, <2>2 DEF RowsAsTold
<1>5. FriendsExist'
  <2>1. \A f \in friends' : Exists(f[2])
    BY <1>0, <1>b DEF AccountsInv, FriendsExist
  <2>2. \A u \in Callers : stepOf'[u] = "insertRelation" => cso_id[inserting'[u][2]] # None
    BY <1>1 DEF AccountsInv, FriendsExist, Exists
  <2>3. QED
    BY <1>0, <2>1, <2>2 DEF FriendsExist, Exists
<1>6. LastLoginIsLogged'
  BY <1>0, <1>1 DEF AccountsInv, LastLoginIsLogged
<1>7. QED
  BY <1>2, <1>3, <1>4, <1>5, <1>6 DEF AccountsInv

(* FriendDelete deletes the rows and tells so, or fails and does neither.    *)
LEMMA FriendDeleteStep ==
  ASSUME AccountsInv, NEW w \in Callers, NEW from \in Ids, NEW nick \in Nicks, FriendDelete(w, from, nick)
  PROVE  AccountsInv'
<1>0. UNCHANGED <<cso_id, lastlogdate, cso_login, now, stepOf, inserting, created, entered>>
  BY DEF FriendDelete, logins
<1>1. /\ cso_relation' \subseteq cso_relation /\ friends' \subseteq friends
      /\ \A f, t \in Ids : (<<f, t>> \in cso_relation <=> <<f, t>> \in friends)
                           => (<<f, t>> \in cso_relation' <=> <<f, t>> \in friends')
  <2>1. CASE /\ cso_relation' = cso_relation \ DeletedRows(from, nick)
             /\ friends' = {f \in friends : ~(f[1] = from /\ f[2] \in Named(nick))}
    BY <2>1 DEF DeletedRows
  <2>2. CASE UNCHANGED <<cso_relation, friends>>
    BY <2>2
  <2>3. QED
    BY <2>1, <2>2 DEF FriendDelete
<1>2. AccountsTyped'
  BY <1>0, <1>1 DEF AccountsInv, AccountsTyped, AccountsTypeOK
<1>3. RowsAsTold'
  <2>1. \A t \in Ids : ReadsBack(t)' => ReadsBack(t)
    BY <1>0 DEF ReadsBack, Exists
  <2>2. QED
    BY <1>1, <2>1 DEF AccountsInv, RowsAsTold
<1>4. AccountsStay' /\ StoredWasCreated' /\ DatesPast' /\ LastLoginIsLogged'
  BY <1>0 DEF AccountsInv, AccountsStay, LetsIn, StoredWasCreated, DatesPast, LastLoginIsLogged, Exists
<1>5. FriendsExist'
  BY <1>0, <1>1 DEF AccountsInv, FriendsExist, Exists
<1>6. QED
  BY <1>2, <1>3, <1>4, <1>5 DEF AccountsInv

(* getdate() goes on.                                                        *)
LEMMA TickStep == ASSUME AccountsInv, Tick PROVE AccountsInv'
<1>0. /\ UNCHANGED <<cso_id, cso_relation, lastlogdate, cso_login, stepOf, inserting, created, entered, friends>>
      /\ now' = now + 1 /\ now < MaxDate
  BY DEF Tick, tables, logins, history
<1>1. now \in Nat /\ now' \in Dates /\ now <= now'
  BY <1>0, AccountsAssumption DEF AccountsInv, AccountsTyped, AccountsTypeOK, Dates
<1>2. AccountsTyped'
  BY <1>0, <1>1 DEF AccountsInv, AccountsTyped, AccountsTypeOK
<1>3. AccountsStay' /\ StoredWasCreated' /\ RowsAsTold' /\ FriendsExist' /\ LastLoginIsLogged'
  BY <1>0
    DEF AccountsInv, AccountsStay, LetsIn, StoredWasCreated, RowsAsTold, ReadsBack, FriendsExist, LastLoginIsLogged,
        Exists
<1>4. DatesPast'
  <2>1. ASSUME NEW id \in Ids, lastlogdate[id] # None PROVE lastlogdate[id] <= now'
    <3>1. lastlogdate[id] \in Dates /\ lastlogdate[id] <= now
      BY <2>1 DEF AccountsInv, AccountsTyped, AccountsTypeOK, DatesPast
    <3>2. QED
      BY <1>0, <1>1, <3>1, AccountsAssumption DEF Dates
  <2>2. QED
    BY <1>0, <2>1 DEF DatesPast
<1>5. QED
  BY <1>2, <1>3, <1>4 DEF AccountsInv

-----------------------------------------------------------------------------
(* Every step keeps the invariant.                                           *)
LEMMA AccountsNextInv == AccountsInv /\ [AccountsNext]_accountsVars => AccountsInv'
<1> SUFFICES ASSUME AccountsInv, [AccountsNext]_accountsVars PROVE AccountsInv'
  OBVIOUS
<1>1. CASE UNCHANGED accountsVars
  BY <1>1
    DEF accountsVars, logins, history, AccountsInv, AccountsTyped, AccountsTypeOK, AccountsStay, LetsIn, StoredWasCreated, RowsAsTold, ReadsBack, FriendsExist, DatesPast, LastLoginIsLogged, Exists
<1>2. CASE AccountsNext
  BY <1>2, TickStep, UserMakeStep, UserEnterStep, FriendAddStep, FriendDeleteStep, InsertUserStep,
     UpdateUserStep, InsertLoginStep, InsertRelationStep DEF AccountsNext
<1>3. QED
  BY <1>1, <1>2

(* The invariant is one of the specification.                                *)
THEOREM AccountsInvariant == AccountsSpec => []AccountsInv
BY AccountsInitInv, AccountsNextInv, PTL DEF AccountsSpec

(* The tables and what the handlers keep between two statements have their   *)
(* types.                                                                    *)
THEOREM AccountTypes == AccountsSpec => []AccountsTypeOK
<1>1. AccountsInv => AccountsTypeOK
  BY DEF AccountsInv, AccountsTyped
<1>2. QED
  BY <1>1, AccountsInvariant, PTL

(* Whoever UserEnter let in once is let in with the same texts ever after,   *)
(* however many UserMakes have selected the id before and insert it now, and *)
(* however ids and passwords are cut.                                        *)
THEOREM AccountsAreKept == AccountsSpec => []AccountsStay
<1>1. AccountsInv => AccountsStay
  BY DEF AccountsInv
<1>2. QED
  BY <1>1, AccountsInvariant, PTL

(* Every account stored is one that a client gave and was told of: of those  *)
(* that make one id at once, or ids that are cut to one, each told that it   *)
(* has, it is that of one of them, whichever inserts fail.                   *)
THEOREM AccountIsOneOfThose == AccountsSpec => []StoredWasCreated
<1>1. AccountsInv => StoredWasCreated
  BY DEF AccountsInv
<1>2. QED
  BY <1>1, AccountsInvariant, PTL

(* FriendInfo shows the friends that FriendAdd and FriendDelete told, with   *)
(* any interleaving of their statements and any failures, for every friend   *)
(* whose id findUserId reads back whole and as no other's.                   *)
THEOREM FriendsAgree == AccountsSpec => []FriendsAsTold
<1>1. AccountsInv => FriendsAsTold
  <2>1. ASSUME AccountsInv, NEW from \in Ids, NEW to \in Ids, ReadsBack(to)
        PROVE  to \in selectFriends(from) <=> <<from, to>> \in friends
    <3>1. <<from, to>> \in cso_relation <=> <<from, to>> \in friends
      BY <2>1 DEF AccountsInv, RowsAsTold
    <3>2. <<from, to>> \in friends => Exists(to)
      BY <2>1 DEF AccountsInv, FriendsExist
    <3>3. QED
      BY <3>1, <3>2 DEF selectFriends
  <2>2. QED
    BY <2>1 DEF FriendsAsTold
<1>2. QED
  BY <1>1, AccountsInvariant, PTL

(* The login log keeps up with the last-login date: InitUser's two           *)
(* statements have a date each, and logins of one account may overlap.       *)
THEOREM LoginsAreLogged == AccountsSpec => []LastLoginIsLogged
<1>1. AccountsInv => LastLoginIsLogged
  BY DEF AccountsInv
<1>2. QED
  BY <1>1, AccountsInvariant, PTL
=============================================================================
