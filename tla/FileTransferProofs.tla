------------------------ MODULE FileTransferProofs ------------------------
(***************************************************************************)
(* Theorems about FileTransfer for any number of clients, WorkThreads and   *)
(* faults and files of any length: how far one transfer goes without being  *)
(* disturbed, and that members keep in step with the server as long as they *)
(* get its datagrams in order.                                              *)
(***************************************************************************)
EXTENDS FileTransfer, SequenceTheorems, TLAPS

Gram == UNION {{c} \X (0 .. EndPart(c)) : c \in Clients}

(* What a WorkThread's locals are in a step.                                 *)
LocType == [client : Clients \cup {None}, file : Names \cup {None}, pos : Nat]
LocFits(label, x) ==
  /\ label = "idle" => x = NoLoc
  /\ label # "idle" => x.client \in Clients
  /\ label = "name" => x.pos = 0
  /\ label \in {"data", "queue"} => x.file \in Names

(* What the variables hold, and a WorkThread's locals in each of its steps.  *)
RecvTyped ==
  /\ parts \in [Clients -> Nat] /\ \A c \in Clients : parts[c] \in 0 .. Size[c] + 3
  /\ jobs \subseteq Clients
  /\ net \in Seq(Gram)
  /\ disk \in [Names -> Seq(Content)]
  /\ pc \in [Workers -> {"idle", "name", "data", "queue"}]
  /\ loc \in [Workers -> LocType]
  /\ \A w \in Workers : LocFits(pc[w], loc[w])
SendTyped ==
  /\ sendQueue \in Seq(Names)
  /\ srv \in [file : Names \cup {None}, pos : Nat, left : SUBSET Clients,
              now : Clients \cup {None}, served : SUBSET Clients]
  /\ srv.now # None => srv.file \in Names
  /\ srv.left # {} => srv.file \in Names
RestTyped ==
  /\ process \in {"up", "crashed"}
  /\ members \subseteq Clients /\ live \subseteq Clients
  /\ faults \in 0 .. MaxFaults
Typed == RecvTyped /\ SendTyped /\ RestTyped

(* What is on its way to the members, and what they have stored.             *)
ToMember == Content \cup {Title, End}
Download == [waits : {"name", "data", "dead"}, data : Seq(Content \cup {Title})]
MembersTyped ==
  /\ out \in [Clients -> Seq(ToMember)]
  /\ download \in [Clients -> Download]
  /\ missed \subseteq Clients

(* The datagrams o that RecvFileThread in state f has still to get continue  *)
(* what it got: a name comes first or after an end, and nowhere else.  They  *)
(* are complete unless the server is sending more.                           *)
Follows(o, f, sending) ==
  /\ f.waits \in {"name", "data"}
  /\ \A i \in DOMAIN f.data : f.data[i] # Title
  /\ o # <<>> => (o[1] = Title <=> f.waits = "name")
  /\ \A i \in 1 .. Len(o) : i > 1 => (o[i] = Title <=> o[i - 1] = End)
  /\ sending <=> IF o = <<>> THEN f.waits = "data" ELSE o[Len(o)] # End

InStep == \A m \in Clients \ missed : Follows(out[m], download[m], srv.now = m)

StepInv == Typed /\ MembersTyped /\ InStep

-----------------------------------------------------------------------------
(* One transfer, from the announcement to the last member.                   *)

(* The datagrams a .. b - 1 of client c.                                     *)
Datagrams(c, a, b) == [i \in 1 .. b - a |-> <<c, a + i - 1>>]
Chunks(c, n) == [i \in 1 .. n |-> <<c, i>>]

AllIdle == \A w \in Workers : pc[w] = "idle"
OnlyBusy(w) == \A u \in Workers \ {w} : pc[u] = "idle"
SentAll(c) == parts[c] \in {0, Size[c] + 3}
Resting(c) == \A d \in Clients \ {c} : SentAll(d)

(* Client c alone is sending, and what it has sent from part p on has not    *)
(* been received yet.                                                        *)
Coming(c, p) ==
  /\ Resting(c)
  /\ \E n \in 1 .. Size[c] + 3 : p < n /\ parts[c] = n /\ net = Datagrams(c, p, n - 1)

Announced(c) ==
  /\ jobs = {c} /\ AllIdle /\ Coming(c, 0)
  /\ sendQueue = <<>> /\ srv = NoSrv

Naming(c, w) ==
  /\ jobs = {} /\ OnlyBusy(w) /\ pc[w] = "name" /\ loc[w].client = c /\ Coming(c, 0)
  /\ sendQueue = <<>> /\ srv = NoSrv

(* The next datagram is the chunk at the position of the thread's FILE.      *)
Storing(c, w) ==
  /\ jobs = {} /\ OnlyBusy(w) /\ pc[w] = "data" /\ loc[w].client = c /\ loc[w].file = FileName[c]
  /\ \E p \in 0 .. Size[c] :
       loc[w].pos = p /\ disk[FileName[c]] = Chunks(c, p) /\ Coming(c, p + 1)
  /\ sendQueue = <<>> /\ srv = NoSrv

AllSent == jobs = {} /\ net = <<>> /\ \A c \in Clients : SentAll(c)

Stored(c, w) ==
  /\ AllSent /\ OnlyBusy(w) /\ pc[w] = "queue" /\ loc[w].client = c
  /\ loc[w].file = FileName[c] /\ disk[FileName[c]] = File(c)
  /\ sendQueue = <<>> /\ srv = NoSrv

Queued(c) ==
  /\ AllSent /\ AllIdle
  /\ sendQueue = <<FileName[c]>> /\ srv = NoSrv

(* SendToRoomFile has the file.                                              *)
Serving ==
  /\ AllSent /\ AllIdle /\ sendQueue = <<>>
  /\ srv # NoSrv /\ srv.file \in Names

Phase ==
  \/ Quiet
  \/ \E c \in Clients : Announced(c) \/ Queued(c) \/ \E w \in Workers : Naming(c, w) \/ Storing(c, w) \/ Stored(c, w)
  \/ Serving

Transfer == disturbed \/ Phase

TransferInv == StepInv /\ Transfer

-----------------------------------------------------------------------------
(* Datagrams and files.                                                      *)

(* A datagram is its sender and its part, and is not empty as a value.       *)
LEMMA GramFacts ==
  ASSUME NEW d \in Gram
  PROVE  \E c \in Clients : \E k \in 0 .. EndPart(c) : d = <<c, k>> /\ d[1] = c /\ d[2] = k
BY DEF Gram

(* What is written into a file is a chunk, or a name that is taken for one.  *)
LEMMA ContentFacts ==
  ASSUME NEW d \in Gram
  PROVE  d[2] # 0 /\ d[2] # EndPart(d[1]) => d \in Content
<1>0. PICK c \in Clients : \E k \in 0 .. EndPart(c) : d = <<c, k>> /\ d[1] = c /\ d[2] = k
  BY GramFacts
<1>1. PICK k \in 0 .. EndPart(c) : d = <<c, k>> /\ d[1] = c /\ d[2] = k
  BY <1>0
<1>2. Size[c] \in Nat /\ EndPart(c) = Size[c] + 1
  BY FileAssumption DEF EndPart
<1>3. ASSUME k # 0, k # EndPart(c) PROVE d \in Chunk
  <2>1. k \in 1 .. Size[c]
    BY <1>2, <1>3
  <2>2. d \in {c} \X (1 .. Size[c])
    BY <1>1, <2>1
  <2>3. QED
    BY <2>2 DEF Chunk
<1>4. QED
  BY <1>1, <1>3 DEF Content

(* The empty datagram is no content.                                         *)
LEMMA ContentNotEmpty == Gap \in Content /\ \A x \in Content : x # <<>>
<1>1. \A x \in Chunk : \E c, k : x = <<c, k>>
  BY DEF Chunk
<1>2. QED
  BY <1>1 DEF Content, Gap

(* Taking one datagram out leaves datagrams.                                 *)
LEMMA WithoutTyped ==
  ASSUME net \in Seq(Gram), NEW i \in DOMAIN net
  PROVE  Without(i) \in Seq(Gram) /\ net[i] \in Gram
<1>1. Len(net) \in Nat /\ DOMAIN net = 1 .. Len(net) /\ i \in 1 .. Len(net) /\ net[i] \in Gram
  OBVIOUS
<1>2. SubSeq(net, 1, i - 1) \in Seq(Gram) /\ SubSeq(net, i + 1, Len(net)) \in Seq(Gram)
  BY <1>1
<1>3. QED
  BY <1>1, <1>2 DEF Without, WithoutNth

(* fwrite leaves a file of contents.                                         *)
LEMMA WrittenTyped ==
  ASSUME NEW f \in Seq(Content), NEW k \in Nat, NEW x \in Content
  PROVE  Written(f, k, x) \in Seq(Content)
<1> DEFINE n == IF k > Len(f) THEN k ELSE Len(f)
<1>1. n \in Nat
  OBVIOUS
<1>2. \A i \in 1 .. n : (IF i = k THEN x ELSE IF i <= Len(f) THEN f[i] ELSE Gap) \in Content
  BY ContentNotEmpty
<1>3. Written(f, k, x) \in [1 .. n -> Content]
  BY <1>2 DEF Written
<1>4. QED
  BY <1>1, <1>3, SeqDef

-----------------------------------------------------------------------------
(* Types, and the members' downloads.                                        *)

(* At the start.                                                             *)
LEMMA InitStep == Init => StepInv
<1> SUFFICES ASSUME Init PROVE StepInv
  OBVIOUS
<1>1. RecvTyped
  BY FileAssumption DEF Init, RecvTyped, NoLoc, LocType, LocFits
<1>2. SendTyped
  BY DEF Init, SendTyped, NoSrv
<1>3. RestTyped
  BY FileAssumption DEF Init, RestTyped
<1>4. MembersTyped
  <2>1. NoDownload \in Download
    BY DEF NoDownload, Download
  <2>2. QED
    BY <2>1 DEF Init, MembersTyped
<1>5. InStep
  <2>1. ASSUME NEW m \in Clients PROVE Follows(out[m], download[m], srv.now = m)
    <3>1. out[m] = <<>> /\ download[m] = NoDownload /\ srv.now = None /\ m # None
      BY FileAssumption DEF Init, NoSrv
    <3>2. NoDownload.waits = "name" /\ NoDownload.data = <<>>
      BY DEF NoDownload
    <3>3. QED
      BY <3>1, <3>2 DEF Follows
  <2>2. QED
    BY <2>1 DEF InStep
<1>6. QED
  BY <1>1, <1>2, <1>3, <1>4, <1>5 DEF StepInv, Typed

(* The steps of the sending client.                                          *)
LEMMA ClientTyped ==
  ASSUME Typed, NEW c \in Clients, Announce(c) \/ FileSend(c)
  PROVE  Typed'
<1>1. CASE Announce(c)
  <2>1. /\ parts' = [parts EXCEPT ![c] = 1] /\ jobs' = jobs \cup {c}
        /\ UNCHANGED <<process, net, disk, pc, loc, sendQueue, members, live, srv, faults>>
    BY <1>1 DEF Announce, roomVars
  <2>2. Size[c] \in Nat /\ parts \in [Clients -> Nat]
    BY FileAssumption DEF Typed, RecvTyped
  <2>3. parts' \in [Clients -> Nat] /\ \A d \in Clients : parts'[d] \in 0 .. Size[d] + 3
    BY <2>1, <2>2 DEF Typed, RecvTyped
  <2>4. QED
    BY <2>1, <2>3 DEF Typed, RecvTyped, SendTyped, RestTyped
<1>2. CASE FileSend(c)
  <2>1. /\ parts[c] \in 1 .. Size[c] + 2 /\ net' = Append(net, <<c, parts[c] - 1>>)
        /\ parts' = [parts EXCEPT ![c] = @ + 1]
        /\ UNCHANGED <<process, jobs, disk, pc, loc, sendQueue, members, live, srv, faults, disturbed>>
    BY <1>2 DEF FileSend, roomVars
  <2>2. Size[c] \in Nat /\ parts \in [Clients -> Nat]
    BY FileAssumption DEF Typed, RecvTyped
  <2>3. <<c, parts[c] - 1>> \in Gram
    BY <2>1, <2>2 DEF Gram, EndPart
  <2>4. net' \in Seq(Gram)
    BY <2>1, <2>3 DEF Typed, RecvTyped
  <2>5. parts' \in [Clients -> Nat] /\ \A d \in Clients : parts'[d] \in 0 .. Size[d] + 3
    BY <2>1, <2>2 DEF Typed, RecvTyped
  <2>6. QED
    BY <2>1, <2>4, <2>5 DEF Typed, RecvTyped, SendTyped, RestTyped
<1>3. QED
  BY <1>1, <1>2

(* Datagrams, lost or received out of order.                                 *)
LEMMA DatagramTyped ==
  ASSUME Typed, NEW i, Datagram(i)
  PROVE  faults' \in 0 .. MaxFaults
BY FileAssumption DEF Datagram, Typed, RestTyped

(* The network.                                                              *)
LEMMA LoseTyped ==
  ASSUME Typed, NEW i \in DOMAIN net, Lose(i)
  PROVE  Typed'
<1>1. net' \in Seq(Gram) /\ faults' \in 0 .. MaxFaults
  BY WithoutTyped, FileAssumption DEF Lose, Typed, RecvTyped, RestTyped
<1>2. QED
  BY <1>1 DEF Lose, Typed, RecvTyped, SendTyped, RestTyped, roomVars

(* A step of a WorkThread.                                                   *)
LEMMA LocStep ==
  ASSUME Typed, NEW w \in Workers, NEW label \in {"idle", "name", "data", "queue"}, NEW x \in LocType,
         LocFits(label, x), pc' = [pc EXCEPT ![w] = label], loc' = [loc EXCEPT ![w] = x]
  PROVE  /\ pc' \in [Workers -> {"idle", "name", "data", "queue"}]
         /\ loc' \in [Workers -> LocType]
         /\ \A u \in Workers : LocFits(pc'[u], loc'[u])
         /\ pc'[w] = label /\ loc'[w] = x
         /\ \A u \in Workers \ {w} : pc'[u] = pc[u] /\ loc'[u] = loc[u]
<1>1. pc \in [Workers -> {"idle", "name", "data", "queue"}] /\ loc \in [Workers -> LocType]
      /\ \A u \in Workers : LocFits(pc[u], loc[u])
  BY DEF Typed, RecvTyped
<1>2. QED
  BY <1>1

(* RecvFile is called.                                                       *)
LEMMA RecvFileTyped ==
  ASSUME Typed, NEW w \in Workers, NEW c \in Clients, RecvFile(w, c)
  PROVE  Typed'
<1>1. /\ jobs' = jobs \ {c}
      /\ UNCHANGED <<process, parts, net, disk, sendQueue, members, live, srv, faults>>
  BY DEF RecvFile, roomVars
<1>2. CASE UNCHANGED <<pc, loc>>
  BY <1>1, <1>2 DEF Typed, RecvTyped, SendTyped, RestTyped
<1>3. CASE pc' = [pc EXCEPT ![w] = "name"] /\ loc' = [loc EXCEPT ![w] = [NoLoc EXCEPT !.client = c]]
  <2>1. PICK x : x = [NoLoc EXCEPT !.client = c]
    OBVIOUS
  <2>2. x \in LocType /\ x.client = c /\ x.pos = 0
    BY <2>1 DEF NoLoc, LocType
  <2>3. pc' = [pc EXCEPT ![w] = "name"] /\ loc' = [loc EXCEPT ![w] = x] /\ LocFits("name", x)
    BY <1>3, <2>1, <2>2 DEF LocFits
  <2>4. QED
    BY <1>1, <2>2, <2>3, LocStep DEF Typed, RecvTyped, SendTyped, RestTyped
<1>4. QED
  BY <1>2, <1>3 DEF RecvFile

(* RecvFile reads the name.                                                  *)
LEMMA RecvNameTyped ==
  ASSUME Typed, NEW w \in Workers, NEW i \in DOMAIN net, RecvName(w, i)
  PROVE  Typed'
<1> DEFINE d == net[i]
           n == IF d[2] = 0 THEN FileName[d[1]] ELSE Garbled
<1>1. /\ pc[w] = "name" /\ Datagram(i) /\ disk' = Open(n) /\ loc' = [loc EXCEPT ![w].file = n]
      /\ net' = Without(i) /\ pc' = [pc EXCEPT ![w] = "data"]
      /\ UNCHANGED <<process, parts, jobs, sendQueue, members, live, srv>>
  BY DEF RecvName, roomVars
<1>2. net' \in Seq(Gram) /\ d \in Gram
  BY <1>1, WithoutTyped DEF Typed, RecvTyped
<1>3. n \in Names
  BY <1>2, GramFacts DEF Names
<1> HIDE DEF n
<1>4. disk' \in [Names -> Seq(Content)]
  BY <1>1, <1>3 DEF Open, Typed, RecvTyped
<1>5. PICK x : x = [loc[w] EXCEPT !.file = n]
  OBVIOUS
<1>6. x \in LocType /\ LocFits("data", x) /\ loc' = [loc EXCEPT ![w] = x]
  <2>1. loc[w] \in LocType /\ loc[w].client \in Clients
    BY <1>1 DEF Typed, RecvTyped, LocFits
  <2>2. x \in LocType /\ x.client \in Clients /\ x.file \in Names
    BY <1>3, <1>5, <2>1 DEF LocType
  <2>3. QED
    BY <1>1, <1>5, <2>2 DEF LocFits
<1>7. faults' \in 0 .. MaxFaults
  BY <1>1, DatagramTyped
<1>8. QED
  BY <1>1, <1>2, <1>4, <1>6, <1>7, LocStep DEF Typed, RecvTyped, SendTyped, RestTyped

(* RecvFile reads a chunk, or the end.                                       *)
LEMMA RecvDataTyped ==
  ASSUME Typed, NEW w \in Workers, NEW i \in DOMAIN net, RecvData(w, i)
  PROVE  Typed'
<1> DEFINE d == net[i]
           x == IF d[2] = 0 THEN Gap ELSE d
<1>1. /\ pc[w] = "data" /\ Datagram(i) /\ net' = Without(i)
      /\ \/ /\ d[2] = EndPart(d[1])
            /\ pc' = [pc EXCEPT ![w] = "queue"]
            /\ UNCHANGED <<disk, loc>>
         \/ /\ d[2] # EndPart(d[1])
            /\ disk' = [disk EXCEPT ![loc[w].file] = Written(@, loc[w].pos + 1, x)]
            /\ loc' = [loc EXCEPT ![w].pos = @ + 1]
            /\ UNCHANGED pc
      /\ UNCHANGED <<process, parts, jobs, sendQueue, members, live, srv>>
  BY DEF RecvData, roomVars
<1>2. net' \in Seq(Gram) /\ d \in Gram
  BY <1>1, WithoutTyped DEF Typed, RecvTyped
<1>3. loc[w] \in LocType /\ loc[w].file \in Names /\ loc[w].pos \in Nat /\ loc[w].client \in Clients
  BY <1>1 DEF Typed, RecvTyped, LocFits, LocType
<1>4. d[2] # EndPart(d[1]) => x \in Content
  BY <1>2, ContentFacts, ContentNotEmpty
<1>5. faults' \in 0 .. MaxFaults
  BY <1>1, DatagramTyped
<1> HIDE DEF d, x
<1>6. CASE pc' = [pc EXCEPT ![w] = "queue"] /\ UNCHANGED <<disk, loc>>
  <2>1. loc' = [loc EXCEPT ![w] = loc[w]] /\ LocFits("queue", loc[w])
    BY <1>3, <1>6 DEF LocFits, Typed, RecvTyped
  <2>2. QED
    BY <1>1, <1>2, <1>3, <1>5, <1>6, <2>1, LocStep DEF Typed, RecvTyped, SendTyped, RestTyped
<1>7. CASE /\ d[2] # EndPart(d[1])
           /\ disk' = [disk EXCEPT ![loc[w].file] = Written(@, loc[w].pos + 1, x)]
           /\ loc' = [loc EXCEPT ![w].pos = @ + 1]
           /\ UNCHANGED pc
  <2>1. disk \in [Names -> Seq(Content)] /\ disk[loc[w].file] \in Seq(Content)
    BY <1>3 DEF Typed, RecvTyped
  <2>2. loc[w].pos + 1 \in Nat
    BY <1>3
  <2>3. Written(disk[loc[w].file], loc[w].pos + 1, x) \in Seq(Content)
    BY <1>4, <1>7, <2>1, <2>2, WrittenTyped
  <2>4. disk' \in [Names -> Seq(Content)]
    BY <1>3, <1>7, <2>1, <2>3
  <2>5. PICK y : y = [loc[w] EXCEPT !.pos = loc[w].pos + 1]
    OBVIOUS
  <2>6. y \in LocType /\ y.client \in Clients /\ y.file \in Names
    BY <1>3, <2>2, <2>5 DEF LocType
  <2>7. loc' = [loc EXCEPT ![w] = y] /\ LocFits("data", y) /\ pc' = [pc EXCEPT ![w] = "data"]
    BY <1>1, <1>7, <2>5, <2>6 DEF LocFits, Typed, RecvTyped
  <2>8. QED
    BY <1>1, <1>2, <1>5, <2>4, <2>6, <2>7, LocStep DEF Typed, RecvTyped, SendTyped, RestTyped
<1>8. QED
  BY <1>1, <1>6, <1>7

(* The stored file is queued.                                                *)
LEMMA QueueTyped ==
  ASSUME Typed, NEW w \in Workers, QueueFile(w)
  PROVE  Typed'
<1>1. /\ pc[w] = "queue" /\ sendQueue' = Append(sendQueue, loc[w].file)
      /\ pc' = [pc EXCEPT ![w] = "idle"] /\ loc' = [loc EXCEPT ![w] = NoLoc]
      /\ UNCHANGED <<process, parts, jobs, net, disk, members, live, srv, faults>>
  BY DEF QueueFile, roomVars
<1>2. loc[w].file \in Names
  BY <1>1 DEF Typed, RecvTyped, LocFits
<1>3. sendQueue' \in Seq(Names)
  BY <1>1, <1>2 DEF Typed, SendTyped
<1>4. NoLoc \in LocType /\ LocFits("idle", NoLoc)
  BY DEF NoLoc, LocType, LocFits
<1>5. QED
  BY <1>1, <1>3, <1>4, LocStep DEF Typed, RecvTyped, SendTyped, RestTyped

(* Sendwork opens the file and closes it.                                    *)
LEMMA OpenTyped ==
  ASSUME Typed, OpenFile \/ CloseFile
  PROVE  Typed' /\ srv.now = None /\ srv'.now = None
<1>1. UNCHANGED <<process, parts, jobs, net, disk, pc, loc, members, live, faults>>
  BY DEF OpenFile, CloseFile, recvVars, roomVars
<1>2. srv.now = None
  BY DEF OpenFile, CloseFile, NoSrv, AllServed
<1>3. /\ NoSrv \in [file : Names \cup {None}, pos : Nat, left : SUBSET Clients,
                    now : Clients \cup {None}, served : SUBSET Clients]
      /\ NoSrv.now = None /\ NoSrv.left = {}
  BY DEF NoSrv
<1>4. /\ sendQueue' \in Seq(Names)
      /\ srv' \in [file : Names \cup {None}, pos : Nat, left : SUBSET Clients,
                   now : Clients \cup {None}, served : SUBSET Clients]
      /\ srv'.now = None /\ (srv'.left # {} => srv'.file \in Names)
  <2>1. CASE CloseFile
    BY <1>3, <2>1 DEF CloseFile, Typed, SendTyped
  <2>2. CASE OpenFile
    <3>1. sendQueue # <<>> /\ sendQueue \in Seq(Names) /\ members \subseteq Clients
      BY <2>2 DEF OpenFile, Typed, SendTyped, RestTyped
    <3>2. Head(sendQueue) \in Names /\ sendQueue' \in Seq(Names)
      BY <2>2, <3>1 DEF OpenFile
    <3>3. PICK n \in Names : n = Head(sendQueue)
      BY <3>2
    <3>4. srv' = NoSrv \/ srv' = [NoSrv EXCEPT !.file = n, !.left = members]
      BY <2>2, <3>3 DEF OpenFile
    <3>5. QED
      BY <1>3, <3>1, <3>2, <3>4 DEF NoSrv
  <2>3. QED
    BY <2>1, <2>2
<1>5. Typed'
  BY <1>1, <1>4 DEF Typed, RecvTyped, SendTyped, RestTyped
<1>6. QED
  BY <1>2, <1>4, <1>5

SrvType ==
  [file : Names \cup {None}, pos : Nat, left : SUBSET Clients,
   now : Clients \cup {None}, served : SUBSET Clients]

(* A step of SendToRoomFile's loop stays with the file.                      *)
LEMMA SrvStep ==
  ASSUME srv \in SrvType, SendData
  PROVE  srv' \in SrvType /\ srv'.file = srv.file /\ srv'.left = srv.left
<1>1. CASE srv' = [srv EXCEPT !.pos = @ + 1]
  <2>1. PICK p \in Nat : p = srv.pos + 1
    BY DEF SrvType
  <2>2. srv' = [srv EXCEPT !.pos = p]
    BY <1>1, <2>1
  <2>3. QED
    BY <2>2 DEF SrvType
<1>2. CASE srv' = [srv EXCEPT !.now = None, !.served = @ \cup {srv.now}] /\ srv.now # None
  BY <1>2 DEF SrvType
<1>3. QED
  BY <1>1, <1>2 DEF SendData

(* A member is sent the name, or passed over.                                *)
LEMMA NameTyped ==
  ASSUME Typed, NEW m \in Clients, SendName(m) \/ SkipMember(m)
  PROVE  Typed'
<1>1. /\ m \in srv.left
      /\ \/ srv' = [srv EXCEPT !.left = @ \ {m}, !.now = m]
         \/ srv' = [srv EXCEPT !.left = @ \ {m}]
      /\ UNCHANGED <<process, parts, jobs, net, disk, pc, loc, sendQueue, members, live, faults>>
  BY DEF SendName, SkipMember, recvVars, roomVars
<1>2. /\ srv' \in [file : Names \cup {None}, pos : Nat, left : SUBSET Clients,
                   now : Clients \cup {None}, served : SUBSET Clients]
      /\ srv'.file \in Names
  BY <1>1 DEF Typed, SendTyped
<1>3. QED
  BY <1>1, <1>2 DEF Typed, RecvTyped, SendTyped, RestTyped

(* A member is sent the next chunk, or the end.                              *)
LEMMA DataTyped ==
  ASSUME Typed, SendData
  PROVE  Typed'
<1>1. /\ srv.now # None
      /\ UNCHANGED <<process, parts, jobs, net, disk, pc, loc, sendQueue, members, live, faults>>
  BY DEF SendData, recvVars, roomVars
<1>2. srv \in SrvType /\ srv.file \in Names
  BY <1>1 DEF Typed, SendTyped, SrvType
<1>3. srv' \in SrvType /\ srv'.file \in Names
  BY <1>2, SrvStep
<1>4. QED
  BY <1>1, <1>3 DEF Typed, RecvTyped, SendTyped, RestTyped, SrvType

(* recvfrom gets no name.                                                    *)
LEMMA CrashTyped ==
  ASSUME Typed, NEW w \in Workers, NEW i \in DOMAIN net, RecvNoName(w, i)
  PROVE  Typed'
<1>1. faults' \in 0 .. MaxFaults
  BY DatagramTyped DEF RecvNoName
<1>2. QED
  BY <1>1 DEF RecvNoName, recvVars, roomVars, Typed, RecvTyped, SendTyped, RestTyped

(* The members and the network on the way to them leave the server alone.    *)
LEMMA MemberTyped ==
  ASSUME Typed, NEW m \in Clients, Member(m)
  PROVE  Typed'
<1>1. /\ UNCHANGED <<process, parts, jobs, net, disk, pc, loc, sendQueue, members, live, srv>>
      /\ (UNCHANGED faults \/ (faults < MaxFaults /\ faults' = faults + 1))
  BY DEF Member, RecvFileThread, LoseOut, recvVars, roomVars
<1>2. faults' \in 0 .. MaxFaults
  BY <1>1, FileAssumption DEF Typed, RestTyped
<1>3. QED
  BY <1>1, <1>2 DEF Typed, RecvTyped, SendTyped, RestTyped

(* Every step keeps the types.                                               *)
LEMMA NextTyped == Typed /\ [Next]_vars => Typed'
<1> SUFFICES ASSUME Typed, [Next]_vars PROVE Typed'
  OBVIOUS
<1>1. CASE \E c \in Clients : Announce(c) \/ FileSend(c)
  BY <1>1, ClientTyped
<1>2. CASE \E c \in Clients : Disconnect(c) \/ LeaveList(c)
  <2>1. PICK c \in Clients : Disconnect(c) \/ LeaveList(c)
    BY <1>2
  <2>2. QED
    BY <2>1 DEF Disconnect, LeaveList, recvVars, roomVars, Typed, RecvTyped, SendTyped, RestTyped
<1>3. CASE \E i \in DOMAIN net : Lose(i)
  BY <1>3, LoseTyped
<1>4. ASSUME NEW w \in Workers,
             (\E c \in Clients : RecvFile(w, c)) \/ RecvStep(w) \/ QueueFile(w) \/ QueueNowhere(w)
      PROVE  Typed'
  <2>1. CASE \E c \in Clients : RecvFile(w, c)
    BY <2>1, RecvFileTyped
  <2>2. CASE RecvStep(w)
    <3>1. PICK i \in DOMAIN net : RecvName(w, i) \/ RecvNoName(w, i) \/ RecvData(w, i)
      BY <2>2 DEF RecvStep
    <3>2. QED
      BY <3>1, RecvNameTyped, RecvDataTyped, CrashTyped
  <2>3. CASE QueueFile(w)
    BY <2>3, QueueTyped
  <2>4. CASE QueueNowhere(w)
    BY <2>4 DEF QueueNowhere, recvVars, roomVars, Typed, RecvTyped, SendTyped, RestTyped
  <2>5. QED
    BY <1>4, <2>1, <2>2, <2>3, <2>4
<1>5. CASE OpenFile \/ CloseFile
  BY <1>5, OpenTyped
<1>6. ASSUME NEW m \in Clients, SendName(m) \/ SkipMember(m) \/ SendNowhere(m) \/ Member(m) PROVE Typed'
  <2>1. CASE SendName(m) \/ SkipMember(m)
    BY <2>1, NameTyped
  <2>2. CASE SendNowhere(m)
    BY <2>2 DEF SendNowhere, recvVars, roomVars, Typed, RecvTyped, SendTyped, RestTyped
  <2>3. CASE Member(m)
    BY <2>3, MemberTyped
  <2>4. QED
    BY <1>6, <2>1, <2>2, <2>3
<1>7. CASE SendData
  BY <1>7, DataTyped
<1>8. CASE UNCHANGED vars
  BY <1>8 DEF vars, recvVars, roomVars, Typed, RecvTyped, SendTyped, RestTyped
<1>9. QED
  BY <1>1, <1>2, <1>3, <1>4, <1>5, <1>6, <1>7, <1>8 DEF Next, Serve

-----------------------------------------------------------------------------
(* The members.                                                              *)

(* A name, a chunk and an end can be told apart.                             *)
LEMMA ToMemberFacts ==
  Title # End /\ Title \notin Content /\ End \notin Content
<1>1. \A x \in Chunk : \E c \in Clients, k \in Nat : x = <<c, k>>
  BY FileAssumption DEF Chunk
<1>2. Title # Gap
  BY DEF Title, Gap
<1>3. \A x \in Chunk : x # Title
  BY <1>1, FileAssumption DEF Title
<1>4. QED
  BY <1>2, <1>3, ContentNotEmpty DEF Content, Title, End

(* Taking one datagram out leaves datagrams; the first one out is the head.  *)
LEMMA WithoutNthFacts ==
  ASSUME NEW S, NEW q \in Seq(S), NEW i \in DOMAIN q
  PROVE  /\ WithoutNth(q, i) \in Seq(S) /\ q[i] \in S
         /\ i = 1 => WithoutNth(q, i) = Tail(q)
<1>1. Len(q) \in Nat /\ DOMAIN q = 1 .. Len(q) /\ i \in 1 .. Len(q) /\ q[i] \in S
  OBVIOUS
<1>2. SubSeq(q, 1, i - 1) \in Seq(S) /\ SubSeq(q, i + 1, Len(q)) \in Seq(S)
  BY <1>1
<1>3. WithoutNth(q, i) \in Seq(S)
  BY <1>2 DEF WithoutNth
<1>4. ASSUME i = 1 PROVE WithoutNth(q, i) = Tail(q)
  <2>1. SubSeq(q, 1, i - 1) = <<>>
    BY <1>4
  <2>2. SubSeq(q, i + 1, Len(q)) = Tail(q)
    BY <1>1, <1>4
  <2>3. WithoutNth(q, i) = <<>> \o Tail(q)
    BY <2>1, <2>2 DEF WithoutNth
  <2>4. Tail(q) \in Seq(S)
    BY <1>2, <1>4, <2>2
  <2>5. QED
    BY <2>3, <2>4
<1>5. QED
  BY <1>1, <1>3, <1>4

(* What the server sends next continues what it has sent.                    *)
LEMMA SendFollows ==
  ASSUME NEW o \in Seq(ToMember), NEW f, NEW sending \in BOOLEAN, Follows(o, f, sending),
         NEW d \in ToMember, d = Title <=> ~sending
  PROVE  Follows(Append(o, d), f, d # End) /\ Append(o, d) \in Seq(ToMember)
<1>1. PICK n \in Nat : n = Len(o)
  OBVIOUS
<1>2. PICK q \in Seq(ToMember) : q = Append(o, d)
  <2>1. Append(o, d) \in Seq(ToMember)
    BY AppendProperties
  <2>2. QED
    BY <2>1
<1>3. /\ Len(q) = n + 1 /\ q # <<>> /\ q[n + 1] = d
      /\ \A i \in 1 .. n : q[i] = o[i]
  BY <1>1, <1>2
<1>4. q[1] = Title <=> f.waits = "name"
  <2>1. CASE o = <<>>
    <3>1. n = 0 /\ q[1] = d
      BY <1>1, <1>3, <2>1
    <3>2. QED
      BY <2>1, <3>1 DEF Follows
  <2>2. CASE o # <<>>
    <3>1. n > 0 /\ q[1] = o[1]
      BY <1>1, <1>3, <2>2
    <3>2. QED
      BY <2>2, <3>1 DEF Follows
  <2>3. QED
    BY <2>1, <2>2
<1>5. ASSUME NEW i \in 1 .. Len(q), i > 1 PROVE q[i] = Title <=> q[i - 1] = End
  <2>1. CASE i \in 1 .. n
    BY <1>1, <1>3, <1>5, <2>1 DEF Follows
  <2>2. CASE i = n + 1
    <3>1. n \in 1 .. n /\ o # <<>> /\ q[i] = d /\ q[i - 1] = o[n]
      BY <1>1, <1>3, <1>5, <2>2
    <3>2. sending <=> o[n] # End
      BY <1>1, <3>1 DEF Follows
    <3>3. QED
      BY <3>1, <3>2
  <2>3. QED
    BY <1>3, <1>5, <2>1, <2>2
<1>6. q[Len(q)] = d
  BY <1>3
<1>7. Follows(q, f, d # End)
  BY <1>3, <1>4, <1>5, <1>6 DEF Follows
<1>8. QED
  BY <1>2, <1>7

(* What RecvFileThread stores is a download.                                 *)
LEMMA NextDownloadTyped ==
  ASSUME NEW f \in Download, NEW d \in ToMember, NEW g \in NextDownload(f, d)
  PROVE  g \in Download
<1>1. f.waits \in {"name", "data", "dead"} /\ f.data \in Seq(Content \cup {Title})
  BY DEF Download
<1>2. CASE f.waits = "name"
  <2>1. \/ g = [f EXCEPT !.waits = "data", !.data = <<>>]
        \/ g = [f EXCEPT !.waits = "dead"]
    BY <1>2, ToMemberFacts DEF NextDownload, ToMember
  <2>2. <<>> \in Seq(Content \cup {Title})
    OBVIOUS
  <2>3. QED
    BY <2>1, <2>2 DEF Download
<1>3. CASE f.waits = "data" /\ d = End
  <2>1. g = [f EXCEPT !.waits = "name"]
    BY <1>3 DEF NextDownload
  <2>2. QED
    BY <2>1 DEF Download
<1>4. CASE f.waits = "data" /\ d # End
  <2>1. g = [f EXCEPT !.data = Append(f.data, d)]
    BY <1>4 DEF NextDownload
  <2>2. Append(f.data, d) \in Seq(Content \cup {Title})
    BY <1>1, <1>4 DEF ToMember
  <2>3. QED
    BY <2>1, <2>2 DEF Download
<1>5. CASE f.waits = "dead"
  BY <1>5 DEF NextDownload
<1>6. QED
  BY <1>1, <1>2, <1>3, <1>4, <1>5

(* The next datagram in order keeps a member in step.                        *)
LEMMA RecvFollows ==
  ASSUME NEW o \in Seq(ToMember), o # <<>>, NEW f \in Download, NEW sending \in BOOLEAN,
         Follows(o, f, sending), NEW g \in NextDownload(f, o[1])
  PROVE  Follows(Tail(o), g, sending)
<1>1. PICK n \in Nat : n = Len(o) /\ n > 0
  OBVIOUS
<1>2. PICK q \in Seq(ToMember) : q = Tail(o)
  <2>1. Tail(o) \in Seq(ToMember)
    BY HeadTailProperties
  <2>2. QED
    BY <2>1
<1>3. Len(q) = n - 1 /\ \A i \in 1 .. n - 1 : q[i] = o[i + 1]
  BY <1>1, <1>2
<1>4. PICK d \in ToMember : d = o[1]
  BY <1>1
<1>5. \/ f.waits = "name" /\ d = Title
      \/ f.waits = "data" /\ d # Title
  BY <1>4 DEF Follows
<1>6. f.data \in Seq(Content \cup {Title}) /\ \A i \in DOMAIN f.data : f.data[i] # Title
  BY DEF Download, Follows
<1>7. /\ g.waits = (IF d = End THEN "name" ELSE "data")
      /\ \A i \in DOMAIN g.data : g.data[i] # Title
  <2>1. CASE f.waits = "name" /\ d = Title
    <3>1. g = [f EXCEPT !.waits = "data", !.data = <<>>]
      BY <1>4, <2>1, ToMemberFacts DEF NextDownload
    <3>2. g.waits = "data" /\ g.data = <<>>
      BY <3>1 DEF Download
    <3>3. QED
      BY <2>1, <3>2, ToMemberFacts
  <2>2. CASE f.waits = "data" /\ d = End
    <3>1. g = [f EXCEPT !.waits = "name"]
      BY <1>4, <2>2 DEF NextDownload
    <3>2. g.waits = "name" /\ g.data = f.data
      BY <3>1 DEF Download
    <3>3. QED
      BY <1>6, <2>2, <3>2
  <2>3. CASE f.waits = "data" /\ d # Title /\ d # End
    <3>1. g = [f EXCEPT !.data = Append(f.data, d)]
      BY <1>4, <2>3 DEF NextDownload
    <3>2. g.waits = "data" /\ g.data = Append(f.data, d)
      BY <2>3, <3>1 DEF Download
    <3>3. \A i \in DOMAIN Append(f.data, d) : Append(f.data, d)[i] # Title
      BY <1>6, <2>3
    <3>4. QED
      BY <2>3, <3>2, <3>3
  <2>4. QED
    BY <1>5, <2>1, <2>2, <2>3
<1>8. ASSUME q # <<>> PROVE q[1] = Title <=> g.waits = "name"
  <2>1. n > 1 /\ q[1] = o[2] /\ 2 \in 1 .. Len(o)
    BY <1>1, <1>3, <1>8
  <2>2. o[2] = Title <=> o[2 - 1] = End
    BY <2>1 DEF Follows
  <2>3. o[2] = Title <=> d = End
    BY <1>4, <2>2
  <2>4. QED
    BY <1>7, <2>1, <2>3
<1>9. ASSUME NEW i \in 1 .. Len(q), i > 1 PROVE q[i] = Title <=> q[i - 1] = End
  <2>1. PICK k \in 1 .. n : k = i + 1 /\ k > 1 /\ k - 1 = i /\ i - 1 \in 1 .. n - 1 /\ i \in 1 .. n - 1
    BY <1>1, <1>3, <1>9
  <2>2. q[i] = o[k] /\ q[i - 1] = o[k - 1]
    BY <1>3, <2>1
  <2>3. QED
    BY <1>1, <2>1, <2>2 DEF Follows
<1>10. sending <=> IF q = <<>> THEN g.waits = "data" ELSE q[Len(q)] # End
  <2>1. sending <=> o[n] # End
    BY <1>1 DEF Follows
  <2>2. CASE q = <<>>
    <3>0. Len(q) = 0
      BY <2>2
    <3>1. n - 1 = 0
      BY <1>3, <3>0
    <3>2. n = 1
      BY <3>1
    <3>3. QED
      BY <1>4, <1>7, <2>1, <2>2, <3>2
  <2>3. CASE q # <<>>
    <3>1. n - 1 \in 1 .. n - 1 /\ q[n - 1] = o[n]
      BY <1>1, <1>3, <2>3
    <3>2. QED
      BY <1>3, <2>1, <2>3, <3>1
  <2>4. QED
    BY <2>2, <2>3
<1>11. g.waits \in {"name", "data"}
  BY <1>7
<1>12. Follows(q, g, sending)
  BY <1>7, <1>8, <1>9, <1>10, <1>11 DEF Follows
<1>13. QED
  BY <1>2, <1>12

(* A datagram is sent to the member that is served.                          *)
LEMMA SendInStep ==
  ASSUME StepInv, NEW m \in Clients, NEW d \in ToMember, SendTo(m, d),
         d = Title <=> srv.now # m,
         srv'.now = m <=> d # End,
         \A k \in Clients \ {m} : srv.now # k /\ srv'.now # k
  PROVE  MembersTyped' /\ InStep'
<1>1. MembersTyped /\ InStep /\ out' = [out EXCEPT ![m] = Append(@, d)] /\ UNCHANGED <<download, missed>>
  BY DEF StepInv, SendTo
<1>2. out[m] \in Seq(ToMember) /\ Append(out[m], d) \in Seq(ToMember)
  BY <1>1 DEF MembersTyped
<1>3. MembersTyped'
  BY <1>1, <1>2 DEF MembersTyped
<1>4. out'[m] = Append(out[m], d) /\ \A k \in Clients \ {m} : out'[k] = out[k]
  BY <1>1 DEF MembersTyped
<1>5. ASSUME NEW k \in Clients \ missed PROVE Follows(out'[k], download'[k], srv'.now = k)
  <2>1. Follows(out[k], download[k], srv.now = k)
    BY <1>1, <1>5 DEF InStep
  <2>2. CASE k = m
    <3>1. PICK sending \in BOOLEAN : sending = (srv.now = m)
      OBVIOUS
    <3>2. Follows(out[m], download[m], sending) /\ (d = Title <=> ~sending)
      BY <2>1, <2>2, <3>1
    <3>3. Follows(Append(out[m], d), download[m], d # End)
      BY <1>2, <3>2, SendFollows
    <3>4. Follows(Append(out[m], d), download[m], srv'.now = m)
      BY <3>3 DEF Follows
    <3>5. QED
      BY <1>1, <1>4, <2>2, <3>4
  <2>3. CASE k # m
    <3>1. out'[k] = out[k] /\ download'[k] = download[k] /\ srv.now # k /\ srv'.now # k
      BY <1>1, <1>4, <1>5, <2>3
    <3>2. QED
      BY <2>1, <3>1 DEF Follows
  <2>4. QED
    BY <2>2, <2>3
<1>6. InStep'
  BY <1>1, <1>5 DEF InStep
<1>7. QED
  BY <1>3, <1>6

(* Steps that leave the members alone and end or begin no sending.           *)
LEMMA OtherInStep ==
  ASSUME StepInv, UNCHANGED clientVars, srv'.now = srv.now
  PROVE  MembersTyped' /\ InStep'
<1>1. MembersTyped /\ InStep /\ UNCHANGED <<out, download, missed>>
  BY DEF StepInv, clientVars
<1>2. QED
  BY <1>1 DEF MembersTyped, InStep

(* RecvFileThread gets a datagram, or the network loses one.                 *)
LEMMA MemberInStep ==
  ASSUME StepInv, NEW m \in Clients, NEW i \in DOMAIN out[m], RecvFileThread(m, i) \/ LoseOut(m, i)
  PROVE  MembersTyped' /\ InStep'
<1>1. /\ MembersTyped /\ InStep /\ UNCHANGED srv
      /\ out' = [out EXCEPT ![m] = WithoutNth(@, i)]
      /\ missed' = missed \/ missed' = missed \cup {m}
  BY DEF StepInv, RecvFileThread, LoseOut
<1>2. out[m] \in Seq(ToMember) /\ download[m] \in Download
  BY <1>1 DEF MembersTyped
<1>3. /\ WithoutNth(out[m], i) \in Seq(ToMember) /\ out[m][i] \in ToMember
      /\ i = 1 => WithoutNth(out[m], i) = Tail(out[m])
  BY <1>2, WithoutNthFacts
<1>4. /\ out' \in [Clients -> Seq(ToMember)] /\ missed' \subseteq Clients
      /\ out'[m] = WithoutNth(out[m], i) /\ \A k \in Clients \ {m} : out'[k] = out[k]
  BY <1>1, <1>3 DEF MembersTyped
<1>5. /\ download' \in [Clients -> Download]
      /\ \A k \in Clients \ {m} : download'[k] = download[k]
  <2>1. CASE LoseOut(m, i)
    BY <1>1, <2>1 DEF LoseOut, MembersTyped
  <2>2. CASE RecvFileThread(m, i)
    <3>1. PICK g \in NextDownload(download[m], out[m][i]) : download' = [download EXCEPT ![m] = g]
      BY <2>2 DEF RecvFileThread
    <3>2. g \in Download
      BY <1>2, <1>3, <3>1, NextDownloadTyped
    <3>3. QED
      BY <1>1, <3>1, <3>2 DEF MembersTyped
  <2>3. QED
    BY <2>1, <2>2
<1>6. ASSUME NEW k \in Clients \ missed' PROVE Follows(out'[k], download'[k], srv'.now = k)
  <2>1. k \notin missed /\ Follows(out[k], download[k], srv.now = k)
    BY <1>1, <1>6 DEF InStep
  <2>2. CASE k # m
    BY <1>1, <1>4, <1>5, <1>6, <2>1, <2>2
  <2>3. CASE k = m
    <3>1. i = 1 /\ RecvFileThread(m, i)
      BY <1>1, <1>6, <2>3 DEF RecvFileThread, LoseOut
    <3>2. PICK g \in NextDownload(download[m], out[m][1]) : download' = [download EXCEPT ![m] = g]
      BY <3>1 DEF RecvFileThread
    <3>3. download'[m] = g /\ out'[m] = Tail(out[m]) /\ out[m] # <<>>
      BY <1>1, <1>2, <1>3, <1>4, <3>1, <3>2 DEF MembersTyped
    <3>4. PICK sending \in BOOLEAN : sending = (srv.now = m)
      OBVIOUS
    <3>5. Follows(out[m], download[m], sending)
      BY <2>1, <2>3, <3>4
    <3>6. Follows(Tail(out[m]), g, sending)
      BY <1>2, <3>2, <3>3, <3>5, RecvFollows
    <3>7. QED
      BY <1>1, <2>3, <3>3, <3>4, <3>6
  <2>4. QED
    BY <2>2, <2>3
<1>7. QED
  BY <1>4, <1>5, <1>6 DEF MembersTyped, InStep

(* Every step keeps the types and the members in step.                       *)
LEMMA NextStep == StepInv /\ [Next]_vars => StepInv'
<1> SUFFICES ASSUME StepInv, [Next]_vars PROVE StepInv'
  OBVIOUS
<1>0. Typed /\ Typed' /\ None \notin Clients
  BY NextTyped, FileAssumption DEF StepInv
<1>1. ASSUME MembersTyped' /\ InStep' PROVE StepInv'
  BY <1>0, <1>1 DEF StepInv
<1>2. CASE UNCHANGED clientVars /\ srv'.now = srv.now
  BY <1>1, <1>2, OtherInStep
<1>3. ASSUME NEW m \in Clients, SendName(m) PROVE StepInv'
  <2>1. srv.now = None /\ srv'.now = m /\ SendTo(m, Title)
    BY <1>0, <1>3 DEF SendName, Typed, SendTyped
  <2>2. Title \in ToMember /\ Title # End
    BY ToMemberFacts DEF ToMember
  <2>3. QED
    BY <1>0, <1>1, <2>1, <2>2, SendInStep
<1>4. CASE SendData
  <2>1. PICK m \in Clients : m = srv.now
    BY <1>0, <1>4 DEF SendData, Typed, SendTyped
  <2>2. PICK f \in Seq(Content) : f = disk[srv.file]
    BY <1>0, <2>1 DEF Typed, RecvTyped, SendTyped
  <2>3. srv \in SrvType
    BY <1>0 DEF Typed, SendTyped, SrvType
  <2>4. CASE srv.pos < Len(f) /\ srv' = [srv EXCEPT !.pos = @ + 1] /\ SendTo(m, f[srv.pos + 1])
    <3>1. PICK d \in Content : d = f[srv.pos + 1]
      BY <2>2, <2>3, <2>4 DEF SrvType
    <3>2. d \in ToMember /\ d # Title /\ d # End
      BY <3>1, ToMemberFacts DEF ToMember
    <3>3. srv'.now = m
      BY <2>1, <2>3, <2>4 DEF SrvType
    <3>4. QED
      BY <1>1, <2>1, <2>4, <3>1, <3>2, <3>3, SendInStep
  <2>5. CASE srv' = [srv EXCEPT !.now = None, !.served = @ \cup {srv.now}] /\ SendTo(m, End)
    <3>1. End \in ToMember /\ End # Title
      BY ToMemberFacts DEF ToMember
    <3>2. srv'.now = None
      BY <2>3, <2>5 DEF SrvType
    <3>3. QED
      BY <1>0, <1>1, <2>1, <2>5, <3>1, <3>2, SendInStep
  <2>6. QED
    BY <1>4, <2>1, <2>2, <2>4, <2>5 DEF SendData
<1>5. ASSUME NEW m \in Clients, Member(m) PROVE StepInv'
  BY <1>1, <1>5, MemberInStep DEF Member
<1>6. CASE OpenFile \/ CloseFile
  BY <1>0, <1>2, <1>6, OpenTyped DEF OpenFile, CloseFile
<1>7. CASE \E m \in Clients : SkipMember(m) \/ SendNowhere(m)
  <2>1. UNCHANGED clientVars /\ srv'.now = srv.now
    BY <1>0, <1>7 DEF SkipMember, SendNowhere, Typed, SendTyped
  <2>2. QED
    BY <1>2, <2>1
<1>8. CASE \E c \in Clients : Announce(c) \/ FileSend(c) \/ Disconnect(c) \/ LeaveList(c)
  BY <1>2, <1>8 DEF Announce, FileSend, Disconnect, LeaveList
<1>9. CASE \E i \in DOMAIN net : Lose(i)
  BY <1>2, <1>9 DEF Lose
<1>10. CASE \E w \in Workers : (\E c \in Clients : RecvFile(w, c)) \/ RecvStep(w) \/ QueueFile(w) \/ QueueNowhere(w)
  <2>1. UNCHANGED <<srv, clientVars>>
    BY <1>10 DEF RecvFile, RecvStep, RecvName, RecvNoName, RecvData, QueueFile, QueueNowhere
  <2>2. QED
    BY <1>2, <2>1
<1>11. CASE UNCHANGED vars
  BY <1>2, <1>11 DEF vars
<1>12. QED
  BY <1>3, <1>4, <1>5, <1>6, <1>7, <1>8, <1>9, <1>10, <1>11 DEF Next, Serve

(* A member that has got all its datagrams in order is in step with the      *)
(* server, whatever happens to other members' datagrams and however the      *)
(* datagrams the server receives are mixed up: no name is taken for a chunk  *)
(* and no chunk for a name, and it waits in vain for no chunk.               *)
THEOREM DownloadsInStep == Spec => []ClientsInStep
<1>1. Init => StepInv
  BY InitStep
<1>2. StepInv /\ [Next]_vars => StepInv'
  BY NextStep
<1>3. StepInv => ClientsInStep
  BY DEF StepInv, InStep, Follows, ClientsInStep
<1>4. QED
  BY <1>1, <1>2, <1>3, PTL DEF Spec

-----------------------------------------------------------------------------
(* What one client sends, in order.                                          *)

(* How long a sequence is that is given by its elements.                     *)
LEMMA LengthOfRun ==
  ASSUME NEW S, NEW n \in Nat, NEW s \in [1 .. n -> S]
  PROVE  s \in Seq(S) /\ Len(s) = n
<1>1. s \in Seq(S)
  BY SeqDef
<1>2. Len(s) \in Nat /\ 1 .. n = 1 .. Len(s)
  BY <1>1, LenProperties
<1>3. PICK k \in Nat : k = Len(s)
  BY <1>2
<1>4. \A i \in Nat : 1 <= i /\ i <= n <=> 1 <= i /\ i <= k
  <2>1. ASSUME NEW i \in Nat PROVE i \in 1 .. n <=> i \in 1 .. k
    BY <1>2, <1>3
  <2>2. QED
    BY <2>1
<1>5. n = k
  BY <1>4
<1>6. QED
  BY <1>1, <1>3, <1>5

(* The n datagrams from part a on.                                           *)
LEMMA DatagramsFacts ==
  ASSUME NEW c, NEW a \in Nat, NEW n \in Nat
  PROVE  /\ Datagrams(c, a, a + n) \in Seq({c} \X Nat)
         /\ Len(Datagrams(c, a, a + n)) = n
         /\ \A i \in 1 .. n : Datagrams(c, a, a + n)[i] = <<c, a + i - 1>>
<1>1. (a + n) - a = n
  OBVIOUS
<1>2. Datagrams(c, a, a + n) = [i \in 1 .. n |-> <<c, a + i - 1>>]
  BY <1>1 DEF Datagrams
<1>3. \A i \in 1 .. n : <<c, a + i - 1>> \in {c} \X Nat
  OBVIOUS
<1>4. Datagrams(c, a, a + n) \in [1 .. n -> {c} \X Nat]
  BY <1>2, <1>3
<1>5. QED
  BY <1>2, <1>4, LengthOfRun

(* The client sends the next one.                                            *)
LEMMA DatagramsGrow ==
  ASSUME NEW c, NEW a \in Nat, NEW b \in Nat, a <= b
  PROVE  Append(Datagrams(c, a, b), <<c, b>>) = Datagrams(c, a, b + 1)
<1>0. PICK n \in Nat : b = a + n
  <2>1. b - a \in Nat /\ b = a + (b - a)
    OBVIOUS
  <2>2. QED
    BY <2>1
<1>1. PICK s : s = Datagrams(c, a, b)
  OBVIOUS
<1>2. PICK t : t = Datagrams(c, a, b + 1)
  OBVIOUS
<1>3. s \in Seq({c} \X Nat) /\ Len(s) = n /\ \A i \in 1 .. n : s[i] = <<c, a + i - 1>>
  BY <1>0, <1>1, DatagramsFacts
<1>4. t \in Seq({c} \X Nat) /\ Len(t) = n + 1 /\ \A i \in 1 .. n + 1 : t[i] = <<c, a + i - 1>>
  <2>1. n + 1 \in Nat /\ b + 1 = a + (n + 1)
    BY <1>0
  <2>2. PICK k \in Nat : k = n + 1
    BY <2>1
  <2>3. t = Datagrams(c, a, a + k)
    BY <1>2, <2>1, <2>2
  <2>4. t \in Seq({c} \X Nat) /\ Len(t) = k /\ \A i \in 1 .. k : t[i] = <<c, a + i - 1>>
    BY <2>3, DatagramsFacts
  <2>5. QED
    BY <2>2, <2>4
<1>5. PICK r : r = Append(s, <<c, b>>)
  OBVIOUS
<1>6. /\ r \in Seq({c} \X Nat) /\ Len(r) = n + 1 /\ r[n + 1] = <<c, b>>
      /\ \A i \in 1 .. n : r[i] = s[i]
  BY <1>3, <1>5, <<c, b>> \in {c} \X Nat, AppendProperties
<1>7. ASSUME NEW i \in 1 .. n + 1 PROVE r[i] = t[i]
  <2>1. t[i] = <<c, a + i - 1>>
    BY <1>4
  <2>2. CASE i = n + 1
    <3>1. a + i - 1 = b
      BY <1>0, <2>2
    <3>2. QED
      BY <1>6, <2>1, <2>2, <3>1
  <2>3. CASE i # n + 1
    <3>1. i \in 1 .. n
      BY <2>3
    <3>2. QED
      BY <1>3, <1>6, <2>1, <3>1
  <2>4. QED
    BY <2>2, <2>3
<1>8. r = t
  BY <1>4, <1>6, <1>7, SeqEqual
<1>9. QED
  BY <1>1, <1>2, <1>5, <1>8

(* recvfrom takes the first.                                                 *)
LEMMA DatagramsShrink ==
  ASSUME NEW c, NEW a \in Nat, NEW b \in Nat, a <= b,
         net = Datagrams(c, a, b), 1 \in DOMAIN net
  PROVE  a + 1 <= b /\ net[1] = <<c, a>> /\ Without(1) = Datagrams(c, a + 1, b)
<1>0. PICK n \in Nat : b = a + n
  <2>1. b - a \in Nat /\ b = a + (b - a)
    OBVIOUS
  <2>2. QED
    BY <2>1
<1>1. net \in Seq({c} \X Nat) /\ Len(net) = n /\ \A i \in 1 .. n : net[i] = <<c, a + i - 1>>
  BY <1>0, DatagramsFacts
<1>2. 1 \in 1 .. n
  BY <1>1
<1>3. a + 1 <= b /\ net[1] = <<c, a>>
  <2>1. net[1] = <<c, a + 1 - 1>> /\ a + 1 - 1 = a
    BY <1>1, <1>2
  <2>2. QED
    BY <1>0, <1>2, <2>1
<1>4. PICK k \in Nat : n = k + 1
  <2>1. n - 1 \in Nat /\ n = (n - 1) + 1
    BY <1>2
  <2>2. QED
    BY <2>1
<1>5. PICK t : t = Datagrams(c, a + 1, b)
  OBVIOUS
<1>6. t \in Seq({c} \X Nat) /\ Len(t) = k /\ \A i \in 1 .. k : t[i] = <<c, (a + 1) + i - 1>>
  <2>1. PICK e \in Nat : e = a + 1
    OBVIOUS
  <2>2. t = Datagrams(c, e, e + k)
    <3>1. b = e + k
      BY <1>0, <1>4, <2>1
    <3>2. QED
      BY <1>5, <2>1, <3>1
  <2>3. t \in Seq({c} \X Nat) /\ Len(t) = k /\ \A i \in 1 .. k : t[i] = <<c, e + i - 1>>
    BY <2>2, DatagramsFacts
  <2>4. QED
    BY <2>1, <2>3
<1>7. PICK r : r = SubSeq(net, 2, Len(net))
  OBVIOUS
<1>8. r \in Seq({c} \X Nat) /\ Len(r) = k /\ \A i \in 1 .. k : r[i] = net[i + 1]
  BY <1>1, <1>4, <1>7
<1>9. Without(1) = r
  <2>1. SubSeq(net, 1, 0) = <<>>
    BY <1>1
  <2>2. 1 - 1 = 0 /\ 1 + 1 = 2
    OBVIOUS
  <2>3. Without(1) = <<>> \o r
    BY <1>7, <2>1, <2>2 DEF Without, WithoutNth
  <2>4. QED
    BY <1>8, <2>3, ConcatEmptySeq
<1>10. ASSUME NEW i \in 1 .. k PROVE r[i] = t[i]
  <2>1. i + 1 \in 1 .. n /\ a + (i + 1) - 1 = (a + 1) + i - 1
    BY <1>4
  <2>2. QED
    BY <1>1, <1>6, <1>8, <2>1
<1>11. r = t
  BY <1>6, <1>8, <1>10, SeqEqual
<1>12. QED
  BY <1>3, <1>5, <1>9, <1>11

(* The chunks before a position; the next one is written behind them.        *)
LEMMA ChunksFacts ==
  ASSUME NEW c, NEW n \in Nat
  PROVE  /\ Len(Chunks(c, n)) = n
         /\ Written(Chunks(c, n), n + 1, <<c, n + 1>>) = Chunks(c, n + 1)
<1>1. Chunks(c, n) \in [1 .. n -> {c} \X Nat]
  BY DEF Chunks
<1>2. Len(Chunks(c, n)) = n
  BY <1>1, LengthOfRun
<1>3. Written(Chunks(c, n), n + 1, <<c, n + 1>>)
      = [i \in 1 .. n + 1 |-> IF i = n + 1 THEN <<c, n + 1>> ELSE IF i <= n THEN Chunks(c, n)[i] ELSE Gap]
  BY <1>2 DEF Written
<1>4. \A i \in 1 .. n + 1 :
        (IF i = n + 1 THEN <<c, n + 1>> ELSE IF i <= n THEN Chunks(c, n)[i] ELSE Gap) = <<c, i>>
  BY DEF Chunks
<1>5. QED
  BY <1>2, <1>3, <1>4 DEF Chunks

-----------------------------------------------------------------------------
(* One transfer at a time.                                                   *)

(* The sender sends on; nobody else does.                                    *)
LEMMA ComingSent ==
  ASSUME Typed, NEW c \in Clients, NEW p \in Nat, Coming(c, p), NEW d \in Clients, FileSend(d)
  PROVE  d = c /\ Coming(c, p)'
<1>1. parts \in [Clients -> Nat] /\ Size[c] \in Nat /\ Size[d] \in Nat
  BY FileAssumption DEF Typed, RecvTyped
<1>2. /\ parts[d] \in 1 .. Size[d] + 2 /\ net' = Append(net, <<d, parts[d] - 1>>)
      /\ parts' = [parts EXCEPT ![d] = @ + 1]
  BY DEF FileSend
<1>3. d = c
  <2>1. ~SentAll(d)
    BY <1>1, <1>2 DEF SentAll
  <2>2. QED
    BY <2>1 DEF Coming, Resting
<1>4. PICK n \in 1 .. Size[c] + 3 : p < n /\ parts[c] = n /\ net = Datagrams(c, p, n - 1)
  BY DEF Coming
<1>5. PICK k \in Nat : k = n - 1 /\ p <= k /\ k + 2 \in 1 .. Size[c] + 3 /\ p < k + 2
  BY <1>1, <1>2, <1>3, <1>4
<1>6. net' = Datagrams(c, p, k + 1)
  BY <1>2, <1>3, <1>4, <1>5, DatagramsGrow
<1>7. parts'[c] = k + 2 /\ (k + 2) - 1 = k + 1
  BY <1>1, <1>2, <1>3, <1>4, <1>5
<1>8. Resting(c)'
  BY <1>1, <1>2, <1>3 DEF Coming, Resting, SentAll
<1>9. \E m \in 1 .. Size[c] + 3 : p < m /\ parts'[c] = m /\ net' = Datagrams(c, p, m - 1)
  BY <1>5, <1>6, <1>7
<1>10. QED
  BY <1>3, <1>8, <1>9 DEF Coming

(* The first datagram is the next part.                                      *)
LEMMA ComingTaken ==
  ASSUME Typed, NEW c \in Clients, NEW p \in Nat, Coming(c, p), 1 \in DOMAIN net
  PROVE  /\ net[1] = <<c, p>> /\ p <= EndPart(c)
         /\ net' = Without(1) /\ UNCHANGED parts => Coming(c, p + 1)'
         /\ p = EndPart(c) => Without(1) = <<>> /\ \A d \in Clients : SentAll(d)
<1>1. parts \in [Clients -> Nat] /\ Size[c] \in Nat
  BY FileAssumption DEF Typed, RecvTyped
<1>2. PICK n \in 1 .. Size[c] + 3 : p < n /\ parts[c] = n /\ net = Datagrams(c, p, n - 1)
  BY DEF Coming
<1>3. PICK k \in Nat : k = n - 1 /\ p <= k
  BY <1>1, <1>2
<1>4. p + 1 <= k /\ net[1] = <<c, p>> /\ Without(1) = Datagrams(c, p + 1, k)
  BY <1>2, <1>3, DatagramsShrink
<1>5. p <= EndPart(c)
  BY <1>1, <1>2, <1>3, <1>4 DEF EndPart
<1>6. ASSUME net' = Without(1), UNCHANGED parts PROVE Coming(c, p + 1)'
  <2>1. p + 1 < n /\ parts'[c] = n /\ net' = Datagrams(c, p + 1, n - 1)
    BY <1>1, <1>2, <1>3, <1>4, <1>6
  <2>2. Resting(c)'
    BY <1>6 DEF Coming, Resting, SentAll
  <2>3. \E m \in 1 .. Size[c] + 3 : p + 1 < m /\ parts'[c] = m /\ net' = Datagrams(c, p + 1, m - 1)
    BY <2>1
  <2>4. QED
    BY <2>2, <2>3 DEF Coming
<1>7. ASSUME p = EndPart(c) PROVE Without(1) = <<>> /\ \A d \in Clients : SentAll(d)
  <2>1. k = p + 1 /\ n = Size[c] + 3
    BY <1>1, <1>2, <1>3, <1>4, <1>7 DEF EndPart
  <2>2. Datagrams(c, p + 1, p + 1) = <<>>
    <3>1. 1 .. (p + 1) - (p + 1) = {}
      OBVIOUS
    <3>2. QED
      BY <3>1 DEF Datagrams
  <2>3. SentAll(c)
    BY <1>2, <2>1 DEF SentAll
  <2>4. QED
    BY <1>4, <2>1, <2>2, <2>3 DEF Coming, Resting
<1>8. QED
  BY <1>4, <1>5, <1>6, <1>7

(* A client announces its file while nothing goes on.                        *)
LEMMA AnnouncePhase ==
  ASSUME Typed, NEW c \in Clients, Announce(c), ~disturbed'
  PROVE  Phase'
<1>1. Quiet
  BY Zenon DEF Announce
<1>2. /\ parts' = [parts EXCEPT ![c] = 1] /\ jobs' = jobs \cup {c}
      /\ UNCHANGED <<net, pc, sendQueue, srv>>
  BY DEF Announce
<1>3. parts \in [Clients -> Nat] /\ Size[c] \in Nat
  BY FileAssumption DEF Typed, RecvTyped
<1>4. Resting(c)' /\ parts'[c] = 1
  BY <1>1, <1>2, <1>3 DEF Quiet, Resting, SentAll
<1>5. Datagrams(c, 0, 0) = <<>> /\ 1 - 1 = 0
  <2>1. 1 .. 0 - 0 = {}
    OBVIOUS
  <2>2. QED
    BY <2>1 DEF Datagrams
<1>6. net' = Datagrams(c, 0, 1 - 1)
  BY <1>1, <1>2, <1>5 DEF Quiet
<1>7. Coming(c, 0)'
  <2>1. 1 \in 1 .. Size[c] + 3 /\ 0 < 1
    BY <1>3
  <2>2. QED
    BY <1>4, <1>6, <2>1 DEF Coming
<1>8. Announced(c)'
  BY <1>1, <1>2, <1>7 DEF Quiet, Announced, AllIdle
<1>9. QED
  BY <1>8 DEF Phase

(* It sends a part.                                                          *)
LEMMA FileSendPhase ==
  ASSUME Typed, Phase, NEW d \in Clients, FileSend(d)
  PROVE  Phase'
<1>1. UNCHANGED <<jobs, disk, pc, loc, sendQueue, srv>>
  BY DEF FileSend
<1>2. ~Quiet /\ ~AllSent
  <2>1. ~SentAll(d)
    BY FileAssumption DEF FileSend, SentAll
  <2>2. QED
    BY <2>1 DEF Quiet, AllSent, SentAll
<1>3. PICK c \in Clients : Announced(c) \/ \E w \in Workers : Naming(c, w) \/ Storing(c, w)
  BY <1>2 DEF Phase, Queued, Stored, Serving
<1>4. CASE Announced(c)
  <2>1. Coming(c, 0)'
    BY <1>4, ComingSent DEF Announced
  <2>2. Announced(c)'
    BY <1>1, <1>4, <2>1 DEF Announced, AllIdle
  <2>3. QED
    BY <2>2 DEF Phase
<1>5. ASSUME NEW w \in Workers, Naming(c, w) PROVE Phase'
  <2>1. Coming(c, 0)'
    BY <1>5, ComingSent DEF Naming
  <2>2. Naming(c, w)'
    BY <1>1, <1>5, <2>1 DEF Naming, OnlyBusy
  <2>3. QED
    BY <2>2 DEF Phase
<1>6. ASSUME NEW w \in Workers, Storing(c, w) PROVE Phase'
  <2>1. PICK p \in 0 .. Size[c] : loc[w].pos = p /\ disk[FileName[c]] = Chunks(c, p) /\ Coming(c, p + 1)
    BY <1>6 DEF Storing
  <2>2. p + 1 \in Nat
    BY FileAssumption
  <2>3. Coming(c, p + 1)'
    BY <2>1, <2>2, ComingSent
  <2>4. Storing(c, w)'
    BY <1>1, <1>6, <2>1, <2>3 DEF Storing, OnlyBusy
  <2>5. QED
    BY <2>4 DEF Phase
<1>7. QED
  BY <1>3, <1>4, <1>5, <1>6

(* RecvFile is called for the client that announced its file.                *)
LEMMA RecvFilePhase ==
  ASSUME Typed, Phase, NEW w \in Workers, NEW c \in Clients, RecvFile(w, c), ~disturbed'
  PROVE  Phase'
<1>1. /\ pc[w] = "idle" /\ c \in jobs /\ jobs' = jobs \ {c}
      /\ UNCHANGED <<parts, net, sendQueue, srv>>
  BY DEF RecvFile
<1>2. pc' = [pc EXCEPT ![w] = "name"] /\ loc' = [loc EXCEPT ![w] = [NoLoc EXCEPT !.client = c]]
  BY Zenon DEF RecvFile
<1>3. pc \in [Workers -> {"idle", "name", "data", "queue"}] /\ loc \in [Workers -> LocType]
  BY DEF Typed, RecvTyped
<1>4. Announced(c)
  BY <1>1 DEF Phase, Quiet, Announced, Naming, Storing, Stored, Queued, Serving, AllSent
<1>5. Coming(c, 0)'
  BY <1>1, <1>4 DEF Announced, Coming, Resting, SentAll
<1>6. /\ pc'[w] = "name" /\ loc'[w].client = c /\ jobs' = {}
      /\ \A u \in Workers \ {w} : pc'[u] = "idle"
  BY <1>1, <1>2, <1>3, <1>4 DEF Announced, AllIdle, NoLoc
<1>7. Naming(c, w)'
  BY <1>1, <1>4, <1>5, <1>6 DEF Announced, Naming, OnlyBusy
<1>8. QED
  BY <1>7 DEF Phase

(* The thread that reads a name or a chunk is the only one that does.        *)
LEMMA NamingOnly ==
  ASSUME Phase, NEW w \in Workers, pc[w] = "name"
  PROVE  \E c \in Clients : Naming(c, w)
BY DEF Phase, Quiet, Announced, Naming, Storing, Stored, Queued, Serving, AllIdle, OnlyBusy

(* The same for the thread that stores a file,                               *)
LEMMA StoringOnly ==
  ASSUME Phase, NEW w \in Workers, pc[w] = "data"
  PROVE  \E c \in Clients : Storing(c, w)
BY DEF Phase, Quiet, Announced, Naming, Storing, Stored, Queued, Serving, AllIdle, OnlyBusy

(* and for the thread that has stored one.                                   *)
LEMMA StoredOnly ==
  ASSUME Phase, NEW w \in Workers, pc[w] = "queue"
  PROVE  \E c \in Clients : Stored(c, w)
BY DEF Phase, Quiet, Announced, Naming, Storing, Stored, Queued, Serving, AllIdle, OnlyBusy

(* Without a fault recvfrom returns the first datagram.                      *)
LEMMA FirstDatagram ==
  ASSUME NEW i, Datagram(i), ~disturbed'
  PROVE  i = 1
BY Zenon DEF Datagram

(* The first datagram is the name, and the file is made empty.               *)
LEMMA RecvNamePhase ==
  ASSUME Typed, Phase, NEW w \in Workers, NEW i \in DOMAIN net, RecvName(w, i), ~disturbed'
  PROVE  Phase'
<1>1. pc[w] = "name" /\ Datagram(i) /\ net' = Without(i) /\ pc' = [pc EXCEPT ![w] = "data"]
      /\ UNCHANGED <<parts, jobs, sendQueue, srv>>
  BY DEF RecvName
<1>2. i = 1
  BY <1>1, FirstDatagram
<1>3. PICK c \in Clients : Naming(c, w)
  BY <1>1, NamingOnly
<1>4. net[1] = <<c, 0>> /\ Coming(c, 0 + 1)'
  BY <1>1, <1>2, <1>3, ComingTaken DEF Naming
<1>5. net[1][1] = c /\ net[1][2] = 0
  BY <1>4
<1>6. disk' = Open(FileName[c]) /\ loc' = [loc EXCEPT ![w].file = FileName[c]]
  BY <1>2, <1>5 DEF RecvName
<1>7. /\ pc \in [Workers -> {"idle", "name", "data", "queue"}] /\ loc \in [Workers -> LocType]
      /\ disk \in [Names -> Seq(Content)] /\ FileName[c] \in Names /\ loc[w].pos = 0
  BY <1>1 DEF Typed, RecvTyped, Names, LocFits
<1>8. /\ pc'[w] = "data" /\ loc'[w].client = c /\ loc'[w].file = FileName[c] /\ loc'[w].pos = 0
      /\ \A u \in Workers \ {w} : pc'[u] = "idle"
  BY <1>1, <1>3, <1>6, <1>7 DEF Naming, OnlyBusy, LocType
<1>9. disk'[FileName[c]] = Chunks(c, 0)
  <2>1. disk'[FileName[c]] = <<>>
    BY <1>6, <1>7 DEF Open
  <2>2. Chunks(c, 0) = <<>>
    BY DEF Chunks
  <2>3. QED
    BY <2>1, <2>2
<1>10. 0 \in 0 .. Size[c]
  BY FileAssumption
<1>11. Storing(c, w)'
  BY <1>1, <1>3, <1>4, <1>8, <1>9, <1>10 DEF Naming, Storing, OnlyBusy
<1>12. QED
  BY <1>11 DEF Phase

(* It is never taken for a chunk or for the end of a file.                   *)
LEMMA RecvNoNamePhase ==
  ASSUME Typed, Phase, NEW w \in Workers, NEW i \in DOMAIN net, RecvNoName(w, i)
  PROVE  disturbed'
<1> SUFFICES ASSUME ~disturbed' PROVE FALSE
  OBVIOUS
<1>1. pc[w] = "name" /\ Datagram(i) /\ net[i][2] # 0
  BY DEF RecvNoName
<1>2. i = 1
  BY <1>1, FirstDatagram
<1>3. PICK c \in Clients : Naming(c, w)
  BY <1>1, NamingOnly
<1>4. net[1] = <<c, 0>>
  BY <1>2, <1>3, ComingTaken DEF Naming
<1>5. QED
  BY <1>1, <1>2, <1>4

(* The next datagram is the next chunk, or the end after the last one.       *)
LEMMA RecvDataPhase ==
  ASSUME Typed, Phase, NEW w \in Workers, NEW i \in DOMAIN net, RecvData(w, i), ~disturbed'
  PROVE  Phase'
<1>1. pc[w] = "data" /\ Datagram(i) /\ net' = Without(i)
      /\ UNCHANGED <<parts, jobs, sendQueue, srv>>
  BY DEF RecvData
<1>2. i = 1
  BY <1>1, FirstDatagram
<1>3. PICK c \in Clients : Storing(c, w)
  BY <1>1, StoringOnly
<1>4. PICK p \in 0 .. Size[c] : loc[w].pos = p /\ disk[FileName[c]] = Chunks(c, p) /\ Coming(c, p + 1)
  BY <1>3 DEF Storing
<1>5. Size[c] \in Nat /\ p \in Nat /\ EndPart(c) = Size[c] + 1
  BY FileAssumption DEF EndPart
<1>6. PICK q \in Nat : q = p + 1
  BY <1>5
<1>7. /\ net[1] = <<c, q>> /\ q <= EndPart(c) /\ Coming(c, q + 1)'
      /\ q = EndPart(c) => net' = <<>> /\ \A d \in Clients : SentAll(d)
  BY <1>1, <1>2, <1>4, <1>6, ComingTaken
<1>8. net[1][1] = c /\ net[1][2] = q /\ q # 0
  BY <1>5, <1>6, <1>7
<1>9. /\ pc \in [Workers -> {"idle", "name", "data", "queue"}] /\ loc \in [Workers -> LocType]
      /\ disk \in [Names -> Seq(Content)] /\ FileName[c] \in Names
  BY DEF Typed, RecvTyped, Names
<1>10. CASE q = EndPart(c)
  <2>1. pc' = [pc EXCEPT ![w] = "queue"] /\ UNCHANGED <<disk, loc>>
    BY <1>2, <1>8, <1>10 DEF RecvData
  <2>2. p = Size[c] /\ Chunks(c, p) = File(c)
    <3>1. p = Size[c]
      BY <1>5, <1>6, <1>10
    <3>2. QED
      BY <3>1 DEF Chunks, File
  <2>3. AllSent'
    BY <1>1, <1>3, <1>7, <1>10 DEF AllSent, SentAll, Storing
  <2>4. /\ pc'[w] = "queue" /\ loc'[w].client = c /\ loc'[w].file = FileName[c]
        /\ \A u \in Workers \ {w} : pc'[u] = "idle"
    BY <1>3, <1>9, <2>1 DEF Storing, OnlyBusy
  <2>5. Stored(c, w)'
    BY <1>1, <1>3, <1>4, <2>1, <2>2, <2>3, <2>4 DEF Stored, Storing, OnlyBusy
  <2>6. QED
    BY <2>5 DEF Phase
<1>11. CASE q # EndPart(c)
  <2>1. /\ disk' = [disk EXCEPT ![loc[w].file] = Written(@, loc[w].pos + 1, <<c, q>>)]
        /\ loc' = [loc EXCEPT ![w].pos = @ + 1] /\ UNCHANGED pc
    BY <1>2, <1>7, <1>8, <1>11 DEF RecvData
  <2>2. disk'[FileName[c]] = Chunks(c, q)
    <3>1. disk'[FileName[c]] = Written(Chunks(c, p), p + 1, <<c, p + 1>>)
      BY <1>3, <1>4, <1>6, <1>9, <2>1 DEF Storing
    <3>2. QED
      BY <1>5, <1>6, <3>1, ChunksFacts
  <2>3. loc' = [loc EXCEPT ![w].pos = q]
    BY <1>4, <1>6, <2>1
  <2>4. loc'[w].client = c /\ loc'[w].file = FileName[c] /\ loc'[w].pos = q
    BY <1>3, <1>9, <2>3 DEF LocType, Storing
  <2>5. q \in 0 .. Size[c]
    BY <1>5, <1>6, <1>11
  <2>6. Storing(c, w)'
    BY <1>1, <1>3, <1>7, <2>1, <2>2, <2>4, <2>5 DEF Storing, OnlyBusy
  <2>7. QED
    BY <2>6 DEF Phase
<1>12. QED
  BY <1>10, <1>11

(* The stored file is queued.                                                *)
LEMMA QueuePhase ==
  ASSUME Typed, Phase, NEW w \in Workers, QueueFile(w)
  PROVE  Phase'
<1>1. /\ pc[w] = "queue" /\ sendQueue' = Append(sendQueue, loc[w].file)
      /\ pc' = [pc EXCEPT ![w] = "idle"] /\ UNCHANGED <<parts, jobs, net, srv>>
  BY DEF QueueFile
<1>2. PICK c \in Clients : Stored(c, w)
  BY <1>1, StoredOnly
<1>3. AllIdle'
  BY <1>1, <1>2 DEF Typed, RecvTyped, Stored, OnlyBusy, AllIdle
<1>4. sendQueue' = <<FileName[c]>>
  BY <1>1, <1>2 DEF Stored
<1>5. Queued(c)'
  BY <1>1, <1>2, <1>3, <1>4 DEF Stored, Queued, AllSent, SentAll
<1>6. QED
  BY <1>5 DEF Phase

(* Sendwork works on the queued file only when it is stored.                 *)
LEMMA OpenPhase ==
  ASSUME Typed, Phase, OpenFile
  PROVE  Phase'
<1>1. /\ sendQueue # <<>> /\ sendQueue' = Tail(sendQueue)
      /\ srv' = IF members = {} THEN NoSrv ELSE [NoSrv EXCEPT !.file = Head(sendQueue), !.left = members]
      /\ srv = NoSrv /\ UNCHANGED <<parts, jobs, net, disk, pc>>
  BY DEF OpenFile, recvVars
<1>2. PICK c \in Clients : Queued(c)
  BY <1>1 DEF Phase, Quiet, Announced, Naming, Storing, Stored, Serving
<1>3. PICK n \in Names : n = FileName[c]
  BY DEF Names
<1>4. sendQueue' = <<>> /\ Head(sendQueue) = n
  BY <1>1, <1>2, <1>3 DEF Queued
<1>5. AllSent' /\ AllIdle'
  BY <1>1, <1>2 DEF Queued, AllSent, AllIdle, SentAll
<1>6. CASE members = {}
  BY <1>1, <1>4, <1>5, <1>6 DEF Phase, Quiet, AllSent, AllIdle, SentAll
<1>7. CASE members # {}
  <2>1. srv' = [NoSrv EXCEPT !.file = n, !.left = members]
    BY <1>1, <1>4, <1>7
  <2>2. /\ srv'.file = n /\ srv'.left = members /\ srv'.now = None
        /\ srv'.served = {} /\ srv'.pos = 0
    BY <2>1 DEF NoSrv
  <2>3. srv' # NoSrv /\ None \notin members
    BY <1>7, <2>2, FileAssumption DEF NoSrv, Typed, RestTyped
  <2>4. Serving'
    BY <1>4, <1>5, <2>2, <2>3 DEF Serving
  <2>5. QED
    BY <2>4 DEF Phase
<1>8. QED
  BY <1>6, <1>7

(* SendToRoomFile has a file only while it serves the room.                  *)
LEMMA ServingOnly ==
  ASSUME Phase, srv # NoSrv
  PROVE  Serving
BY DEF Phase, Quiet, Announced, Naming, Storing, Stored, Queued

(* SendToRoomFile goes on with its file: the next member, the next chunk.    *)
LEMMA ServePhase ==
  ASSUME Typed, Phase, srv # NoSrv, srv' # NoSrv, srv'.file = srv.file,
         UNCHANGED <<parts, jobs, net, disk, pc, sendQueue>>
  PROVE  Phase'
<1>1. Serving
  BY ServingOnly
<1>2. Serving'
  BY <1>1 DEF Serving, AllSent, AllIdle, SentAll
<1>3. QED
  BY <1>2 DEF Phase

(* The next member.                                                          *)
LEMMA NamePhase ==
  ASSUME Typed, Phase, NEW m \in Clients, SendName(m)
  PROVE  Phase'
<1>1. /\ m \in srv.left /\ UNCHANGED <<parts, jobs, net, disk, pc, sendQueue>>
      /\ srv' = [srv EXCEPT !.left = @ \ {m}, !.now = m]
  BY DEF SendName, recvVars
<1>2. srv'.now = m /\ srv'.file = srv.file
  BY <1>1 DEF Typed, SendTyped
<1>3. srv # NoSrv /\ srv' # NoSrv
  <2>1. NoSrv.left = {} /\ NoSrv.now = None /\ m # None
    BY FileAssumption DEF NoSrv
  <2>2. QED
    BY <1>1, <1>2, <2>1
<1>4. QED
  BY <1>1, <1>2, <1>3, ServePhase

(* A member is passed over: the file stays open for the others.              *)
LEMMA SkipPhase ==
  ASSUME Typed, Phase, NEW m \in Clients, SkipMember(m)
  PROVE  Phase'
<1>1. /\ m \in srv.left /\ UNCHANGED <<parts, jobs, net, disk, pc, sendQueue>>
      /\ srv' = [srv EXCEPT !.left = @ \ {m}]
  BY DEF SkipMember, recvVars
<1>2. srv'.file = srv.file /\ srv.file \in Names
  BY <1>1 DEF Typed, SendTyped
<1>3. srv # NoSrv /\ srv' # NoSrv
  <2>1. NoSrv.file = None /\ None \notin Names
    BY FileAssumption DEF NoSrv, Names
  <2>2. QED
    BY <1>2, <2>1
<1>4. QED
  BY <1>1, <1>2, <1>3, ServePhase

(* The next chunk of the file, or its end.                                   *)
LEMMA DataPhase ==
  ASSUME Typed, Phase, SendData
  PROVE  Phase'
<1>1. srv.now # None /\ UNCHANGED <<parts, jobs, net, disk, pc, sendQueue>>
  BY DEF SendData, recvVars
<1>2. srv \in SrvType /\ srv.file \in Names
  BY <1>1 DEF Typed, SendTyped, SrvType
<1>3. srv'.file = srv.file
  BY <1>2, SrvStep
<1>4. srv # NoSrv /\ srv' # NoSrv
  <2>1. NoSrv.file = None /\ None \notin Names
    BY FileAssumption DEF NoSrv, Names
  <2>2. QED
    BY <1>2, <1>3, <2>1
<1>5. QED
  BY <1>1, <1>3, <1>4, ServePhase

(* Nothing goes on any more.                                                 *)
LEMMA ClosePhase ==
  ASSUME Phase, CloseFile
  PROVE  Phase'
<1>1. Serving
  BY ServingOnly DEF CloseFile, AllServed
<1>2. Quiet'
  BY <1>1 DEF CloseFile, recvVars, Serving, Quiet, AllSent, AllIdle, SentAll
<1>3. QED
  BY <1>2 DEF Phase

(* Steps that leave the transfer alone.                                      *)
LEMMA OtherPhase ==
  ASSUME Phase, UNCHANGED <<parts, jobs, net, disk, pc, loc, sendQueue, srv>>
  PROVE  Phase'
<1>1. CASE Quiet
  BY <1>1 DEF Phase, Quiet
<1>2. CASE Serving
  BY <1>2 DEF Phase, Serving, AllSent, AllIdle, SentAll
<1>3. ASSUME NEW c \in Clients, Announced(c) \/ Queued(c) PROVE Phase'
  <2>1. Announced(c)' \/ Queued(c)'
    BY <1>3 DEF Announced, Queued, AllIdle, AllSent, Coming, Resting, SentAll
  <2>2. QED
    BY <2>1 DEF Phase
<1>4. ASSUME NEW c \in Clients, NEW w \in Workers, Naming(c, w) \/ Storing(c, w) \/ Stored(c, w) PROVE Phase'
  <2>1. Naming(c, w)' \/ Storing(c, w)' \/ Stored(c, w)'
    <3>1. CASE Naming(c, w)
      BY <3>1 DEF Naming, OnlyBusy, Coming, Resting, SentAll
    <3>2. CASE Storing(c, w)
      BY <3>2 DEF Storing, OnlyBusy, Coming, Resting, SentAll
    <3>3. CASE Stored(c, w)
      BY <3>3 DEF Stored, OnlyBusy, AllSent, SentAll
    <3>4. QED
      BY <1>4, <3>1, <3>2, <3>3
  <2>2. QED
    BY <2>1 DEF Phase
<1>5. QED
  BY <1>1, <1>2, <1>3, <1>4 DEF Phase

(* Every step goes on with the transfer that is under way, or disturbs it.   *)
LEMMA NextTransfer == TransferInv /\ [Next]_vars => Transfer'
<1> SUFFICES ASSUME TransferInv, [Next]_vars, ~disturbed' PROVE Phase'
  BY DEF Transfer
<1>0. StepInv /\ Typed /\ (~disturbed => Phase)
  BY DEF TransferInv, StepInv, Transfer
<1>1. CASE \E c \in Clients : Announce(c)
  BY <1>0, <1>1, AnnouncePhase
<1>2. CASE \E i \in DOMAIN net : Lose(i)
  BY <1>2, Zenon DEF Lose
<1>3. ASSUME ~Phase, ~(\E c \in Clients : Announce(c)), ~(\E i \in DOMAIN net : Lose(i)) PROVE FALSE
  <2>1. disturbed
    BY <1>0, <1>3
  <2>2. CASE \E c \in Clients : FileSend(c) \/ Disconnect(c) \/ LeaveList(c)
    BY <2>1, <2>2, Zenon DEF FileSend, Disconnect, LeaveList
  <2>3. CASE \E w \in Workers : (\E c \in Clients : RecvFile(w, c)) \/ RecvStep(w) \/ QueueFile(w) \/ QueueNowhere(w)
    BY <2>1, <2>3, Zenon
      DEF RecvFile, RecvStep, RecvName, RecvNoName, RecvData, Datagram, QueueFile, QueueNowhere
  <2>4. CASE OpenFile \/ Serve
    BY <2>1, <2>4, Zenon DEF OpenFile, Serve, SendName, SkipMember, SendNowhere, SendData, CloseFile
  <2>5. CASE \E m \in Clients : Member(m)
    BY <2>1, <2>5, Zenon DEF Member, RecvFileThread, LoseOut
  <2>6. CASE UNCHANGED vars
    BY <2>1, <2>6, Zenon DEF vars
  <2>7. QED
    BY <1>3, <2>2, <2>3, <2>4, <2>5, <2>6, Zenon DEF Next
<1>4. CASE Phase
  <2>1. CASE \E c \in Clients : FileSend(c)
    BY <1>0, <1>4, <2>1, FileSendPhase
  <2>2. CASE \E c \in Clients : Disconnect(c) \/ LeaveList(c)
    BY <1>4, <2>2, OtherPhase DEF Disconnect, LeaveList, recvVars
  <2>3. ASSUME NEW w \in Workers, NEW c \in Clients, RecvFile(w, c) PROVE Phase'
    BY <1>0, <1>4, <2>3, RecvFilePhase
  <2>4. ASSUME NEW w \in Workers, RecvStep(w) PROVE Phase'
    <3>1. PICK i \in DOMAIN net : RecvName(w, i) \/ RecvNoName(w, i) \/ RecvData(w, i)
      BY <2>4 DEF RecvStep
    <3>2. QED
      BY <1>0, <1>4, <3>1, RecvNamePhase, RecvNoNamePhase, RecvDataPhase
  <2>5. ASSUME NEW w \in Workers, QueueFile(w) PROVE Phase'
    BY <1>0, <1>4, <2>5, QueuePhase
  <2>6. ASSUME NEW w \in Workers, QueueNowhere(w) PROVE Phase'
    BY <1>4, <2>6, OtherPhase DEF QueueNowhere, recvVars
  <2>7. CASE OpenFile
    BY <1>0, <1>4, <2>7, OpenPhase
  <2>8. CASE \E m \in Clients : SendName(m)
    BY <1>0, <1>4, <2>8, NamePhase
  <2>9. CASE \E m \in Clients : SendNowhere(m)
    BY <1>4, <2>9, OtherPhase DEF SendNowhere, recvVars
  <2>10. CASE SendData
    BY <1>0, <1>4, <2>10, DataPhase
  <2>11. CASE CloseFile
    BY <1>4, <2>11, ClosePhase
  <2>12. CASE \E m \in Clients : SkipMember(m)
    BY <1>0, <1>4, <2>12, SkipPhase
  <2>13. CASE \E m \in Clients : Member(m)
    <3>1. UNCHANGED <<recvVars, sendQueue, srv>>
      BY <2>13 DEF Member, RecvFileThread, LoseOut
    <3>2. QED
      BY <1>4, <3>1, OtherPhase DEF recvVars
  <2>14. CASE UNCHANGED vars
    BY <1>4, <2>14, OtherPhase DEF vars, recvVars
  <2>15. QED
    BY <1>1, <1>2, <2>1, <2>2, <2>3, <2>4, <2>5, <2>6, <2>7, <2>8, <2>9, <2>10, <2>11, <2>12, <2>13, <2>14
      DEF Next, Serve
<1>5. QED
  BY <1>1, <1>2, <1>3, <1>4

(* Until a transfer is disturbed, everything that is stored, on its way or   *)
(* queued belongs to one client's file, in the order it was sent.            *)
THEOREM TransfersOneByOne == Spec => []TransferInv
<1>1. Init => TransferInv
  <2>1. Init => Quiet
    BY DEF Init, Quiet
  <2>2. QED
    BY <2>1, InitStep DEF TransferInv, Transfer, Phase
<1>2. TransferInv /\ [Next]_vars => TransferInv'
  BY NextStep, NextTransfer DEF TransferInv
<1>3. QED
  BY <1>1, <1>2, PTL DEF Spec

(* What RecvFile has stored when it queues it is the announced client's file *)
(* under its own name, as long as one transfer goes on at a time, its sender *)
(* stays and no datagram is lost or overtaken.                               *)
THEOREM FilesStoredAsSent == Spec => []StoredAsSent
<1>1. ASSUME TransferInv PROVE StoredAsSent
  <2>1. ASSUME Phase, NEW w \in Workers, pc[w] = "queue"
        PROVE  loc[w].file = FileName[loc[w].client] /\ disk[loc[w].file] = File(loc[w].client)
    <3>1. PICK c \in Clients : Stored(c, w)
      BY <2>1, StoredOnly
    <3>2. QED
      BY <3>1 DEF Stored
  <2>2. QED
    BY <1>1, <2>1 DEF TransferInv, Transfer, StoredAsSent
<1>2. QED
  BY <1>1, TransfersOneByOne, PTL

(* RecvFile never waits for datagrams that nobody will send: under the same  *)
(* condition the client has more to send or a datagram is waiting.           *)
THEOREM RecvFileNeverStarves == Spec => []RecvFileIsFed
<1>1. ASSUME TransferInv PROVE RecvFileIsFed
  <2>1. ASSUME NEW c \in Clients, NEW p \in 0 .. Size[c] + 1, Coming(c, p)
        PROVE  net # <<>> \/ parts[c] < Size[c] + 3
    <3>1. PICK n \in 1 .. Size[c] + 3 : p < n /\ parts[c] = n /\ net = Datagrams(c, p, n - 1)
      BY <2>1 DEF Coming
    <3>2. Size[c] \in Nat
      BY FileAssumption
    <3>3. CASE n < Size[c] + 3
      BY <3>1, <3>3
    <3>4. CASE n = Size[c] + 3
      <4>1. PICK k \in Nat : k # 0 /\ n - 1 = p + k
        <5>1. (n - 1) - p \in Nat /\ (n - 1) - p # 0 /\ n - 1 = p + ((n - 1) - p)
          BY <3>2, <3>4
        <5>2. QED
          BY <5>1
      <4>2. Len(net) = k
        <5>1. p \in Nat /\ net = Datagrams(c, p, p + k)
          BY <3>1, <3>2, <4>1
        <5>2. QED
          BY <5>1, DatagramsFacts
      <4>3. QED
        BY <4>1, <4>2
    <3>5. QED
      BY <3>2, <3>3, <3>4
  <2>2. ASSUME Phase, NEW w \in Workers, pc[w] \in {"name", "data"}
        PROVE  net # <<>> \/ parts[loc[w].client] < Size[loc[w].client] + 3
    <3>1. CASE pc[w] = "name"
      <4>1. PICK c \in Clients : Naming(c, w)
        BY <2>2, <3>1, NamingOnly
      <4>2. 0 \in 0 .. Size[c] + 1
        BY FileAssumption
      <4>3. QED
        BY <2>1, <4>1, <4>2 DEF Naming
    <3>2. CASE pc[w] = "data"
      <4>1. PICK c \in Clients : Storing(c, w)
        BY <2>2, <3>2, StoringOnly
      <4>2. PICK p \in 0 .. Size[c] : Coming(c, p + 1)
        BY <4>1 DEF Storing
      <4>3. p + 1 \in 0 .. Size[c] + 1
        BY FileAssumption
      <4>4. QED
        BY <2>1, <4>1, <4>2, <4>3 DEF Storing
    <3>3. QED
      BY <2>2, <3>1, <3>2
  <2>3. QED
    BY <1>1, <2>2 DEF TransferInv, Transfer, RecvFileIsFed
<1>2. QED
  BY <1>1, TransfersOneByOne, PTL
=============================================================================
