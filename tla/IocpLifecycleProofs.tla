------------------------ MODULE IocpLifecycleProofs ------------------------
(***************************************************************************)
(* Theorems about IocpLifecycle for any number of handles, connections and  *)
(* threads: who has a block, who receives from a connection, and who may    *)
(* close it.                                                                *)
(***************************************************************************)
EXTENDS IocpLifecycle, FiniteSetTheorems, TLAPS

(* What a thread has in its hands in each of its steps.                      *)
Target == [mode : {"none"}, h : Handles, c : Conns, io : {None}, chr : {None}]
LocalsOK ==
  \A t \in Threads :
    /\ pc[t] = "idle" => loc[t] = NoLoc
    /\ pc[t] = "recv" => t = "main"
    /\ pc[t] \in {"recv", "send"} => loc[t] \in Target
    /\ pc[t] = "read" => loc[t].mode # "SEND"
    /\ pc[t] \in {"read", "exit"} => loc[t] \in Operation

Typed ==
  /\ TypeOK /\ LocalsOK
  /\ loc \in [Threads -> Local]
  /\ data \in [Conns -> Nat]

(* The blocks of one kind ("io" or "chr"): used are those taken from the     *)
(* pool, pend the operations, locs what the threads have, lst the lost ones. *)
Accounted(kind, used, pend, locs, lst) ==
  /\ used \subseteq Blocks /\ IsFiniteSet(used)
  /\ \A b \in used :
       <<kind, b>> \in lst \/ (\E x \in pend : x[kind] = b) \/ (\E t \in Threads : locs[t][kind] = b)
  /\ \A b \in Blocks : <<kind, b>> \in lst => b \in used
  /\ \A x \in pend : x[kind] # None => x[kind] \in used /\ <<kind, x[kind]>> \notin lst
  /\ \A t \in Threads : locs[t][kind] # None => locs[t][kind] \in used /\ <<kind, locs[t][kind]>> \notin lst
  /\ \A x, y \in pend : (x # y /\ x[kind] = y[kind]) => x[kind] = None
  /\ \A x \in pend, t \in Threads : x[kind] = locs[t][kind] => x[kind] = None
  /\ \A t, u \in Threads : (t # u /\ locs[t][kind] = locs[u][kind]) => locs[t][kind] = None

Blocked ==
  /\ Accounted("io", ioUsed, pending, loc, lost)
  /\ Accounted("chr", charUsed, pending, loc, lost)

BlockInv == Typed /\ Blocked

(* An operation or a thread that has handle h because of connection c: the   *)
(* connection is open at no other handle, and the handle stands for it, for  *)
(* none, or was given out again too early.                                   *)
Bound(h, c) ==
  /\ c <= accepted
  /\ \A g \in Handles : conn[g] = c => g = h
  /\ conn[h] \in {None, c} \cup recycled
HandlesKnown ==
  /\ \A op \in pending : Bound(op.h, op.c)
  /\ \A t \in Threads : pc[t] # "idle" => Bound(loc[t].h, loc[t].c)

(* Connections are numbered as they are accepted.                            *)
ConnsDistinct ==
  \A h \in Handles :
    /\ conn[h] <= accepted
    /\ \A g \in Handles : (conn[g] = conn[h] /\ conn[g] # None) => g = h

(* Only the end of a connection leads to ClientExit.                         *)
ExitsForReason ==
  \A t \in Threads : pc[t] = "exit" => loc[t].c \in gone \/ conn[loc[t].h] # loc[t].c

CloseInv == Typed /\ HandlesKnown /\ ConnsDistinct /\ ExitsForReason

(* The receive of a connection: with the kernel or in a thread's hands.      *)
WithKernel(op, c) == op.c = c /\ op.mode # "SEND"
InHands(t, c) == pc[t] \in {"read", "recv", "exit"} /\ loc[t].c = c /\ loc[t].mode # "SEND"
ReceivedOnce(c) ==
  /\ (\E op \in pending : WithKernel(op, c)) \/ (\E t \in Threads : InHands(t, c))
  /\ \A op \in pending, t \in Threads : ~(WithKernel(op, c) /\ InHands(t, c))
  /\ \A op, q \in pending : WithKernel(op, c) /\ WithKernel(q, c) => op = q
  /\ \A t, u \in Threads : InHands(t, c) /\ InHands(u, c) => t = u
Receives ==
  \A h \in Handles : (conn[h] # None /\ conn[h] \notin recycled \cup deaf) => ReceivedOnce(conn[h])

-----------------------------------------------------------------------------
(* A pool gives a block that is not in use.                                  *)
LEMMA MallocGives ==
  ASSUME NEW used, used \subseteq Blocks, IsFiniteSet(used)
  PROVE  Malloc(used) \in Blocks /\ Malloc(used) \notin used
<1> DEFINE n == Cardinality(used)
<1>1. n \in Nat
  BY FS_CardinalityType
<1>2. \E b \in 1 .. n + 1 : b \notin used
  <2>1. SUFFICES ASSUME 1 .. n + 1 \subseteq used PROVE FALSE
    OBVIOUS
  <2>2. Cardinality(1 .. n + 1) <= n
    BY <2>1, FS_Subset
  <2>3. Cardinality(1 .. n + 1) = n + 1
    BY <1>1, FS_Interval
  <2>4. QED
    BY <1>1, <2>2, <2>3
<1>3. Malloc(used) \in 1 .. n + 1 /\ Malloc(used) \notin used
  BY <1>2 DEF Malloc
<1>4. QED
  BY <1>1, <1>3 DEF Blocks

(* A finite set stays finite when a block is taken or given back.            *)
LEMMA StaysFinite ==
  ASSUME NEW used, NEW old, NEW new, IsFiniteSet(used), new = {} \/ \E b : new = {b}
  PROVE  IsFiniteSet((used \ {old}) \cup new)
<1>1. IsFiniteSet(used \ {old})
  BY FS_Subset
<1>2. IsFiniteSet(new)
  <2>1. CASE new = {}
    BY <2>1, FS_EmptySet
  <2>2. ASSUME NEW b, new = {b} PROVE IsFiniteSet(new)
    BY <2>2, FS_Singleton
  <2>3. QED
    BY <2>1, <2>2
<1>3. QED
  BY <1>1, <1>2, FS_Union

(* A thread gives up what it has of a kind; block old goes back and block b  *)
(* (or none) is taken; b goes to an operation, or is lost.                   *)
GivesUp(kind, t, locs, locs2) ==
  /\ locs2[t][kind] = None
  /\ \A u \in Threads \ {t} : locs2[u][kind] = locs[u][kind]
Swaps(used, old, b, used2) ==
  /\ b = None \/ (b \in Blocks /\ b \notin used \ {old})
  /\ used2 = (used \ {old}) \cup ({b} \ {None})
HandedOn(kind, b, pend, lst, pend2, lst2) ==
  \/ /\ \E op : pend2 = pend \cup {op} /\ op[kind] = b
     /\ \A n \in Blocks : <<kind, n>> \in lst2 <=> <<kind, n>> \in lst
  \/ /\ pend2 = pend
     /\ \A n \in Blocks : <<kind, n>> \in lst2 <=> <<kind, n>> \in lst \/ n = b

(* The blocks of the kind after that.                                        *)
LEMMA HandOver ==
  ASSUME NEW kind, NEW used, NEW pend, NEW locs, NEW lst, Accounted(kind, used, pend, locs, lst),
         NEW used2, NEW pend2, NEW locs2, NEW lst2,
         NEW t \in Threads, NEW b,
         Swaps(used, locs[t][kind], b, used2),
         GivesUp(kind, t, locs, locs2), HandedOn(kind, b, pend, lst, pend2, lst2)
  PROVE  Accounted(kind, used2, pend2, locs2, lst2)
<1> DEFINE old == locs[t][kind]
<1> USE DEF GivesUp, Swaps, HandedOn
<1>0. None \notin Blocks
  BY DEF None, Blocks
<1>a. /\ used \subseteq Blocks /\ IsFiniteSet(used)
      /\ \A n \in used :
           <<kind, n>> \in lst \/ (\E x \in pend : x[kind] = n) \/ (\E u \in Threads : locs[u][kind] = n)
      /\ \A n \in Blocks : <<kind, n>> \in lst => n \in used
      /\ \A x \in pend : x[kind] # None => x[kind] \in used /\ <<kind, x[kind]>> \notin lst
      /\ \A u \in Threads : locs[u][kind] # None => locs[u][kind] \in used /\ <<kind, locs[u][kind]>> \notin lst
      /\ \A x, y \in pend : (x # y /\ x[kind] = y[kind]) => x[kind] = None
      /\ \A x \in pend, u \in Threads : x[kind] = locs[u][kind] => x[kind] = None
      /\ \A u, v \in Threads : (u # v /\ locs[u][kind] = locs[v][kind]) => locs[u][kind] = None
  BY DEF Accounted
<1>1. used2 \subseteq Blocks /\ IsFiniteSet(used2)
  <2>1. {b} \ {None} = {} \/ {b} \ {None} = {b}
    OBVIOUS
  <2>2. QED
    BY <1>a, <2>1, StaysFinite
(* What others refer to is neither what is given up nor b.                   *)
<1>2. /\ \A x \in pend : x[kind] # None => x[kind] # old /\ x[kind] # b /\ x[kind] \in used2
      /\ \A u \in Threads \ {t} : locs[u][kind] # None => locs[u][kind] # old /\ locs[u][kind] # b /\ locs[u][kind] \in used2
  <2>1. ASSUME NEW x \in pend, x[kind] # None PROVE x[kind] \in used /\ x[kind] # old
    BY <1>a, <2>1
  <2>2. ASSUME NEW u \in Threads \ {t}, locs[u][kind] # None PROVE locs[u][kind] \in used /\ locs[u][kind] # old
    BY <1>a, <2>2
  <2> HIDE DEF old
  <2>3. used2 = (used \ {old}) \cup ({b} \ {None}) /\ (b = None \/ b \notin used \ {old})
    BY DEF old
  <2>4. QED
    BY <2>1, <2>2, <2>3
<1>3. \A n \in Blocks : <<kind, n>> \in lst => n \in used2 /\ n # b
  BY <1>a, <1>0
<1>4. CASE /\ \E op : pend2 = pend \cup {op} /\ op[kind] = b
           /\ \A n \in Blocks : <<kind, n>> \in lst2 <=> <<kind, n>> \in lst
  <2>0. PICK op : pend2 = pend \cup {op} /\ op[kind] = b
    BY <1>4
  <2>1. ASSUME NEW n \in used2
        PROVE  <<kind, n>> \in lst2 \/ (\E x \in pend2 : x[kind] = n) \/ (\E u \in Threads : locs2[u][kind] = n)
    <3>1. CASE n = b
      BY <2>0, <3>1
    <3>2. CASE n \in used /\ n # old
      BY <1>a, <1>4, <2>0, <3>2
    <3>3. QED
      BY <3>1, <3>2
  <2>2. \A n \in Blocks : <<kind, n>> \in lst2 => n \in used2
    BY <1>3, <1>4
  <2>3. \A x \in pend2 : x[kind] # None => x[kind] \in used2 /\ <<kind, x[kind]>> \notin lst2
    BY <1>0, <1>1, <1>2, <1>3, <1>4, <1>a, <2>0
  <2>4. \A u \in Threads : locs2[u][kind] # None => locs2[u][kind] \in used2 /\ <<kind, locs2[u][kind]>> \notin lst2
    BY <1>1, <1>2, <1>4, <1>a
  <2>5. \A x, y \in pend2 : (x # y /\ x[kind] = y[kind]) => x[kind] = None
    BY <1>2, <1>a, <2>0
  <2>6. \A x \in pend2, u \in Threads : x[kind] = locs2[u][kind] => x[kind] = None
    BY <1>2, <1>a, <2>0
  <2>7. \A u, v \in Threads : (u # v /\ locs2[u][kind] = locs2[v][kind]) => locs2[u][kind] = None
    BY <1>a
  <2>8. QED
    BY <1>1, <2>1, <2>2, <2>3, <2>4, <2>5, <2>6, <2>7 DEF Accounted
<1>5. CASE /\ pend2 = pend
           /\ \A n \in Blocks : <<kind, n>> \in lst2 <=> <<kind, n>> \in lst \/ n = b
  <2>1. ASSUME NEW n \in used2
        PROVE  <<kind, n>> \in lst2 \/ (\E x \in pend2 : x[kind] = n) \/ (\E u \in Threads : locs2[u][kind] = n)
    <3>0. n \in Blocks
      BY <1>1
    <3>1. CASE n = b
      BY <1>5, <3>0, <3>1
    <3>2. CASE n \in used /\ n # old
      BY <1>a, <1>5, <3>0, <3>2
    <3>3. QED
      BY <3>1, <3>2
  <2>2. \A n \in Blocks : <<kind, n>> \in lst2 => n \in used2
    BY <1>0, <1>3, <1>5
  <2>3. \A x \in pend2 : x[kind] # None => x[kind] \in used2 /\ <<kind, x[kind]>> \notin lst2
    BY <1>1, <1>2, <1>5, <1>a
  <2>4. \A u \in Threads : locs2[u][kind] # None => locs2[u][kind] \in used2 /\ <<kind, locs2[u][kind]>> \notin lst2
    BY <1>1, <1>2, <1>5, <1>a
  <2>5. \A x, y \in pend2 : (x # y /\ x[kind] = y[kind]) => x[kind] = None
    BY <1>5, <1>a
  <2>6. \A x \in pend2, u \in Threads : x[kind] = locs2[u][kind] => x[kind] = None
    BY <1>5, <1>a
  <2>7. \A u, v \in Threads : (u # v /\ locs2[u][kind] = locs2[v][kind]) => locs2[u][kind] = None
    BY <1>a
  <2>8. QED
    BY <1>1, <2>1, <2>2, <2>3, <2>4, <2>5, <2>6, <2>7 DEF Accounted
<1>6. QED
  BY <1>4, <1>5

(* A RecvThread takes an operation from the kernel.                          *)
LEMMA TakeOp ==
  ASSUME NEW kind, NEW used, NEW pend, NEW locs, NEW lst, Accounted(kind, used, pend, locs, lst),
         NEW locs2, NEW t \in Threads, NEW op \in pend,
         locs[t][kind] = None, locs2[t][kind] = op[kind],
         \A u \in Threads \ {t} : locs2[u][kind] = locs[u][kind]
  PROVE  Accounted(kind, used, pend \ {op}, locs2, lst)
<1>a. /\ used \subseteq Blocks /\ IsFiniteSet(used)
      /\ \A b \in used :
           <<kind, b>> \in lst \/ (\E x \in pend : x[kind] = b) \/ (\E u \in Threads : locs[u][kind] = b)
      /\ \A b \in Blocks : <<kind, b>> \in lst => b \in used
      /\ \A x \in pend : x[kind] # None => x[kind] \in used /\ <<kind, x[kind]>> \notin lst
      /\ \A u \in Threads : locs[u][kind] # None => locs[u][kind] \in used /\ <<kind, locs[u][kind]>> \notin lst
      /\ \A x, y \in pend : (x # y /\ x[kind] = y[kind]) => x[kind] = None
      /\ \A x \in pend, u \in Threads : x[kind] = locs[u][kind] => x[kind] = None
      /\ \A u, v \in Threads : (u # v /\ locs[u][kind] = locs[v][kind]) => locs[u][kind] = None
  BY DEF Accounted
<1>0. None \notin used
  BY <1>a DEF None, Blocks
<1>1. ASSUME NEW b \in used
      PROVE  <<kind, b>> \in lst \/ (\E x \in pend \ {op} : x[kind] = b) \/ (\E u \in Threads : locs2[u][kind] = b)
  <2>1. CASE op[kind] = b
    BY <2>1
  <2>2. CASE op[kind] # b
    <3>1. ASSUME NEW u \in Threads, locs[u][kind] = b PROVE locs2[u][kind] = b
      BY <1>0, <3>1
    <3>2. QED
      BY <1>a, <2>2, <3>1
  <2>3. QED
    BY <2>1, <2>2
<1>2. /\ \A u \in Threads : locs2[u][kind] # None => locs2[u][kind] \in used /\ <<kind, locs2[u][kind]>> \notin lst
      /\ \A x \in pend \ {op}, u \in Threads : x[kind] = locs2[u][kind] => x[kind] = None
  BY <1>a
<1>3. \A u, v \in Threads : (u # v /\ locs2[u][kind] = locs2[v][kind]) => locs2[u][kind] = None
  BY <1>a
<1>4. QED
  BY <1>1, <1>2, <1>3, <1>a DEF Accounted

(* A finished send gives its block back.                                     *)
LEMMA FreeOp ==
  ASSUME NEW kind, NEW used, NEW pend, NEW locs, NEW lst, Accounted(kind, used, pend, locs, lst),
         NEW op \in pend
  PROVE  Accounted(kind, used \ {op[kind]}, pend \ {op}, locs, lst)
<1>1. used \ {op[kind]} \subseteq Blocks /\ IsFiniteSet(used \ {op[kind]}) /\ None \notin Blocks
  BY FS_Subset DEF Accounted, None, Blocks
<1>2. QED
  BY <1>1 DEF Accounted

(* Other steps leave the blocks alone.                                       *)
LEMMA SameBlocks ==
  ASSUME NEW kind, NEW used, NEW pend, NEW locs, NEW lst, Accounted(kind, used, pend, locs, lst),
         NEW locs2, \A u \in Threads : locs2[u][kind] = locs[u][kind]
  PROVE  Accounted(kind, used, pend, locs2, lst)
BY DEF Accounted

-----------------------------------------------------------------------------
(* What the steps do, in the terms of the invariants.                        *)

Labels == {"idle", "recv", "send", "exit", "read"}
Fits(t, label, x) ==
  \/ label = "idle" /\ x = NoLoc
  \/ label = "recv" /\ t = "main" /\ x \in Target
  \/ label = "send" /\ x \in Target
  \/ label = "read" /\ x \in Operation /\ x.mode # "SEND"
  \/ label = "exit" /\ x \in Operation

Goes(t, label, x) ==
  /\ pc'[t] = label /\ loc'[t] = x
  /\ \A u \in Threads \ {t} : pc'[u] = pc[u] /\ loc'[u] = loc[u]
HandsTyped ==
  /\ pc \in [Threads -> Labels] /\ loc \in [Threads -> Local]
  /\ \A t \in Threads : loc[t] \in Local /\ (pc[t] = "idle" <=> loc[t] = NoLoc)
  /\ LocalsOK

(* Only an idle thread has nothing in its hands.                             *)
LEMMA LocalFacts ==
  /\ NoLoc \in Local /\ Target \subseteq Local /\ Operation \subseteq Local
  /\ NoLoc \notin Target /\ NoLoc \notin Operation
  /\ None \notin Conns /\ None \notin Blocks
<1>1. None \notin Conns /\ None \notin Blocks
  BY LifecycleAssumption DEF None, Conns, Blocks
<1>2. NoLoc \in Local /\ NoLoc \notin Target /\ NoLoc \notin Operation
  BY <1>1 DEF NoLoc, Local, Target, Operation
<1>3. Target \subseteq Local /\ Operation \subseteq Local
  BY DEF Local, Target, Operation
<1>4. QED
  BY <1>1, <1>2, <1>3

(* A step of a thread keeps the types of what threads have.                  *)
LEMMA GotoGoes ==
  ASSUME Typed, NEW t \in Threads, NEW label, NEW x, Fits(t, label, x), Goto(t, label, x)
  PROVE  Goes(t, label, x) /\ HandsTyped'
<1>1. /\ pc \in [Threads -> Labels] /\ loc \in [Threads -> Local]
      /\ \A u \in Threads : loc[u] \in Local /\ (pc[u] = "idle" <=> loc[u] = NoLoc)
  BY DEF Typed, TypeOK, Labels
<1>2. label \in Labels /\ x \in Local /\ (label = "idle" <=> x = NoLoc)
  BY LocalFacts DEF Fits, Labels
<1>3. pc' \in [Threads -> Labels] /\ loc' \in [Threads -> Local] /\ Goes(t, label, x)
  BY <1>1, <1>2 DEF Goto, Goes
<1>4. \A u \in Threads : loc'[u] \in Local /\ (pc'[u] = "idle" <=> loc'[u] = NoLoc)
  BY <1>1, <1>2, <1>3 DEF Goes
<1>5. LocalsOK'
  <2>1. ASSUME NEW u \in Threads
        PROVE  /\ pc'[u] = "idle" => loc'[u] = NoLoc
               /\ pc'[u] = "recv" => u = "main"
               /\ pc'[u] \in {"recv", "send"} => loc'[u] \in Target
               /\ pc'[u] = "read" => loc'[u].mode # "SEND"
               /\ pc'[u] \in {"read", "exit"} => loc'[u] \in Operation
    <3>1. CASE u = t
      BY <1>3, <3>1 DEF Goes, Fits
    <3>2. CASE u # t
      BY <1>3, <3>2 DEF Goes, Typed, LocalsOK
    <3>3. QED
      BY <3>1, <3>2
  <2>2. QED
    BY <2>1 DEF LocalsOK
<1>6. QED
  BY <1>3, <1>4, <1>5 DEF HandsTyped

(* The threads.                                                              *)
LEMMA ThreadFacts ==
  /\ "main" \in Threads /\ Receivers \subseteq Threads /\ Senders \subseteq Threads
BY DEF Threads

(* A thread posts an operation with block io and buffer chr, or the call is  *)
(* refused; what it had in its hands it has no more.                         *)
Posting(t, mode, io, chr, label, x) ==
  /\ mode \in Modes
  /\ loc[t].h \in Handles /\ loc[t].c \in Conns
  /\ \/ mode = "SEND" /\ pc[t] = "send"
     \/ mode # "SEND" /\ pc[t] \in {"recv", "read"}
  /\ io \in Blocks /\ io \notin ioUsed \ {loc[t].io}
  /\ chr = None \/ (chr \in Blocks /\ chr \notin charUsed \ {loc[t].chr})
  /\ ioUsed' = (ioUsed \ {loc[t].io}) \cup {io}
  /\ charUsed' = (charUsed \ {loc[t].chr}) \cup ({chr} \ {None})
  /\ Call(mode, loc[t].h, loc[t].c, io, chr)
  /\ Goto(t, label, x) /\ Fits(t, label, x) /\ x.io = None /\ x.chr = None
  /\ (label = "idle" /\ x = NoLoc) \/ (label = "send" /\ x = loc[t])
  /\ UNCHANGED <<conn, accepted, gone, recycled, data, replies>>

(* What main and senders have refers to no block.                            *)
LEMMA TargetFacts ==
  ASSUME Typed, NEW t \in Threads, pc[t] \in {"recv", "send"}
  PROVE  loc[t] \in Target /\ loc[t].h \in Handles /\ loc[t].c \in Conns /\ loc[t].io = None /\ loc[t].chr = None
         /\ loc[t].mode = "none"
BY DEF Typed, LocalsOK, Target

(* What a RecvThread has is an operation.                                    *)
LEMMA OperationFacts ==
  ASSUME Typed, NEW t \in Threads, pc[t] \in {"read", "exit"}
  PROVE  /\ loc[t] \in Operation /\ loc[t].h \in Handles /\ loc[t].c \in Conns
         /\ loc[t].io \in Blocks /\ loc[t].chr \in Blocks \cup {None} /\ loc[t].mode \in Modes
BY DEF Typed, LocalsOK, Operation

(* FirstRecv and the sends take new blocks.                                  *)
LEMMA FirstRecvPosts ==
  ASSUME BlockInv, FirstRecv
  PROVE  \E io : Posting("main", "RECV", io, None, "send", loc["main"])
<1> DEFINE io == Malloc(ioUsed)
<1>1. /\ pc["main"] = "recv" /\ ioUsed' = ioUsed \cup {io}
      /\ Call("RECV", loc["main"].h, loc["main"].c, io, None)
      /\ Goto("main", "send", loc["main"])
      /\ UNCHANGED <<conn, accepted, gone, charUsed, recycled, data, replies>>
  BY DEF FirstRecv, Recv, sockets, counts
<1>2. /\ loc["main"] \in Target /\ loc["main"].h \in Handles /\ loc["main"].c \in Conns
      /\ loc["main"].io = None /\ loc["main"].chr = None
  BY <1>1, ThreadFacts, TargetFacts DEF BlockInv
<1>3. io \in Blocks /\ io \notin ioUsed /\ ioUsed \subseteq Blocks /\ charUsed \subseteq Blocks /\ None \notin Blocks
  BY MallocGives, LocalFacts DEF BlockInv, Blocked, Accounted
<1> HIDE DEF io
<1>4. /\ ioUsed' = (ioUsed \ {loc["main"].io}) \cup {io}
      /\ charUsed' = (charUsed \ {loc["main"].chr}) \cup ({None} \ {None})
      /\ io \notin ioUsed \ {loc["main"].io}
  BY <1>1, <1>2, <1>3
<1>5. QED
  BY <1>1, <1>2, <1>3, <1>4 DEF Posting, Fits, Modes

(* A send.                                                                   *)
LEMMA SendPosts ==
  ASSUME BlockInv, NEW t \in Threads, Send(t)
  PROVE  \E io, chr : Posting(t, "SEND", io, chr, "idle", NoLoc)
<1> DEFINE io == Malloc(ioUsed)
           chr == Malloc(charUsed)
<1>1. /\ pc[t] = "send" /\ ioUsed' = ioUsed \cup {io} /\ charUsed' = charUsed \cup {chr}
      /\ Call("SEND", loc[t].h, loc[t].c, io, chr)
      /\ Goto(t, "idle", NoLoc)
      /\ UNCHANGED <<conn, accepted, gone, recycled, data, replies>>
  BY DEF Send, SendMsg, Done, sockets, counts
<1>2. /\ loc[t].h \in Handles /\ loc[t].c \in Conns
      /\ loc[t].io = None /\ loc[t].chr = None
  BY <1>1, TargetFacts DEF BlockInv
<1>3. /\ io \in Blocks /\ io \notin ioUsed /\ ioUsed \subseteq Blocks
      /\ chr \in Blocks /\ chr \notin charUsed /\ charUsed \subseteq Blocks /\ None \notin Blocks
  BY MallocGives, LocalFacts DEF BlockInv, Blocked, Accounted
<1> HIDE DEF io, chr
<1>4. /\ ioUsed' = (ioUsed \ {loc[t].io}) \cup {io}
      /\ charUsed' = (charUsed \ {loc[t].chr}) \cup ({chr} \ {None})
      /\ io \notin ioUsed \ {loc[t].io} /\ chr \notin charUsed \ {loc[t].chr}
  BY <1>1, <1>2, <1>3
<1>5. NoLoc.io = None /\ NoLoc.chr = None
  BY DEF NoLoc
<1>6. QED
  BY <1>1, <1>2, <1>3, <1>4, <1>5 DEF Posting, Fits, Modes

(* A receive that ended with a packet: both go back, and a block is taken.   *)
LEMMA ReadWholePosts ==
  ASSUME BlockInv, NEW t \in Threads, ReadWhole(t)
  PROVE  \E io : Posting(t, "RECV", io, None, "idle", NoLoc)
<1> DEFINE io == Malloc(ioUsed \ {loc[t].io})
<1>1. /\ pc[t] = "read" /\ ioUsed' = (ioUsed \ {loc[t].io}) \cup {io}
      /\ charUsed' = charUsed \ {loc[t].chr}
      /\ Call("RECV", loc[t].h, loc[t].c, io, None)
      /\ Goto(t, "idle", NoLoc)
      /\ UNCHANGED <<conn, accepted, gone, recycled, data, replies>>
  BY DEF ReadWhole, Recv, Done, sockets, counts
<1>2. loc[t].h \in Handles /\ loc[t].c \in Conns
  BY <1>1, OperationFacts DEF BlockInv
<1>3. ioUsed \ {loc[t].io} \subseteq Blocks /\ IsFiniteSet(ioUsed \ {loc[t].io})
  BY FS_Subset DEF BlockInv, Blocked, Accounted
<1>4. io \in Blocks /\ io \notin ioUsed \ {loc[t].io}
  BY <1>3, MallocGives
<1>5. NoLoc.io = None /\ NoLoc.chr = None
  BY DEF NoLoc
<1> HIDE DEF io
<1>6. charUsed' = (charUsed \ {loc[t].chr}) \cup ({None} \ {None})
  BY <1>1
<1>7. QED
  BY <1>1, <1>2, <1>4, <1>5, <1>6 DEF Posting, Fits, Modes

(* A receive that ended inside a packet: the block is posted again.          *)
LEMMA ReadPartPosts ==
  ASSUME BlockInv, NEW t \in Threads, NEW begun \in BOOLEAN, ReadPart(t, begun)
  PROVE  \E io, chr : Posting(t, "RECV_MORE", io, chr, "idle", NoLoc)
<1> DEFINE others == charUsed \ {loc[t].chr}
           chr == IF begun THEN Malloc(others) ELSE None
<1>1. /\ pc[t] = "read" /\ UNCHANGED ioUsed
      /\ charUsed' = others \cup ({chr} \ {None})
      /\ Call("RECV_MORE", loc[t].h, loc[t].c, loc[t].io, chr)
      /\ Goto(t, "idle", NoLoc)
      /\ UNCHANGED <<conn, accepted, gone, recycled, data, replies>>
  BY DEF ReadPart, RecvMore, Done, sockets, counts
<1>2. loc[t].h \in Handles /\ loc[t].c \in Conns /\ loc[t].io \in Blocks
  BY <1>1, OperationFacts DEF BlockInv
<1>3. others \subseteq Blocks /\ IsFiniteSet(others)
  BY FS_Subset DEF BlockInv, Blocked, Accounted
<1>4. chr = None \/ (chr \in Blocks /\ chr \notin others)
  BY <1>3, MallocGives
<1>5. NoLoc.io = None /\ NoLoc.chr = None /\ loc[t].io \in ioUsed
  BY <1>2, LocalFacts DEF NoLoc, BlockInv, Blocked, Accounted
<1>6. ioUsed' = (ioUsed \ {loc[t].io}) \cup {loc[t].io}
  BY <1>1, <1>5
<1> HIDE DEF chr
<1>7. Posting(t, "RECV_MORE", loc[t].io, chr, "idle", NoLoc)
  BY <1>1, <1>2, <1>4, <1>5, <1>6 DEF Posting, Fits, Modes
<1>8. QED
  BY <1>7

(* The kernel takes the operation, or refuses it and its blocks are lost.    *)
Outcome(h, c, mode, io, chr) ==
  \/ /\ conn[h] # None
     /\ \E op \in Operation :
          /\ op = [mode |-> mode, h |-> h, c |-> conn[h], io |-> io, chr |-> chr]
          /\ pending' = pending \cup {op} /\ op["io"] = io /\ op["chr"] = chr
     /\ lost' = lost /\ deaf' = deaf
  \/ /\ pending' = pending
     /\ lost' \subseteq {"io", "chr"} \X Blocks
     /\ \A n \in Blocks : <<"io", n>> \in lost' <=> <<"io", n>> \in lost \/ n = io
     /\ \A n \in Blocks : <<"chr", n>> \in lost' <=> <<"chr", n>> \in lost \/ n = chr
     /\ deaf' = IF mode = "SEND" THEN deaf ELSE deaf \cup {c}

(* WSARecv and WSASend have one of these outcomes.                           *)
LEMMA CallOutcome ==
  ASSUME Typed, NEW mode \in Modes, NEW h \in Handles, NEW c, NEW io \in Blocks,
         NEW chr \in Blocks \cup {None}, Call(mode, h, c, io, chr)
  PROVE  Outcome(h, c, mode, io, chr)
<1>1. CASE Post(mode, h, c, io, chr)
  <2> DEFINE op == [mode |-> mode, h |-> h, c |-> conn[h], io |-> io, chr |-> chr]
  <2>1. conn[h] # None /\ pending' = pending \cup {op} /\ lost' = lost /\ deaf' = deaf
    BY <1>1 DEF Post, Accepted
  <2>2. conn[h] \in Conns
    BY <2>1 DEF Typed, TypeOK
  <2>3. op \in Operation /\ op["io"] = io /\ op["chr"] = chr
    BY <2>2 DEF Operation
  <2>4. QED
    BY <2>1, <2>3 DEF Outcome
<1>2. CASE Refuse(mode, h, c, io, chr)
  <2>1. /\ pending' = pending /\ lost' = lost \cup Lose(io, chr)
        /\ deaf' = IF mode = "SEND" THEN deaf ELSE deaf \cup {c}
    BY <1>2 DEF Refuse
  <2>2. lost' \subseteq {"io", "chr"} \X Blocks
    BY <2>1 DEF Lose, Typed, TypeOK
  <2>3. /\ \A n \in Blocks : <<"io", n>> \in lost' <=> <<"io", n>> \in lost \/ n = io
        /\ \A n \in Blocks : <<"chr", n>> \in lost' <=> <<"chr", n>> \in lost \/ n = chr
    BY <2>1, LocalFacts DEF Lose
  <2>4. QED
    BY <2>1, <2>2, <2>3 DEF Outcome
<1>3. QED
  BY <1>1, <1>2 DEF Call

(* The blocks when an operation is posted.                                   *)
LEMMA PostingBlocks ==
  ASSUME BlockInv, NEW t \in Threads, NEW mode, NEW io, NEW chr, NEW label, NEW x,
         Posting(t, mode, io, chr, label, x)
  PROVE  BlockInv'
<1>1. /\ mode \in Modes /\ loc[t].h \in Handles /\ loc[t].c \in Conns
      /\ io \in Blocks /\ io \notin ioUsed \ {loc[t].io}
      /\ chr = None \/ (chr \in Blocks /\ chr \notin charUsed \ {loc[t].chr})
      /\ ioUsed' = (ioUsed \ {loc[t].io}) \cup {io}
      /\ charUsed' = (charUsed \ {loc[t].chr}) \cup ({chr} \ {None})
      /\ Call(mode, loc[t].h, loc[t].c, io, chr)
      /\ Goto(t, label, x) /\ Fits(t, label, x) /\ x["io"] = None /\ x["chr"] = None
      /\ UNCHANGED <<conn, accepted, gone, recycled, data, replies>>
  BY DEF Posting
<1>2. Goes(t, label, x) /\ HandsTyped' /\ Typed
  BY <1>1, GotoGoes DEF BlockInv
<1>3. Outcome(loc[t].h, loc[t].c, mode, io, chr)
  BY <1>1, <1>2, CallOutcome
<1>4. pending' \subseteq Operation /\ lost' \subseteq {"io", "chr"} \X Blocks /\ deaf' \subseteq Conns
  <2>1. pending \subseteq Operation /\ lost \subseteq {"io", "chr"} \X Blocks /\ deaf \subseteq Conns
    BY <1>2 DEF Typed, TypeOK
  <2>2. deaf' \subseteq Conns
    BY <1>1, <1>3, <2>1 DEF Outcome
  <2>3. pending' \subseteq Operation
    BY <1>3, <2>1 DEF Outcome
  <2>4. lost' \subseteq {"io", "chr"} \X Blocks
    BY <1>3, <2>1 DEF Outcome
  <2>5. QED
    BY <2>2, <2>3, <2>4
<1>5. ioUsed' \subseteq Blocks /\ charUsed' \subseteq Blocks
  BY <1>1, <1>2 DEF Typed, TypeOK
<1>6. Typed'
  BY <1>1, <1>2, <1>4, <1>5 DEF Typed, TypeOK, HandsTyped, Labels
<1>7. /\ loc'[t]["io"] = None /\ loc'[t]["chr"] = None
      /\ \A u \in Threads \ {t} : loc'[u]["io"] = loc[u]["io"] /\ loc'[u]["chr"] = loc[u]["chr"]
  BY <1>1, <1>2 DEF Goes
<1>8. Accounted("io", ioUsed', pending', loc', lost')
  <2>1. Swaps(ioUsed, loc[t]["io"], io, ioUsed')
    BY <1>1, LocalFacts DEF Swaps
  <2>2. HandedOn("io", io, pending, lost, pending', lost')
    BY <1>3 DEF Outcome, HandedOn
  <2>3. GivesUp("io", t, loc, loc')
    BY <1>7 DEF GivesUp
  <2>4. Accounted("io", ioUsed, pending, loc, lost)
    BY DEF BlockInv, Blocked
  <2>5. QED
    BY <2>1, <2>2, <2>3, <2>4, HandOver
<1>9. Accounted("chr", charUsed', pending', loc', lost')
  <2>1. Swaps(charUsed, loc[t]["chr"], chr, charUsed')
    BY <1>1, LocalFacts DEF Swaps
  <2>2. HandedOn("chr", chr, pending, lost, pending', lost')
    BY <1>3 DEF Outcome, HandedOn
  <2>3. GivesUp("chr", t, loc, loc')
    BY <1>7 DEF GivesUp
  <2>4. Accounted("chr", charUsed, pending, loc, lost)
    BY DEF BlockInv, Blocked
  <2>5. QED
    BY <2>1, <2>2, <2>3, <2>4, HandOver
<1>10. QED
  BY <1>6, <1>8, <1>9 DEF BlockInv, Blocked

(* A RecvThread takes an operation from the kernel; the blocks are now his.  *)
Taking(t, op, label) ==
  /\ pc[t] = "idle" /\ op \in pending /\ pending' = pending \ {op}
  /\ Goto(t, label, op) /\ Fits(t, label, op)
  /\ data' \in [Conns -> Nat] /\ \A c \in Conns : data'[c] \in 0 .. MaxData[c]
  /\ UNCHANGED <<conn, accepted, gone, ioUsed, charUsed, lost, deaf, recycled, replies>>

(* The completion of a receive and the end of a connection are such steps.   *)
LEMMA CompletionTakes ==
  ASSUME Typed, NEW t \in Receivers, NEW op \in pending
  PROVE  /\ CompletionFailed(t, op) => Taking(t, op, "exit")
         /\ CompletionOfRecv(t, op) => Taking(t, op, "read")
<1>1. op \in Operation /\ Taken(op) = op /\ op.c \in Conns
  BY DEF Typed, TypeOK, Operation, Taken
<1>2. ASSUME CompletionFailed(t, op) PROVE Taking(t, op, "exit")
  BY <1>1, <1>2 DEF CompletionFailed, Taking, Fits, sockets, pools, history, counts, Typed, TypeOK
<1>3. ASSUME CompletionOfRecv(t, op) PROVE Taking(t, op, "read")
  <2>1. data' = [data EXCEPT ![op.c] = @ + 1] /\ data[op.c] < MaxData[op.c] /\ MaxData \in [Conns -> Nat]
    BY <1>3, LifecycleAssumption DEF CompletionOfRecv, Conns
  <2>2. data \in [Conns -> Nat] /\ \A c \in Conns : data[c] \in 0 .. MaxData[c]
    BY DEF Typed, TypeOK
  <2>3. data' \in [Conns -> Nat] /\ \A c \in Conns : data'[c] \in 0 .. MaxData[c]
    BY <1>1, <2>1, <2>2
  <2>4. QED
    BY <1>1, <1>3, <2>3 DEF CompletionOfRecv, Taking, Fits, sockets, pools, history
<1>4. QED
  BY <1>2, <1>3

(* The blocks when an operation is taken.                                    *)
LEMMA TakingBlocks ==
  ASSUME BlockInv, NEW t \in Threads, NEW op, NEW label, Taking(t, op, label)
  PROVE  BlockInv'
<1>1. Goes(t, label, op) /\ HandsTyped' /\ Typed
  BY GotoGoes DEF BlockInv, Taking
<1>2. pending' = pending \ {op} /\ op \in pending /\ loc[t] = NoLoc
  BY <1>1 DEF Taking, Typed, LocalsOK
<1>3. Typed'
  BY <1>1, <1>2 DEF Taking, Typed, TypeOK, HandsTyped, Labels
<1>4. /\ loc[t]["io"] = None /\ loc'[t]["io"] = op["io"]
      /\ \A u \in Threads \ {t} : loc'[u]["io"] = loc[u]["io"]
  BY <1>1, <1>2 DEF Goes, NoLoc
<1>5. /\ loc[t]["chr"] = None /\ loc'[t]["chr"] = op["chr"]
      /\ \A u \in Threads \ {t} : loc'[u]["chr"] = loc[u]["chr"]
  BY <1>1, <1>2 DEF Goes, NoLoc
<1>6. Accounted("io", ioUsed, pending, loc, lost) /\ Accounted("chr", charUsed, pending, loc, lost)
  BY DEF BlockInv, Blocked
<1>7. Accounted("io", ioUsed, pending \ {op}, loc', lost)
  BY <1>2, <1>4, <1>6, TakeOp
<1>8. Accounted("chr", charUsed, pending \ {op}, loc', lost)
  BY <1>2, <1>5, <1>6, TakeOp
<1>9. ioUsed' = ioUsed /\ charUsed' = charUsed /\ lost' = lost
  BY DEF Taking
<1>10. QED
  BY <1>2, <1>3, <1>7, <1>8, <1>9 DEF BlockInv, Blocked

(* ClientExit gives the block back and loses the buffer.                     *)
LEMMA ExitBlocks ==
  ASSUME BlockInv, NEW t \in Threads, ClientExit(t)
  PROVE  BlockInv'
<1>1. /\ pc[t] = "exit" /\ conn' = [conn EXCEPT ![loc[t].h] = None]
      /\ ioUsed' = ioUsed \ {loc[t].io} /\ charUsed' = charUsed
      /\ lost' = lost \cup (Lose(loc[t].io, loc[t].chr) \ {<<"io", loc[t].io>>})
      /\ Goto(t, "idle", NoLoc)
      /\ UNCHANGED <<accepted, gone, pending, deaf, recycled, data, replies>>
  BY DEF ClientExit, Done, counts
<1>2. Fits(t, "idle", NoLoc) /\ Typed
  BY DEF Fits, BlockInv
<1>3. Goes(t, "idle", NoLoc) /\ HandsTyped'
  BY <1>1, <1>2, GotoGoes
<1> DEFINE io == loc[t]["io"]
           chr == loc[t]["chr"]
<1>4. io \in Blocks /\ chr \in Blocks \cup {None}
  BY <1>1, <1>2, OperationFacts
<1>5. conn' \in [Handles -> Conns \cup {None}]
  BY <1>1, <1>2, OperationFacts DEF Typed, TypeOK
<1>6. lost' \subseteq {"io", "chr"} \X Blocks
  BY <1>1, <1>2, <1>4 DEF Lose, Typed, TypeOK
<1>7. Typed'
  BY <1>1, <1>2, <1>3, <1>5, <1>6 DEF Typed, TypeOK, HandsTyped, Labels
<1>8. /\ \A n \in Blocks : <<"io", n>> \in lost' <=> <<"io", n>> \in lost \/ n = None
      /\ \A n \in Blocks : <<"chr", n>> \in lost' <=> <<"chr", n>> \in lost \/ n = chr
  BY <1>1, LocalFacts DEF Lose
<1>9. GivesUp("io", t, loc, loc') /\ GivesUp("chr", t, loc, loc')
  BY <1>3 DEF Goes, GivesUp, NoLoc
<1>10. Accounted("io", ioUsed, pending, loc, lost) /\ Accounted("chr", charUsed, pending, loc, lost)
  BY DEF BlockInv, Blocked
<1>11. Swaps(ioUsed, loc[t]["io"], None, ioUsed')
  BY <1>1 DEF Swaps
<1>12. Swaps(charUsed, loc[t]["chr"], chr, charUsed')
  <2>1. charUsed \subseteq Blocks /\ (chr # None => chr \in charUsed)
    BY <1>10 DEF Accounted
  <2>2. QED
    BY <1>1, <1>4, <2>1, LocalFacts DEF Swaps
<1>13. HandedOn("io", None, pending, lost, pending', lost') /\ HandedOn("chr", chr, pending, lost, pending', lost')
  BY <1>1, <1>8 DEF HandedOn
<1>14. Accounted("io", ioUsed', pending', loc', lost')
  BY <1>9, <1>10, <1>11, <1>13, HandOver
<1>15. Accounted("chr", charUsed', pending', loc', lost')
  BY <1>9, <1>10, <1>12, <1>13, HandOver
<1>16. QED
  BY <1>7, <1>14, <1>15 DEF BlockInv, Blocked

(* A finished send gives both back.                                          *)
LEMMA SentBlocks ==
  ASSUME BlockInv, NEW t \in Receivers, NEW op \in pending, CompletionOfSend(t, op)
  PROVE  BlockInv'
<1>1. /\ pending' = pending \ {op} /\ ioUsed' = ioUsed \ {op["io"]} /\ charUsed' = charUsed \ {op["chr"]}
      /\ UNCHANGED <<conn, accepted, gone, pc, loc, lost, deaf, recycled, data, replies>>
  BY DEF CompletionOfSend, sockets, history, counts
<1>2. Typed'
  BY <1>1 DEF BlockInv, Typed, TypeOK, LocalsOK
<1>3. Accounted("io", ioUsed \ {op["io"]}, pending \ {op}, loc, lost)
  BY FreeOp DEF BlockInv, Blocked
<1>4. Accounted("chr", charUsed \ {op["chr"]}, pending \ {op}, loc, lost)
  BY FreeOp DEF BlockInv, Blocked
<1>5. QED
  BY <1>1, <1>2, <1>3, <1>4 DEF BlockInv, Blocked

(* accept and Reply put a handle into a thread's hands.                      *)
Aiming(t, h, c, label) ==
  /\ pc[t] = "idle" /\ Fits(t, label, [NoLoc EXCEPT !.h = h, !.c = c])
  /\ Goto(t, label, [NoLoc EXCEPT !.h = h, !.c = c])
  /\ h \in Handles /\ c \in Conns
  /\ conn' \in [Handles -> Conns \cup {None}] /\ accepted' \in 0 .. MaxConns
  /\ recycled' \subseteq Conns /\ replies' \in 0 .. MaxReplies
  /\ UNCHANGED <<gone, pending, ioUsed, charUsed, lost, deaf, data>>

(* accept is such a step of main.                                            *)
LEMMA AcceptAims ==
  ASSUME Typed, NEW h \in Handles, Accept(h)
  PROVE  Aiming("main", h, accepted + 1, "recv") /\ accepted + 1 \in Conns
<1> DEFINE new == accepted + 1
<1>1. new \in Conns /\ new \in 0 .. MaxConns
  BY LifecycleAssumption DEF Accept, Typed, TypeOK, Conns
<1>2. conn' = [conn EXCEPT ![h] = new] /\ accepted' = new /\ recycled' \in {recycled, recycled \cup {new}}
  BY DEF Accept
<1>3. [NoLoc EXCEPT !.h = h, !.c = new] \in Target
  BY <1>1 DEF NoLoc, Target
<1>4. conn' \in [Handles -> Conns \cup {None}] /\ recycled' \subseteq Conns
  BY <1>1, <1>2 DEF Typed, TypeOK
<1>5. QED
  BY <1>1, <1>2, <1>3, <1>4 DEF Accept, Aiming, Fits, pools, counts, Typed, TypeOK

(* Reply is one of a sender.                                                 *)
LEMMA ReplyAims ==
  ASSUME Typed, NEW t \in Senders, NEW h \in Handles, Reply(t, h)
  PROVE  Aiming(t, h, conn[h], "send") /\ UNCHANGED <<conn, accepted, recycled>>
<1>1. conn[h] \in Conns
  BY DEF Reply, Typed, TypeOK
<1>2. [NoLoc EXCEPT !.h = h, !.c = conn[h]] \in Target
  BY <1>1 DEF NoLoc, Target
<1>3. replies' \in 0 .. MaxReplies
  BY LifecycleAssumption DEF Reply, Typed, TypeOK
<1>4. QED
  BY <1>1, <1>2, <1>3 DEF Reply, Aiming, Fits, sockets, pools, history, Typed, TypeOK

(* These leave the blocks where they are.                                    *)
LEMMA AimingBlocks ==
  ASSUME BlockInv, NEW t \in Threads, NEW h, NEW c, NEW label, Aiming(t, h, c, label)
  PROVE  BlockInv'
<1> DEFINE x == [NoLoc EXCEPT !.h = h, !.c = c]
<1>1. Goes(t, label, x) /\ HandsTyped' /\ Typed
  BY GotoGoes DEF BlockInv, Aiming
<1>2. Typed'
  BY <1>1 DEF Aiming, Typed, TypeOK, HandsTyped, Labels
<1>3. loc[t] = NoLoc /\ x["io"] = None /\ x["chr"] = None
  BY <1>1 DEF Aiming, Typed, LocalsOK, NoLoc
<1>4. \A u \in Threads : loc'[u]["io"] = loc[u]["io"] /\ loc'[u]["chr"] = loc[u]["chr"]
  BY <1>1, <1>3 DEF Goes, NoLoc
<1>5. Accounted("io", ioUsed, pending, loc', lost) /\ Accounted("chr", charUsed, pending, loc', lost)
  BY <1>4, SameBlocks DEF BlockInv, Blocked
<1>6. QED
  BY <1>2, <1>5 DEF BlockInv, Blocked, Aiming

(* A client that hangs up touches none of it, nor does a step of nobody.     *)
LEMMA IdleBlocks ==
  ASSUME BlockInv, (\E c \in Conns : HangUp(c)) \/ UNCHANGED vars
  PROVE  BlockInv'
<1>1. gone' \subseteq Conns
  BY DEF HangUp, vars, sockets, BlockInv, Typed, TypeOK
<1>2. UNCHANGED <<conn, accepted, pending, ioUsed, charUsed, pc, loc, lost, deaf, recycled, data, replies>>
  BY DEF HangUp, vars, sockets, pools, history, counts
<1>3. QED
  BY <1>1, <1>2 DEF BlockInv, Blocked, Typed, TypeOK, LocalsOK

(* The steps of the program, in these terms.                                 *)
LEMMA StepKinds ==
  ASSUME BlockInv, [Next]_vars
  PROVE  \/ \E h \in Handles : Accept(h)
         \/ \E t \in Senders, h \in Handles : Reply(t, h)
         \/ \E t \in Threads : \E mode, io, chr, label, x : Posting(t, mode, io, chr, label, x)
         \/ \E t \in Receivers, op \in pending : CompletionFailed(t, op)
         \/ \E t \in Receivers, op \in pending : CompletionOfRecv(t, op)
         \/ \E t \in Receivers, op \in pending : CompletionOfSend(t, op)
         \/ \E t \in Threads : ClientExit(t)
         \/ (\E c \in Conns : HangUp(c)) \/ UNCHANGED vars
<1>1. ASSUME MainStep PROVE \E t \in Threads : \E mode, io, chr, label, x : Posting(t, mode, io, chr, label, x)
  BY <1>1, ThreadFacts, FirstRecvPosts, SendPosts DEF MainStep
<1>2. ASSUME NEW t \in Senders, Send(t)
      PROVE  \E u \in Threads : \E mode, io, chr, label, x : Posting(u, mode, io, chr, label, x)
  BY <1>2, ThreadFacts, SendPosts
<1>3. ASSUME NEW t \in Receivers, RecvStep(t)
      PROVE  \/ \E u \in Threads : \E mode, io, chr, label, x : Posting(u, mode, io, chr, label, x)
             \/ \E u \in Threads : ClientExit(u)
  <2>0. t \in Threads
    BY ThreadFacts
  <2>1. CASE ClientExit(t)
    BY <2>0, <2>1
  <2>2. CASE ReadWhole(t)
    BY <2>0, <2>2, ReadWholePosts
  <2>3. CASE \E begun \in BOOLEAN : ReadPart(t, begun)
    BY <2>0, <2>3, ReadPartPosts
  <2>4. QED
    BY <1>3, <2>1, <2>2, <2>3 DEF RecvStep
<1>4. QED
  BY <1>1, <1>2, <1>3 DEF Next

(* Every step keeps the accounts of the blocks.                              *)
LEMMA NextBlocks ==
  ASSUME BlockInv, [Next]_vars
  PROVE  BlockInv'
<1>0. Typed
  BY DEF BlockInv
<1>1. ASSUME NEW h \in Handles, Accept(h) PROVE BlockInv'
  BY <1>0, <1>1, AcceptAims, AimingBlocks, ThreadFacts
<1>2. ASSUME NEW t \in Senders, NEW h \in Handles, Reply(t, h) PROVE BlockInv'
  BY <1>0, <1>2, ReplyAims, AimingBlocks, ThreadFacts
<1>3. ASSUME NEW t \in Threads, NEW mode, NEW io, NEW chr, NEW label, NEW x, Posting(t, mode, io, chr, label, x)
      PROVE  BlockInv'
  BY <1>3, PostingBlocks
<1>4. ASSUME NEW t \in Receivers, NEW op \in pending, CompletionFailed(t, op) \/ CompletionOfRecv(t, op)
      PROVE  BlockInv'
  BY <1>0, <1>4, CompletionTakes, TakingBlocks, ThreadFacts
<1>5. ASSUME NEW t \in Receivers, NEW op \in pending, CompletionOfSend(t, op) PROVE BlockInv'
  BY <1>5, SentBlocks
<1>6. ASSUME NEW t \in Threads, ClientExit(t) PROVE BlockInv'
  BY <1>6, ExitBlocks
<1>7. CASE (\E c \in Conns : HangUp(c)) \/ UNCHANGED vars
  BY <1>7, IdleBlocks
<1>8. QED
  BY <1>1, <1>2, <1>3, <1>4, <1>5, <1>6, <1>7, StepKinds

(* At the start nothing has been handed out.                                 *)
LEMMA InitBlocks == Init => BlockInv
<1> SUFFICES ASSUME Init PROVE BlockInv
  OBVIOUS
<1>1. /\ pc = [t \in Threads |-> "idle"] /\ loc = [t \in Threads |-> NoLoc]
      /\ pending = {} /\ ioUsed = {} /\ charUsed = {} /\ lost = {}
  BY DEF Init
<1>2. pc \in [Threads -> {"idle", "recv", "send", "exit", "read"}] /\ loc \in [Threads -> Local]
      /\ LocalsOK /\ \A t \in Threads : pc[t] = "idle" /\ loc[t] = NoLoc /\ loc[t] \in Local
  BY <1>1, LocalFacts DEF LocalsOK
<1>3. /\ conn \in [Handles -> Conns \cup {None}] /\ accepted \in 0 .. MaxConns /\ replies \in 0 .. MaxReplies
      /\ data \in [Conns -> Nat] /\ \A c \in Conns : data[c] \in 0 .. MaxData[c]
  BY LifecycleAssumption DEF Init, Conns
<1>4. Typed
  BY <1>1, <1>2, <1>3 DEF Init, Typed, TypeOK
<1>5. NoLoc["io"] = None /\ NoLoc["chr"] = None
  BY DEF NoLoc
<1>6. Blocked
  BY <1>1, <1>2, <1>5, FS_EmptySet DEF Blocked, Accounted
<1>7. QED
  BY <1>4, <1>6 DEF BlockInv

(* The accounts of the blocks are an invariant.                              *)
THEOREM BlocksInvariant == Spec => []BlockInv
<1>1. Init => BlockInv
  BY InitBlocks
<1>2. BlockInv /\ [Next]_vars => BlockInv'
  BY NextBlocks
<1>3. QED
  BY <1>1, <1>2, PTL DEF Spec

(* The server's state is well-typed.                                         *)
THEOREM LifecycleTypes == Spec => []TypeOK
<1>1. BlockInv => TypeOK
  BY DEF BlockInv, Typed
<1>2. QED
  BY <1>1, BlocksInvariant, PTL

(* Every block a pool has handed out has one operation or thread that will   *)
(* give it back, or was lost with a refused call or a failed operation; no   *)
(* block is freed twice or while the kernel has it.                          *)
THEOREM BlocksHaveOwners == Spec => []BlocksAccounted
<1>1. ASSUME BlockInv PROVE BlocksAccounted
  <2> DEFINE Io(x) == x.io
             Chr(x) == x.chr
  <2>1. Accounted("io", ioUsed, pending, loc, lost) /\ Accounted("chr", charUsed, pending, loc, lost)
    BY <1>1 DEF BlockInv, Blocked
  <2>2. RefersTo(ioUsed, Io, "io")
    BY <2>1 DEF RefersTo, Referrers, Accounted
  <2>3. RefersTo(charUsed, Chr, "chr")
    BY <2>1 DEF RefersTo, Referrers, Accounted
  <2>4. QED
    BY <2>2, <2>3 DEF BlocksAccounted
<1>2. QED
  BY <1>1, BlocksInvariant, PTL

-----------------------------------------------------------------------------
(* Handles and connections.                                                  *)

(* The invariant at the start.                                               *)
LEMMA InitClose == Init => CloseInv
<1> SUFFICES ASSUME Init PROVE CloseInv
  OBVIOUS
<1>1. Typed
  BY InitBlocks DEF BlockInv
<1>2. /\ pending = {} /\ accepted = 0 /\ \A t \in Threads : pc[t] = "idle"
      /\ \A h \in Handles : conn[h] = None
  BY DEF Init
<1>3. HandlesKnown /\ ConnsDistinct /\ ExitsForReason
  BY <1>2 DEF HandlesKnown, ConnsDistinct, ExitsForReason, None
<1>4. QED
  BY <1>1, <1>3 DEF CloseInv

(* What is known of the numbers of connections.                              *)
LEMMA Numbers ==
  ASSUME Typed
  PROVE  /\ accepted \in Nat /\ \A c \in Conns : c \in Nat /\ c # None
         /\ \A h \in Handles : conn[h] \in Nat /\ conn[h] \in Conns \cup {None}
         /\ \A op \in pending : op.h \in Handles /\ op.c \in Conns
         /\ \A t \in Threads : pc[t] # "idle" => loc[t].h \in Handles /\ loc[t].c \in Conns
<1>1. accepted \in Nat /\ \A c \in Conns : c \in Nat /\ c # None
  BY LifecycleAssumption DEF Typed, TypeOK, Conns, None
<1>2. \A h \in Handles : conn[h] \in Nat /\ conn[h] \in Conns \cup {None}
  BY <1>1 DEF Typed, TypeOK, None
<1>3. \A op \in pending : op.h \in Handles /\ op.c \in Conns
  BY DEF Typed, TypeOK, Operation
<1>4. \A t \in Threads : pc[t] # "idle" => loc[t].h \in Handles /\ loc[t].c \in Conns
  BY TargetFacts, OperationFacts DEF Typed, TypeOK
<1>5. QED
  BY <1>1, <1>2, <1>3, <1>4

(* The handle of an open connection is known to be its own.                  *)
LEMMA OpenIsBound ==
  ASSUME Typed, ConnsDistinct, NEW h \in Handles, conn[h] # None
  PROVE  Bound(h, conn[h])
BY DEF ConnsDistinct, Bound

(* Steps that leave the handles alone.                                       *)
LEMMA SameBound ==
  ASSUME UNCHANGED <<conn, accepted, recycled>>, NEW h, NEW c, Bound(h, c)
  PROVE  Bound(h, c)'
BY DEF Bound

(* Posting an operation.                                                     *)
LEMMA PostingClose ==
  ASSUME CloseInv, NEW t \in Threads, NEW mode, NEW io, NEW chr, NEW label, NEW x,
         Posting(t, mode, io, chr, label, x)
  PROVE  HandlesKnown' /\ ConnsDistinct' /\ ExitsForReason'
<1>1. /\ mode \in Modes /\ loc[t].h \in Handles /\ io \in Blocks /\ chr \in Blocks \cup {None}
      /\ Call(mode, loc[t].h, loc[t].c, io, chr) /\ Typed
      /\ label \in {"idle", "send"} /\ (label = "send" => x = loc[t]) /\ pc[t] # "idle"
      /\ Goto(t, label, x) /\ Fits(t, label, x)
      /\ UNCHANGED <<conn, accepted, gone, recycled>>
  BY DEF Posting, CloseInv
<1>2. Outcome(loc[t].h, loc[t].c, mode, io, chr)
  BY <1>1, CallOutcome
<1>3. Goes(t, label, x)
  BY <1>1, GotoGoes
<1>4. ASSUME NEW op \in pending' PROVE Bound(op.h, op.c)'
  <2>1. CASE op \in pending
    BY <1>1, <2>1, SameBound DEF CloseInv, HandlesKnown
  <2>2. CASE op \notin pending
    <3>1. op.h = loc[t].h /\ op.c = conn[loc[t].h] /\ conn[loc[t].h] # None
      BY <1>2, <2>2 DEF Outcome
    <3>2. Bound(loc[t].h, conn[loc[t].h])
      BY <1>1, <3>1, OpenIsBound DEF CloseInv
    <3>3. Bound(op.h, op.c)
      BY <3>1, <3>2
    <3>4. QED
      BY <1>1, <3>3, SameBound
  <2>3. QED
    BY <2>1, <2>2
<1>5. ASSUME NEW u \in Threads, pc'[u] # "idle"
      PROVE  \E h, c : h = loc'[u].h /\ c = loc'[u].c /\ Bound(h, c)'
  <2>1. pc[u] # "idle" /\ loc'[u] = loc[u]
    BY <1>1, <1>3, <1>5 DEF Goes
  <2>2. QED
    BY <1>1, <2>1, SameBound DEF CloseInv, HandlesKnown
<1>6. HandlesKnown'
  BY <1>4, <1>5 DEF HandlesKnown, Bound
<1>7. ConnsDistinct'
  BY <1>1 DEF CloseInv, ConnsDistinct
<1>8. ExitsForReason'
  BY <1>1, <1>3 DEF CloseInv, ExitsForReason, Goes
<1>9. QED
  BY <1>6, <1>7, <1>8

(* Taking an operation, for which there must be a reason if it is the end.   *)
LEMMA TakingClose ==
  ASSUME CloseInv, NEW t \in Threads, NEW op, NEW label, Taking(t, op, label),
         label = "exit" => op.c \in gone \/ conn[op.h] # op.c
  PROVE  HandlesKnown' /\ ConnsDistinct' /\ ExitsForReason'
<1>1. /\ op \in pending /\ pending' = pending \ {op} /\ Typed
      /\ Goto(t, label, op) /\ Fits(t, label, op)
      /\ UNCHANGED <<conn, accepted, gone, recycled>>
  BY DEF Taking, CloseInv
<1>2. Goes(t, label, op)
  BY <1>1, GotoGoes
<1>3. ASSUME NEW u \in Threads, pc'[u] # "idle"
      PROVE  \E h, c : h = loc'[u].h /\ c = loc'[u].c /\ Bound(h, c)'
  <2>1. CASE u = t
    BY <1>1, <1>2, <2>1, SameBound DEF CloseInv, HandlesKnown, Goes
  <2>2. CASE u # t
    <3>1. pc[u] # "idle" /\ loc'[u] = loc[u]
      BY <1>2, <1>3, <2>2 DEF Goes
    <3>2. QED
      BY <1>1, <3>1, SameBound DEF CloseInv, HandlesKnown
  <2>3. QED
    BY <2>1, <2>2
<1>4. HandlesKnown'
  BY <1>1, <1>3 DEF CloseInv, HandlesKnown, Bound
<1>5. ConnsDistinct'
  BY <1>1 DEF CloseInv, ConnsDistinct
<1>6. ExitsForReason'
  BY <1>1, <1>2 DEF CloseInv, ExitsForReason, Goes
<1>7. QED
  BY <1>4, <1>5, <1>6

(* ClientExit closes a handle.                                               *)
LEMMA ExitClose ==
  ASSUME CloseInv, NEW t \in Threads, ClientExit(t)
  PROVE  HandlesKnown' /\ ConnsDistinct' /\ ExitsForReason'
<1>1. /\ pc[t] = "exit" /\ conn' = [conn EXCEPT ![loc[t].h] = None] /\ Typed
      /\ Goto(t, "idle", NoLoc) /\ Fits(t, "idle", NoLoc)
      /\ UNCHANGED <<accepted, gone, pending, recycled>>
  BY DEF ClientExit, Done, CloseInv, Fits
<1>2. Goes(t, "idle", NoLoc)
  BY <1>1, GotoGoes
<1>3. \A h \in Handles : conn'[h] \in {conn[h], None}
  BY <1>1 DEF Typed, TypeOK
<1>4. ASSUME NEW h \in Handles, NEW c \in Conns, Bound(h, c) PROVE Bound(h, c)'
  BY <1>1, <1>3, <1>4, LocalFacts DEF Bound
<1>5. \A u \in Threads : pc'[u] # "idle" => u # t /\ pc'[u] = pc[u] /\ loc'[u] = loc[u]
  BY <1>2 DEF Goes
<1>6. HandlesKnown'
  <2>1. ASSUME NEW op \in pending' PROVE Bound(op.h, op.c)'
    BY <1>1, <1>4, Numbers DEF CloseInv, HandlesKnown
  <2>2. ASSUME NEW u \in Threads, pc'[u] # "idle"
        PROVE  \E h, c : h = loc'[u].h /\ c = loc'[u].c /\ Bound(h, c)'
    BY <1>1, <1>4, <1>5, <2>2, Numbers DEF CloseInv, HandlesKnown
  <2>3. QED
    BY <2>1, <2>2 DEF HandlesKnown, Bound
<1>7. ConnsDistinct'
  <2>1. \A h \in Handles : conn'[h] <= accepted'
    BY <1>1, <1>3, Numbers DEF CloseInv, ConnsDistinct, None
  <2>2. \A h, g \in Handles : (conn'[g] = conn'[h] /\ conn'[g] # None) => g = h
    BY <1>3 DEF CloseInv, ConnsDistinct
  <2>3. QED
    BY <2>1, <2>2 DEF ConnsDistinct
<1>8. ExitsForReason'
  BY <1>1, <1>3, <1>5, Numbers DEF CloseInv, ExitsForReason
<1>9. QED
  BY <1>6, <1>7, <1>8

(* accept gives a handle to a new connection; whoever has that handle still  *)
(* makes it a recycled one.                                                  *)
LEMMA AcceptClose ==
  ASSUME CloseInv, NEW h \in Handles, Accept(h)
  PROVE  HandlesKnown' /\ ConnsDistinct' /\ ExitsForReason'
<1> DEFINE new == accepted + 1
           x == [NoLoc EXCEPT !.h = h, !.c = new]
<1>1. Typed
  BY DEF CloseInv
<1>2. /\ conn[h] = None /\ conn' = [conn EXCEPT ![h] = new] /\ accepted' = new
      /\ recycled' = IF InUse(h) THEN recycled \cup {new} ELSE recycled
      /\ pending' = pending /\ gone' = gone
  BY DEF Accept
<1>3. Goto("main", "recv", x) /\ Fits("main", "recv", x) /\ new \in Conns
  BY <1>1, AcceptAims DEF Aiming
<1>4. Goes("main", "recv", x) /\ x.h = h /\ x.c = new
  BY <1>1, <1>3, GotoGoes, ThreadFacts DEF NoLoc
<1>5. /\ conn'[h] = new /\ \A g \in Handles : g # h => conn'[g] = conn[g]
      /\ \A g \in Handles : conn[g] <= accepted
  BY <1>1, <1>2 DEF Typed, TypeOK, CloseInv, ConnsDistinct
<1>n. /\ new \in Nat /\ accepted < new /\ accepted' = new
      /\ \A g \in Handles : conn[g] # new /\ (g # h => conn'[g] # new)
  BY <1>1, <1>2, <1>5, Numbers
<1>6. ASSUME NEW g \in Handles, NEW c \in Conns, Bound(g, c), g = h => InUse(h) PROVE Bound(g, c)'
  <2>1. c <= accepted /\ c # new /\ c <= accepted'
    BY <1>1, <1>2, <1>6, Numbers DEF Bound
  <2>2. \A k \in Handles : conn'[k] = c => k = g
    BY <1>5, <1>6, <2>1 DEF Bound
  <2>3. conn'[g] \in {None, c} \cup recycled'
    <3>1. CASE g = h
      BY <1>2, <1>5, <1>6, <3>1
    <3>2. CASE g # h
      BY <1>2, <1>5, <1>6, <3>2 DEF Bound
    <3>3. QED
      BY <3>1, <3>2
  <2>4. QED
    BY <2>1, <2>2, <2>3 DEF Bound
<1>7. HandlesKnown'
  <2>1. ASSUME NEW op \in pending' PROVE Bound(op.h, op.c)'
    <3>1. op \in pending /\ Bound(op.h, op.c) /\ op.h \in Handles /\ op.c \in Conns
      BY <1>1, <1>2, Numbers DEF CloseInv, HandlesKnown
    <3>2. op.h = h => InUse(h)
      BY <3>1 DEF InUse
    <3>3. QED
      BY <1>6, <3>1, <3>2
  <2>2. ASSUME NEW u \in Threads, pc'[u] # "idle"
        PROVE  \E g, c : g = loc'[u].h /\ c = loc'[u].c /\ Bound(g, c)'
    <3>1. CASE u = "main"
      <4>0. PICK c \in Conns : c = new
        BY <1>3
      <4>1. loc'[u].h = h /\ loc'[u].c = c
        BY <1>4, <3>1, <4>0 DEF Goes
      <4>2. \A k \in Handles : conn'[k] = c => k = h
        BY <1>n, <4>0
      <4>3. c <= accepted' /\ conn'[h] = c
        BY <1>5, <1>n, <4>0
      <4>4. Bound(h, c)'
        BY <4>2, <4>3 DEF Bound
      <4>5. QED
        BY <4>1, <4>4
    <3>2. CASE u # "main"
      <4>1. pc[u] # "idle" /\ loc'[u] = loc[u]
        BY <1>4, <2>2, <3>2 DEF Goes
      <4>2. loc[u].h \in Handles /\ loc[u].c \in Conns /\ Bound(loc[u].h, loc[u].c)
        BY <1>1, <4>1, Numbers DEF CloseInv, HandlesKnown
      <4>3. loc[u].h = h => InUse(h)
        BY DEF InUse
      <4>4. PICK g \in Handles, c \in Conns : g = loc[u].h /\ c = loc[u].c
        BY <4>2
      <4>5. Bound(g, c)'
        BY <1>6, <4>2, <4>3, <4>4
      <4>6. QED
        BY <4>1, <4>4, <4>5
    <3>3. QED
      BY <3>1, <3>2
  <2>3. QED
    BY <2>1, <2>2 DEF HandlesKnown, Bound
<1>8. ConnsDistinct'
  <2>1. \A g \in Handles : conn'[g] <= accepted'
    BY <1>1, <1>2, <1>5, Numbers
  <2>2. \A k, g \in Handles : (conn'[g] = conn'[k] /\ conn'[g] # None) => g = k
    BY <1>1, <1>5, Numbers DEF CloseInv, ConnsDistinct
  <2>3. QED
    BY <2>1, <2>2 DEF ConnsDistinct
<1>9. ExitsForReason'
  <2>1. ASSUME NEW u \in Threads, pc'[u] = "exit"
        PROVE  loc'[u].c \in gone' \/ conn'[loc'[u].h] # loc'[u].c
    <3>1. pc[u] = "exit" /\ loc'[u] = loc[u]
      BY <1>4, <2>1 DEF Goes
    <3>2. loc[u].h \in Handles /\ loc[u].c \in Conns /\ loc[u].c <= accepted
      BY <1>1, <3>1, Numbers DEF CloseInv, HandlesKnown, Bound
    <3>3. loc[u].c \in gone \/ conn[loc[u].h] # loc[u].c
      BY <3>1 DEF CloseInv, ExitsForReason
    <3>4. loc[u].c # new
      BY <1>1, <3>2, Numbers
    <3>5. QED
      BY <1>2, <1>5, <3>1, <3>2, <3>3, <3>4
  <2>2. QED
    BY <2>1 DEF ExitsForReason
<1>10. QED
  BY <1>7, <1>8, <1>9

(* Reply aims at an open connection.                                         *)
LEMMA ReplyClose ==
  ASSUME CloseInv, NEW t \in Senders, NEW h \in Handles, Reply(t, h)
  PROVE  HandlesKnown' /\ ConnsDistinct' /\ ExitsForReason'
<1>1. Typed /\ t \in Threads /\ conn[h] # None
  BY ThreadFacts DEF CloseInv, Reply
<1>2. PICK c \in Conns : c = conn[h]
  BY <1>1 DEF Typed, TypeOK
<1> DEFINE x == [NoLoc EXCEPT !.h = h, !.c = c]
<1>3. /\ Goto(t, "send", x) /\ Fits(t, "send", x)
      /\ UNCHANGED <<conn, accepted, gone, pending, recycled>>
  BY <1>1, <1>2, ReplyAims DEF Aiming
<1>4. Goes(t, "send", x) /\ x.h = h /\ x.c = c
  BY <1>1, <1>3, GotoGoes DEF NoLoc
<1>5. Bound(h, c)
  BY <1>1, <1>2, OpenIsBound DEF CloseInv
<1>6. ASSUME NEW u \in Threads, pc'[u] # "idle"
      PROVE  \E g, d : g = loc'[u].h /\ d = loc'[u].c /\ Bound(g, d)'
  <2>1. CASE u = t
    BY <1>3, <1>4, <1>5, <2>1, SameBound DEF Goes
  <2>2. CASE u # t
    <3>1. pc[u] # "idle" /\ loc'[u] = loc[u]
      BY <1>4, <1>6, <2>2 DEF Goes
    <3>2. QED
      BY <1>3, <3>1, SameBound DEF CloseInv, HandlesKnown
  <2>3. QED
    BY <2>1, <2>2
<1>7. HandlesKnown'
  BY <1>3, <1>6 DEF CloseInv, HandlesKnown, Bound
<1>8. ConnsDistinct'
  BY <1>3 DEF CloseInv, ConnsDistinct
<1>9. ExitsForReason'
  BY <1>3, <1>4 DEF CloseInv, ExitsForReason, Goes
<1>10. QED
  BY <1>7, <1>8, <1>9

(* Every step keeps it.                                                      *)
LEMMA NextClose ==
  ASSUME BlockInv, CloseInv, [Next]_vars
  PROVE  CloseInv'
<1>0. Typed /\ Typed'
  BY NextBlocks DEF BlockInv
<1>1. ASSUME NEW t \in Receivers, NEW op \in pending, CompletionFailed(t, op)
      PROVE  HandlesKnown' /\ ConnsDistinct' /\ ExitsForReason'
  <2>1. op.c \in gone \/ conn[op.h] # op.c
    BY <1>1 DEF CompletionFailed
  <2>2. QED
    BY <1>0, <1>1, <2>1, CompletionTakes, TakingClose, ThreadFacts
<1>2. ASSUME NEW t \in Receivers, NEW op \in pending, CompletionOfRecv(t, op)
      PROVE  HandlesKnown' /\ ConnsDistinct' /\ ExitsForReason'
  BY <1>0, <1>2, CompletionTakes, TakingClose, ThreadFacts
<1>3. ASSUME NEW t \in Receivers, NEW op \in pending, CompletionOfSend(t, op)
      PROVE  HandlesKnown' /\ ConnsDistinct' /\ ExitsForReason'
  BY <1>3 DEF CompletionOfSend, sockets, history, CloseInv, HandlesKnown, ConnsDistinct, ExitsForReason, Bound
<1>4. ASSUME (\E c \in Conns : HangUp(c)) \/ UNCHANGED vars
      PROVE  HandlesKnown' /\ ConnsDistinct' /\ ExitsForReason'
  <2>1. gone \subseteq gone' /\ UNCHANGED <<conn, accepted, pending, pc, loc, recycled>>
    BY <1>4 DEF HangUp, vars, sockets, history
  <2>2. QED
    BY <2>1 DEF CloseInv, HandlesKnown, ConnsDistinct, ExitsForReason, Bound
<1>5. HandlesKnown' /\ ConnsDistinct' /\ ExitsForReason'
  BY <1>1, <1>2, <1>3, <1>4, StepKinds, AcceptClose, ReplyClose, PostingClose, ExitClose
<1>6. QED
  BY <1>0, <1>5 DEF CloseInv

(* Handles and connections are as described, always.                         *)
THEOREM HandlesInvariant == Spec => []CloseInv
<1>1. Init => CloseInv
  BY InitClose
<1>2. BlockInv /\ CloseInv /\ [Next]_vars => CloseInv'
  BY NextClose
<1>3. QED
  BY <1>1, <1>2, BlocksInvariant, PTL DEF Spec

(* Only ClientExit closes a connection, and only one whose client has gone   *)
(* or whose handle was recycled.                                             *)
LEMMA ClosesForReason ==
  ASSUME BlockInv, CloseInv, [Next]_vars, NEW h \in Handles, conn[h] # None, conn'[h] # conn[h]
  PROVE  conn[h] \in gone \cup recycled
<1>0. Typed
  BY DEF BlockInv
<1>1. \A g \in Handles : ~Accept(g)
  <2>1. ASSUME NEW g \in Handles, Accept(g) PROVE FALSE
    BY <1>0, <2>1 DEF Accept, Typed, TypeOK
  <2>2. QED
    BY <2>1
<1>2. \E t \in Threads : ClientExit(t)
  <2>1. \A t \in Senders, g \in Handles : ~Reply(t, g)
    BY DEF Reply, sockets
  <2>2. \A t \in Threads : \A mode, io, chr, label, x : ~Posting(t, mode, io, chr, label, x)
    BY DEF Posting
  <2>3. \A t \in Receivers, op \in pending :
          ~CompletionFailed(t, op) /\ ~CompletionOfRecv(t, op) /\ ~CompletionOfSend(t, op)
    BY DEF CompletionFailed, CompletionOfRecv, CompletionOfSend, sockets
  <2>4. ~((\E c \in Conns : HangUp(c)) \/ UNCHANGED vars)
    BY DEF HangUp, vars, sockets
  <2>5. QED
    BY <1>1, <2>1, <2>2, <2>3, <2>4, StepKinds
<1>3. PICK t \in Threads : ClientExit(t)
  BY <1>2
<1>4. pc[t] = "exit" /\ h = loc[t].h
  BY <1>0, <1>3 DEF ClientExit, Typed, TypeOK
<1>5. conn[h] \in {None, loc[t].c} \cup recycled
  BY <1>4 DEF CloseInv, HandlesKnown, Bound
<1>6. loc[t].c \in gone \/ conn[h] # loc[t].c
  BY <1>4 DEF CloseInv, ExitsForReason
<1>7. QED
  BY <1>5, <1>6

(* A connection is closed only after its client has gone, unless its handle  *)
(* was given out before the earlier connection's work was done.              *)
THEOREM NobodyIsClosedEarly == Spec => NobodyIsCutOff
<1>1. BlockInv /\ CloseInv /\ [Next]_vars
      => [\A h \in Handles : (conn[h] # None /\ conn'[h] # conn[h]) => conn[h] \in gone \cup recycled]_vars
  BY ClosesForReason
<1>2. QED
  BY <1>1, BlocksInvariant, HandlesInvariant, PTL DEF Spec, NobodyIsCutOff

-----------------------------------------------------------------------------
(* One receive of every connection.                                          *)

(* Nothing changes for a connection whose receive stays where it is.         *)
LEMMA SameReceive ==
  ASSUME NEW c, ReceivedOnce(c),
         \A op : (op \in pending' /\ WithKernel(op, c)) <=> (op \in pending /\ WithKernel(op, c)),
         \A t \in Threads : InHands(t, c)' <=> InHands(t, c)
  PROVE  ReceivedOnce(c)'
BY DEF ReceivedOnce, WithKernel

(* A thread that posts the next receive had the last one in its hands.       *)
LEMMA PostingReceives ==
  ASSUME CloseInv, Receives, NEW t \in Threads, NEW mode, NEW io, NEW chr, NEW label, NEW x,
         Posting(t, mode, io, chr, label, x)
  PROVE  Receives'
<1>1. /\ mode \in Modes /\ loc[t].h \in Handles /\ io \in Blocks /\ chr \in Blocks \cup {None}
      /\ Call(mode, loc[t].h, loc[t].c, io, chr) /\ Typed
      /\ label \in {"idle", "send"} /\ pc[t] # "idle"
      /\ Goto(t, label, x) /\ Fits(t, label, x)
      /\ UNCHANGED <<conn, accepted, gone, recycled>>
      /\ \/ mode = "SEND" /\ pc[t] = "send"
         \/ mode # "SEND" /\ pc[t] \in {"recv", "read"}
  BY DEF Posting, CloseInv
<1>2. Outcome(loc[t].h, loc[t].c, mode, io, chr)
  BY <1>1, CallOutcome
<1>3. Goes(t, label, x)
  BY <1>1, GotoGoes
<1>4. SUFFICES ASSUME NEW h \in Handles, NEW c \in Conns, conn'[h] = c, c \notin recycled' \cup deaf'
              PROVE  ReceivedOnce(c)'
  <2>1. \A h \in Handles : conn'[h] # None => conn'[h] \in Conns
    BY <1>1 DEF Typed, TypeOK
  <2>2. ASSUME NEW h \in Handles, conn'[h] # None, conn'[h] \notin recycled' \cup deaf'
        PROVE  \E c \in Conns : c = conn'[h] /\ ReceivedOnce(c)'
    BY <1>4, <2>1, <2>2
  <2>3. QED
    BY <2>2 DEF Receives, ReceivedOnce, InHands
<1>5. deaf \subseteq deaf'
  BY <1>2 DEF Outcome
<1>6. conn[h] = c /\ c \notin recycled \cup deaf /\ ReceivedOnce(c)
  BY <1>1, <1>4, <1>5, LocalFacts DEF Receives
<1>7. ~InHands(t, c)' /\ \A u \in Threads \ {t} : InHands(u, c)' <=> InHands(u, c)
  BY <1>1, <1>3 DEF Goes, InHands
<1>8. CASE mode = "SEND"
  <2>1. \A op : (op \in pending' /\ WithKernel(op, c)) <=> (op \in pending /\ WithKernel(op, c))
    BY <1>2, <1>8 DEF Outcome, WithKernel
  <2>2. ~InHands(t, c)
    BY <1>1, <1>8 DEF InHands
  <2>3. QED
    BY <1>6, <1>7, <2>1, <2>2, SameReceive
<1>9. CASE mode # "SEND"
  <2>0. /\ loc[t].mode # "SEND" /\ pc[t] \in {"recv", "read"}
        /\ conn[loc[t].h] \in {None, loc[t].c} \cup recycled
        /\ \A g \in Handles : conn[g] = loc[t].c => g = loc[t].h
    BY <1>1, <1>9, TargetFacts DEF CloseInv, HandlesKnown, Bound, Typed, LocalsOK
  <2>1. CASE c = loc[t].c
    <3>1. InHands(t, c)
      BY <2>0, <2>1 DEF InHands
    <3>2. conn[loc[t].h] = c
      BY <1>6, <2>0, <2>1
    <3>3. c \notin deaf'
      BY <1>4
    <3>4. PICK op \in Operation : /\ op = [mode |-> mode, h |-> loc[t].h, c |-> conn[loc[t].h], io |-> io, chr |-> chr]
                                  /\ pending' = pending \cup {op}
      BY <1>2, <1>9, <2>1, <3>3 DEF Outcome
    <3>5. WithKernel(op, c)
      BY <1>9, <3>2, <3>4 DEF WithKernel
    <3>6. \A q \in pending : ~WithKernel(q, c)
      BY <1>6, <3>1 DEF ReceivedOnce
    <3>7. \A u \in Threads : ~InHands(u, c)'
      BY <1>6, <1>7, <3>1 DEF ReceivedOnce
    <3>8. QED
      BY <3>4, <3>5, <3>6, <3>7 DEF ReceivedOnce, WithKernel
  <2>2. CASE c # loc[t].c
    <3>1. ~InHands(t, c)
      BY <2>2 DEF InHands
    <3>2. conn[loc[t].h] # c
      BY <1>6, <2>0, <2>2, LocalFacts
    <3>3. \A op : (op \in pending' /\ WithKernel(op, c)) <=> (op \in pending /\ WithKernel(op, c))
      BY <1>2, <3>2 DEF Outcome, WithKernel
    <3>4. QED
      BY <1>6, <1>7, <3>1, <3>3, SameReceive
  <2>3. QED
    BY <2>1, <2>2
<1>10. QED
  BY <1>8, <1>9

(* To show Receives after a step, take one connection.                       *)
LEMMA ReceivesEach ==
  ASSUME Typed',
         \A h \in Handles, c \in Conns : (conn'[h] = c /\ c \notin recycled' \cup deaf') => ReceivedOnce(c)'
  PROVE  Receives'
<1>1. \A h \in Handles : conn'[h] # None => conn'[h] \in Conns
  BY DEF Typed, TypeOK
<1>2. ASSUME NEW h \in Handles, conn'[h] # None, conn'[h] \notin recycled' \cup deaf'
      PROVE  \E c \in Conns : c = conn'[h] /\ ReceivedOnce(c)'
  BY <1>1, <1>2
<1>3. QED
  BY <1>2 DEF Receives, ReceivedOnce, InHands

(* A RecvThread takes the receive from the kernel into its hands.            *)
LEMMA TakingReceives ==
  ASSUME CloseInv, Receives, NEW t \in Threads, NEW op, NEW label, Taking(t, op, label), Typed',
         label \in {"read", "exit"}
  PROVE  Receives'
<1>1. /\ pc[t] = "idle" /\ op \in pending /\ pending' = pending \ {op} /\ Typed
      /\ Goto(t, label, op) /\ Fits(t, label, op)
      /\ UNCHANGED <<conn, recycled, deaf>>
  BY DEF Taking, CloseInv
<1>2. Goes(t, label, op)
  BY <1>1, GotoGoes
<1>3. ASSUME NEW h \in Handles, NEW c \in Conns, conn'[h] = c, c \notin recycled' \cup deaf'
      PROVE  ReceivedOnce(c)'
  <2>1. ReceivedOnce(c)
    BY <1>1, <1>3, LocalFacts DEF Receives
  <2>2. ~InHands(t, c) /\ \A u \in Threads \ {t} : InHands(u, c)' <=> InHands(u, c)
    BY <1>1, <1>2 DEF Goes, InHands
  <2>3. InHands(t, c)' <=> WithKernel(op, c)
    BY <1>2 DEF Goes, InHands, WithKernel
  <2>4. CASE WithKernel(op, c)
    <3>1. \A q \in pending' : ~WithKernel(q, c)
      BY <1>1, <2>1, <2>4 DEF ReceivedOnce
    <3>2. \A u \in Threads \ {t} : ~InHands(u, c)'
      BY <1>1, <2>1, <2>2, <2>4 DEF ReceivedOnce
    <3>3. QED
      BY <2>3, <2>4, <3>1, <3>2 DEF ReceivedOnce, WithKernel
  <2>5. CASE ~WithKernel(op, c)
    <3>1. \A q : (q \in pending' /\ WithKernel(q, c)) <=> (q \in pending /\ WithKernel(q, c))
      BY <1>1, <2>5
    <3>2. QED
      BY <2>1, <2>2, <2>3, <2>5, <3>1, SameReceive
  <2>6. QED
    BY <2>4, <2>5
<1>4. QED
  BY <1>3, ReceivesEach

(* ClientExit closes the only connection whose receive it had.               *)
LEMMA ExitReceives ==
  ASSUME CloseInv, Receives, NEW t \in Threads, ClientExit(t), Typed'
  PROVE  Receives'
<1>1. /\ pc[t] = "exit" /\ conn' = [conn EXCEPT ![loc[t].h] = None] /\ Typed
      /\ Goto(t, "idle", NoLoc) /\ Fits(t, "idle", NoLoc)
      /\ UNCHANGED <<pending, recycled, deaf>>
  BY DEF ClientExit, Done, CloseInv, Fits
<1>2. Goes(t, "idle", NoLoc)
  BY <1>1, GotoGoes
<1>3. ASSUME NEW h \in Handles, NEW c \in Conns, conn'[h] = c, c \notin recycled' \cup deaf'
      PROVE  ReceivedOnce(c)'
  <2>1. h # loc[t].h /\ conn[h] = c
    BY <1>1, <1>3, LocalFacts DEF Typed, TypeOK
  <2>2. c # loc[t].c
    BY <1>1, <2>1 DEF CloseInv, HandlesKnown, Bound
  <2>3. \A u \in Threads : InHands(u, c)' <=> InHands(u, c)
    BY <1>2, <2>2 DEF Goes, InHands
  <2>4. ReceivedOnce(c)
    BY <1>1, <1>3, <2>1, LocalFacts DEF Receives
  <2>5. QED
    BY <1>1, <2>3, <2>4, SameReceive
<1>4. QED
  BY <1>3, ReceivesEach

(* main has the first receive of a new connection in its hands.              *)
LEMMA AcceptReceives ==
  ASSUME CloseInv, Receives, NEW h \in Handles, Accept(h), Typed'
  PROVE  Receives'
<1>1. Typed
  BY DEF CloseInv
<1>2. PICK new \in Conns : new = accepted + 1
  BY <1>1, AcceptAims
<1> DEFINE x == [NoLoc EXCEPT !.h = h, !.c = new]
<1>3. /\ conn' = [conn EXCEPT ![h] = new] /\ recycled \subseteq recycled'
      /\ pending' = pending /\ deaf' = deaf /\ pc["main"] = "idle"
  BY <1>2 DEF Accept
<1>4. Goto("main", "recv", x) /\ Fits("main", "recv", x)
  BY <1>1, <1>2, AcceptAims DEF Aiming
<1>5. Goes("main", "recv", x) /\ x.c = new /\ x.mode # "SEND"
  BY <1>1, <1>4, GotoGoes, ThreadFacts DEF NoLoc
<1>6. /\ \A op \in pending : op.c # new
      /\ \A u \in Threads : pc[u] # "idle" => loc[u].c # new
      /\ \A g \in Handles : conn[g] # new
  <2>1. accepted \in Nat /\ ~(new <= accepted)
    BY <1>1, <1>2, Numbers
  <2>2. QED
    BY <2>1 DEF CloseInv, HandlesKnown, ConnsDistinct, Bound
<1>7. ASSUME NEW g \in Handles, NEW c \in Conns, conn'[g] = c, c \notin recycled' \cup deaf'
      PROVE  ReceivedOnce(c)'
  <2>1. CASE c = new
    <3>1. InHands("main", c)' /\ "main" \in Threads
      BY <1>5, <2>1, ThreadFacts DEF Goes, InHands
    <3>2. \A u \in Threads \ {"main"} : ~InHands(u, c)'
      BY <1>5, <1>6, <2>1 DEF Goes, InHands
    <3>3. \A op \in pending' : ~WithKernel(op, c)
      BY <1>3, <1>6, <2>1 DEF WithKernel
    <3>4. QED
      BY <3>1, <3>2, <3>3 DEF ReceivedOnce, WithKernel
  <2>2. CASE c # new
    <3>1. conn[g] = c /\ c \notin recycled \cup deaf
      BY <1>1, <1>3, <1>7, <2>2 DEF Typed, TypeOK
    <3>2. ReceivedOnce(c)
      BY <3>1, LocalFacts DEF Receives
    <3>3. \A u \in Threads : InHands(u, c)' <=> InHands(u, c)
      BY <1>3, <1>5, <2>2 DEF Goes, InHands
    <3>4. QED
      BY <1>3, <3>2, <3>3, SameReceive
  <2>3. QED
    BY <2>1, <2>2
<1>8. QED
  BY <1>7, ReceivesEach

(* The other steps leave the receives alone.                                 *)
LEMMA QuietReceives ==
  ASSUME CloseInv, Receives, Typed',
         \/ \E t \in Senders, h \in Handles : Reply(t, h)
         \/ \E t \in Receivers, op \in pending : CompletionOfSend(t, op)
         \/ (\E c \in Conns : HangUp(c)) \/ UNCHANGED vars
  PROVE  Receives'
<1>1. UNCHANGED <<conn, recycled, deaf>>
  BY DEF Reply, CompletionOfSend, HangUp, vars, sockets, history
<1>2. \A c, op : (op \in pending' /\ WithKernel(op, c)) <=> (op \in pending /\ WithKernel(op, c))
  BY DEF Reply, CompletionOfSend, HangUp, vars, WithKernel
<1>3. ASSUME NEW u \in Threads, NEW c PROVE InHands(u, c)' <=> InHands(u, c)
  <2>1. ASSUME NEW t \in Senders, NEW h \in Handles, Reply(t, h) PROVE InHands(u, c)' <=> InHands(u, c)
    <3>1. pc[t] = "idle" /\ Typed /\ t \in Threads
      BY <2>1, ThreadFacts DEF Reply, CloseInv
    <3>2. Goes(t, "send", [NoLoc EXCEPT !.h = h, !.c = conn[h]])
      BY <2>1, <3>1, ReplyAims, GotoGoes DEF Aiming
    <3>3. QED
      BY <3>1, <3>2 DEF Goes, InHands
  <2>2. ASSUME UNCHANGED <<pc, loc>> PROVE InHands(u, c)' <=> InHands(u, c)
    BY <2>2 DEF InHands
  <2>3. QED
    BY <2>1, <2>2 DEF CompletionOfSend, HangUp, vars
<1>4. ASSUME NEW h \in Handles, NEW c \in Conns, conn'[h] = c, c \notin recycled' \cup deaf'
      PROVE  ReceivedOnce(c)'
  <2>1. ReceivedOnce(c)
    BY <1>1, <1>4, LocalFacts DEF Receives
  <2>2. QED
    BY <1>2, <1>3, <2>1, SameReceive
<1>5. QED
  BY <1>4, ReceivesEach

(* Every step keeps one receive for every connection.                        *)
LEMMA NextReceives ==
  ASSUME BlockInv, CloseInv, Receives, [Next]_vars
  PROVE  Receives'
<1>0. Typed /\ Typed'
  BY NextBlocks DEF BlockInv
<1>1. ASSUME NEW t \in Receivers, NEW op \in pending, CompletionFailed(t, op) \/ CompletionOfRecv(t, op)
      PROVE  Receives'
  BY <1>0, <1>1, CompletionTakes, TakingReceives, ThreadFacts
<1>2. QED
  BY <1>0, <1>1, StepKinds, AcceptReceives, PostingReceives, ExitReceives, QuietReceives

(* A set with at most one element has the cardinality that says whether it   *)
(* has one.                                                                  *)
LEMMA AtMostOne ==
  ASSUME NEW S, \A x, y \in S : x = y
  PROVE  Cardinality(S) = IF S = {} THEN 0 ELSE 1
<1>1. CASE S = {}
  BY <1>1, FS_EmptySet
<1>2. CASE S # {}
  <2>1. PICK x : x \in S
    BY <1>2
  <2>2. S = {x}
    BY <2>1
  <2>3. QED
    BY <1>2, <2>2, FS_Singleton
<1>3. QED
  BY <1>1, <1>2

(* A connection has one receive at a time, pending or in the hands of a      *)
(* thread, unless its handle was recycled or a receive of it was refused.    *)
THEOREM ReceivesOneAtATime == Spec => []OneReceive
<1>1. Init => Receives
  BY DEF Init, Receives
<1>2. BlockInv /\ CloseInv /\ Receives /\ [Next]_vars => Receives'
  BY NextReceives
<1>3. ASSUME Receives PROVE OneReceive
  <2>1. ASSUME NEW h \in Handles, conn[h] # None, conn[h] \notin recycled \cup deaf
        PROVE  Receiving(conn[h]) = 1
    <3> DEFINE c == conn[h]
               K == {op \in pending : op.c = c /\ op.mode # "SEND"}
               T == {t \in Threads : pc[t] \in {"read", "recv", "exit"} /\ loc[t].c = c /\ loc[t].mode # "SEND"}
    <3>1. /\ K # {} \/ T # {}
          /\ K = {} \/ T = {}
          /\ \A op, q \in K : op = q
          /\ \A t, u \in T : t = u
      BY <1>3, <2>1 DEF Receives, ReceivedOnce, WithKernel, InHands
    <3>2. Receiving(c) = Cardinality(K) + Cardinality(T)
      BY DEF Receiving
    <3> HIDE DEF K, T
    <3>3. Cardinality(K) = (IF K = {} THEN 0 ELSE 1) /\ Cardinality(T) = (IF T = {} THEN 0 ELSE 1)
      BY <3>1, AtMostOne
    <3>4. Receiving(c) = 1
      BY <3>1, <3>2, <3>3
    <3>5. QED
      BY <3>4
  <2>2. QED
    BY <2>1 DEF OneReceive
<1>4. QED
  BY <1>1, <1>2, <1>3, BlocksInvariant, HandlesInvariant, PTL DEF Spec
=============================================================================
