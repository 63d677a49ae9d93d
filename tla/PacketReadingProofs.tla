------------------------- MODULE PacketReadingProofs -------------------------
(***************************************************************************)
(* Theorems about PacketReading for any packets and any receives: framing   *)
(* is right as long as the resumed receives are safe ones.                  *)
(***************************************************************************)
EXTENDS PacketReading, SequenceTheorems, WellFoundedInduction, TLAPS

-----------------------------------------------------------------------------
(* Where the packets end.                                                    *)

(* A set of numbers that is not empty has a least one: induction by its      *)
(* least counterexample.                                                     *)
LEMMA LeastNat ==
  ASSUME NEW T, T \subseteq Nat, T # {}
  PROVE  \E n \in T : \A m \in T : n <= m
<1>1. \E R : IsWellFoundedOn(R, Nat) /\ R = {ss \in Nat \X Nat : ss[1] < ss[2]}
  <2>1. OpToRel(<, Nat) = {ss \in Nat \X Nat : ss[1] < ss[2]}
    BY Zenon DEF OpToRel
  <2>2. QED
    BY <2>1, NatLessThanWellFounded, Zenon
<1>2. PICK R : IsWellFoundedOn(R, Nat) /\ R = {ss \in Nat \X Nat : ss[1] < ss[2]}
  BY <1>1
<1>3. PICK n \in T : \A m \in T : ~(<<m, n>> \in R)
  BY <1>2, WFMin
<1>4. ASSUME NEW m \in T PROVE n <= m
  <2>1. ~(<<m, n>> \in R) /\ m \in Nat /\ n \in Nat
    BY <1>3
  <2>2. QED
    BY <1>2, <2>1
<1>5. QED
  BY <1>4

(* f is End as far as packet n.                                              *)
EndsUpTo(f, n) == f = [i \in 0 .. n |-> IF i = 0 THEN 0 ELSE f[i - 1] + Size[i]]

(* Such a function exists for every packet,                                  *)
LEMMA EndExists ==
  ASSUME NEW n \in Nat, n <= Len(Size)
  PROVE  \E f : EndsUpTo(f, n)
<1> DEFINE T == {m \in Nat : m <= Len(Size) /\ ~\E f : EndsUpTo(f, m)}
<1>0. Len(Size) \in Nat
  BY SizeAssumption
<1>1. SUFFICES ASSUME T # {} PROVE FALSE
  OBVIOUS
<1>2. PICK m \in T : \A j \in T : m <= j
  <2>1. T \subseteq Nat
    OBVIOUS
  <2>2. QED
    BY <1>1, <2>1, LeastNat
<1>3. m \in Nat /\ m <= Len(Size) /\ ~\E f : EndsUpTo(f, m)
  OBVIOUS
<1>4. CASE m = 0
  <2>1. EndsUpTo([i \in 0 .. 0 |-> 0], 0)
    BY DEF EndsUpTo
  <2>2. QED
    BY <1>3, <1>4, <2>1
<1>5. CASE m > 0
  <2>1. PICK j \in Nat : m = j + 1
    <3>1. m - 1 \in Nat /\ m = (m - 1) + 1
      BY <1>3, <1>5
    <3>2. QED
      BY <3>1
  <2>2. j \notin T /\ j <= Len(Size)
    BY <1>0, <1>2, <1>3, <2>1
  <2>3. PICK f : EndsUpTo(f, j)
    BY <2>2
  <2>4. PICK g : g = [i \in 0 .. j + 1 |-> IF i = j + 1 THEN f[j] + Size[j + 1] ELSE f[i]]
    OBVIOUS
  <2>5. DOMAIN g = 0 .. j + 1 /\ g = [i \in 0 .. j + 1 |-> g[i]]
    BY <2>4
  <2>6. ASSUME NEW i \in 0 .. j + 1 PROVE g[i] = IF i = 0 THEN 0 ELSE g[i - 1] + Size[i]
    <3>1. CASE i = j + 1
      <4>1. g[i] = f[j] + Size[j + 1] /\ i # 0 /\ i - 1 = j /\ j \in 0 .. j + 1 /\ j # j + 1
        BY <2>1, <2>4, <3>1
      <4>2. g[j] = f[j]
        BY <2>4, <4>1
      <4>3. QED
        BY <3>1, <4>1, <4>2
    <3>2. CASE i # j + 1
      <4>1. i \in 0 .. j /\ g[i] = f[i]
        BY <2>1, <2>4, <3>2
      <4>2. f[i] = IF i = 0 THEN 0 ELSE f[i - 1] + Size[i]
        BY <2>3, <4>1 DEF EndsUpTo
      <4>3. i # 0 => g[i - 1] = f[i - 1]
        BY <2>1, <2>4, <4>1
      <4>4. QED
        BY <4>1, <4>2, <4>3
    <3>3. QED
      BY <3>1, <3>2
  <2>7. EndsUpTo(g, m)
    BY <2>1, <2>5, <2>6 DEF EndsUpTo
  <2>8. QED
    BY <1>3, <2>7
<1>6. QED
  BY <1>3, <1>4, <1>5

(* and End satisfies the equations that define it.                           *)
LEMMA EndDef ==
  /\ End[0] = 0
  /\ \A i \in Packets : End[i] = End[i - 1] + Size[i]
<1>1. Len(Size) \in Nat /\ Packets = 1 .. Len(Size) /\ {0} \cup Packets = 0 .. Len(Size)
  BY SizeAssumption DEF Packets
<1>2. \E f : EndsUpTo(f, Len(Size))
  BY <1>1, EndExists
<1>3. \E f : f = [i \in {0} \cup Packets |-> IF i = 0 THEN 0 ELSE f[i - 1] + Size[i]]
  BY <1>1, <1>2 DEF EndsUpTo
<1>4. End = [i \in {0} \cup Packets |-> IF i = 0 THEN 0 ELSE End[i - 1] + Size[i]]
  BY <1>3 DEF End
<1>5. ASSUME NEW i \in {0} \cup Packets PROVE End[i] = IF i = 0 THEN 0 ELSE End[i - 1] + Size[i]
  <2>1. PICK f : f = End /\ f = [j \in {0} \cup Packets |-> IF j = 0 THEN 0 ELSE f[j - 1] + Size[j]]
    BY <1>4
  <2>2. f[i] = IF i = 0 THEN 0 ELSE f[i - 1] + Size[i]
    BY <2>1
  <2>3. QED
    BY <2>1, <2>2
<1>6. \A i \in Packets : i # 0
  BY <1>1
<1>7. QED
  BY <1>5, <1>6

(* Packets have a length, and end one after the other.                       *)
LEMMA EndMonotone ==
  /\ Len(Size) \in Nat /\ Packets = 1 .. Len(Size)
  /\ \A i \in 0 .. Len(Size) : End[i] \in Nat
  /\ \A i \in Packets : Size[i] \in Nat /\ Size[i] >= 3
  /\ \A i, j \in 0 .. Len(Size) : i < j => End[i] < End[j]
<1>1. /\ Len(Size) \in Nat /\ Packets = 1 .. Len(Size)
      /\ \A i \in Packets : Size[i] \in Nat /\ Size[i] >= 3
  BY SizeAssumption DEF Packets, HeaderSize
<1>2. \A i \in 0 .. Len(Size) : End[i] \in Nat
  <2> DEFINE T == {i \in Nat : i <= Len(Size) /\ End[i] \notin Nat}
  <2>1. ASSUME T # {} PROVE FALSE
    <3>1. T \subseteq Nat
      OBVIOUS
    <3>2. PICK n \in T : \A m \in T : n <= m
      BY <2>1, <3>1, LeastNat
    <3>3. n \in Nat /\ n <= Len(Size) /\ End[n] \notin Nat
      OBVIOUS
    <3>4. n # 0
      BY <3>3, EndDef
    <3>5. n \in Packets /\ n - 1 \in Nat /\ n - 1 < n /\ n - 1 <= Len(Size)
      BY <1>1, <3>3, <3>4
    <3>6. End[n - 1] \in Nat
      BY <3>2, <3>5
    <3>7. End[n] = End[n - 1] + Size[n] /\ Size[n] \in Nat
      BY <1>1, <3>5, EndDef
    <3>8. QED
      BY <3>3, <3>6, <3>7
  <2>2. QED
    BY <1>1, <2>1
<1>3. ASSUME NEW i \in 0 .. Len(Size) PROVE \A j \in 0 .. Len(Size) : i < j => End[i] < End[j]
  <2> DEFINE T == {j \in Nat : j <= Len(Size) /\ i < j /\ ~(End[i] < End[j])}
  <2>1. ASSUME T # {} PROVE FALSE
    <3>1. T \subseteq Nat
      OBVIOUS
    <3>2. PICK n \in T : \A m \in T : n <= m
      BY <2>1, <3>1, LeastNat
    <3>3. n \in Nat /\ n <= Len(Size) /\ i < n /\ ~(End[i] < End[n])
      OBVIOUS
    <3>4. /\ n \in Packets /\ n - 1 \in Nat /\ n - 1 < n /\ n - 1 <= Len(Size)
          /\ n - 1 \in 0 .. Len(Size) /\ n \in 0 .. Len(Size)
      BY <1>1, <3>3
    <3>5. End[n] = End[n - 1] + Size[n] /\ Size[n] \in Nat /\ Size[n] >= 3
      BY <1>1, <3>4, EndDef
    <3>6. End[i] \in Nat /\ End[n - 1] \in Nat
      BY <1>2, <3>4
    <3>7. CASE i = n - 1
      BY <3>3, <3>5, <3>6, <3>7
    <3>8. CASE i < n - 1
      <4>1. End[i] < End[n - 1]
        BY <3>2, <3>4, <3>8
      <4>2. QED
        BY <3>3, <3>5, <3>6, <4>1
    <3>9. QED
      BY <3>3, <3>4, <3>7, <3>8
  <2>2. QED
    BY <1>1, <2>1
<1>4. QED
  BY <1>1, <1>2, <1>3

-----------------------------------------------------------------------------
(* Runs of bytes.                                                            *)

Run(a, n) == [j \in 1 .. n |-> a + j]

(* A run of the client's bytes, element by element.                          *)
LEMMA RunFacts ==
  ASSUME NEW a \in Nat, NEW n \in Nat
  PROVE  /\ Run(a, n) \in Seq(Nat) /\ Len(Run(a, n)) = n /\ DOMAIN Run(a, n) = 1 .. n
         /\ \A j \in 1 .. n : Run(a, n)[j] = a + j
         /\ Bytes(a, a + n) = Run(a, n)
<1>1. Run(a, n) \in [1 .. n -> Nat] /\ DOMAIN Run(a, n) = 1 .. n /\ \A j \in 1 .. n : Run(a, n)[j] = a + j
  BY DEF Run
<1>2. Run(a, n) \in Seq(Nat)
  BY <1>1, SeqDef
<1>3. Len(Run(a, n)) = n
  BY <1>1, <1>2, LenProperties
<1>4. (a + n) - a = n
  OBVIOUS
<1>5. Bytes(a, a + n) = Run(a, n)
  BY <1>4 DEF Bytes, Run
<1>6. QED
  BY <1>1, <1>2, <1>3, <1>5

(* A part of a run is a run.                                                 *)
LEMMA CopiedRun ==
  ASSUME NEW a \in Nat, NEW n \in Nat, NEW d \in Nat, NEW m \in Nat, d + m <= n,
         NEW b \in Nat, b = a + d
  PROVE  Copied(Run(a, n), d, m) = Run(b, m)
<1>1. Len(Run(a, n)) = n /\ \A j \in 1 .. n : Run(a, n)[j] = a + j
  BY RunFacts
<1>2. ASSUME NEW j \in 1 .. m
      PROVE  (IF d + j <= n THEN Run(a, n)[d + j] ELSE 0) = b + j
  <2>1. d + j \in 1 .. n /\ a + (d + j) = b + j
    OBVIOUS
  <2>2. QED
    BY <1>1, <2>1
<1>3. QED
  BY <1>1, <1>2 DEF Copied, Run

(* What is left of a run from some byte on is a run.                         *)
LEMMA SubSeqRun ==
  ASSUME NEW a \in Nat, NEW n \in Nat, NEW d \in Nat, NEW m \in Nat, n = d + m,
         NEW b \in Nat, b = a + d
  PROVE  SubSeq(Run(a, n), d + 1, n) = Run(b, m)
<1>1. Run(a, n) \in Seq(Nat) /\ Len(Run(a, n)) = n /\ \A j \in 1 .. n : Run(a, n)[j] = a + j
  BY RunFacts
<1>2. /\ SubSeq(Run(a, n), d + 1, n) \in Seq(Nat) /\ Len(SubSeq(Run(a, n), d + 1, n)) = m
      /\ \A j \in 1 .. m : SubSeq(Run(a, n), d + 1, n)[j] = Run(a, n)[d + j]
  BY <1>1, SubSeqProperties
<1>3. /\ Run(b, m) \in Seq(Nat) /\ Len(Run(b, m)) = m
      /\ \A j \in 1 .. m : Run(b, m)[j] = b + j
  BY RunFacts
<1>4. ASSUME NEW j \in 1 .. m PROVE SubSeq(Run(a, n), d + 1, n)[j] = Run(b, m)[j]
  <2>1. d + j \in 1 .. n /\ a + (d + j) = b + j
    OBVIOUS
  <2>2. QED
    BY <1>1, <1>2, <1>3, <2>1
<1>5. QED
  BY <1>2, <1>3, <1>4, SeqEqual

(* What PacketReading keeps of a packet in recvBuffer, after half a header   *)
(* and after part of the packet.                                             *)
AfterHalf(h, u, body) == <<h, u[1]>> \o Copied(u, 1, body)
AfterPart(t, p, u, d) == SubSeq(t, 1, p) \o Copied(u, 0, d)
Shifted(u, n) == SubSeq(u, 3, n) \o SubSeq(u, n - 1, n)

Joined(s, t) == s \o t

(* Two runs, one where the other ends, are one run.                          *)
LEMMA ConcatRun ==
  ASSUME NEW a \in Nat, NEW n \in Nat, NEW m \in Nat, NEW b \in Nat, b = a + n, NEW k \in Nat, k = n + m
  PROVE  Joined(Run(a, n), Run(b, m)) = Run(a, k)
<1>1. /\ Run(a, n) \in Seq(Nat) /\ Len(Run(a, n)) = n /\ \A j \in 1 .. n : Run(a, n)[j] = a + j
      /\ Run(b, m) \in Seq(Nat) /\ Len(Run(b, m)) = m
      /\ \A j \in 1 .. m : Run(b, m)[j] = b + j
      /\ Run(a, k) \in Seq(Nat) /\ Len(Run(a, k)) = k
      /\ \A j \in 1 .. k : Run(a, k)[j] = a + j
  BY RunFacts
<1>2. /\ Run(a, n) \o Run(b, m) \in Seq(Nat) /\ Len(Run(a, n) \o Run(b, m)) = k
      /\ \A j \in 1 .. k : (Run(a, n) \o Run(b, m))[j] = IF j <= n THEN Run(a, n)[j] ELSE Run(b, m)[j - n]
  <2>1. PICK x \in Seq(Nat), y \in Seq(Nat) : x = Run(a, n) /\ y = Run(b, m) /\ Len(x) = n /\ Len(y) = m
    BY <1>1
  <2>2. /\ x \o y \in Seq(Nat) /\ Len(x \o y) = Len(x) + Len(y)
        /\ \A j \in 1 .. Len(x) + Len(y) : (x \o y)[j] = IF j <= Len(x) THEN x[j] ELSE y[j - Len(x)]
    BY ConcatProperties
  <2>3. /\ x \o y \in Seq(Nat) /\ Len(x \o y) = n + m
        /\ \A j \in 1 .. n + m : (x \o y)[j] = IF j <= n THEN x[j] ELSE y[j - n]
    BY <2>1, <2>2, Zenon
  <2>4. QED
    BY <2>1, <2>3
<1>3. PICK c \in Seq(Nat) : c = Run(a, n) \o Run(b, m)
  BY <1>2
<1>4. ASSUME NEW j \in 1 .. k PROVE c[j] = Run(a, k)[j]
  <2>1. CASE j <= n
    BY <1>1, <1>2, <1>3, <2>1
  <2>2. CASE j > n
    <3>1. j - n \in 1 .. m /\ b + (j - n) = a + j
      BY <2>2
    <3>2. c[j] = Run(b, m)[j - n]
      BY <1>2, <1>3, <2>2
    <3>3. PICK i \in 1 .. m : i = j - n
      BY <3>1
    <3>4. Run(b, m)[i] = b + i /\ Run(a, k)[j] = a + j
      BY <1>1
    <3>5. QED
      BY <3>1, <3>2, <3>3, <3>4
  <2>3. QED
    BY <2>1, <2>2
<1>5. c = Run(a, k)
  BY <1>1, <1>2, <1>3, <1>4, SeqEqual
<1>6. QED
  BY <1>3, <1>5 DEF Joined

-----------------------------------------------------------------------------
(* The invariant.                                                            *)

Io(m, b, r, s, h, q) ==
  [mode |-> m, buffer |-> b, recvByte |-> r, bodySize |-> s, head |-> h, recvBuffer |-> q]

(* The first k packets have been handed on, and no other.                    *)
HandedOn(k) ==
  /\ delivered \in Seq(Seq(Nat)) /\ Len(delivered) = k
  /\ \A i \in 1 .. k : delivered[i] = Content(i)

(* Between receives nothing of the next packet has arrived, or its first     *)
(* byte, or more, but not all of it.                                         *)
Idle(k) == pc = "wait" /\ received = End[k] /\ io = Recv(<<>>)
HasHalf(k) ==
  /\ pc = "wait" /\ k < Len(Size) /\ received = End[k] + 1
  /\ io = Io("RECV_MORE", <<>>, 1, io.bodySize, End[k] + 1, io.recvBuffer)
HasPart(k) ==
  /\ pc = "wait" /\ k < Len(Size) /\ received = End[k] + io.recvByte
  /\ io.recvByte \in Nat /\ 2 <= io.recvByte /\ io.recvByte < Size[k + 1]
  /\ io = Io("RECV_MORE", <<>>, io.recvByte, Size[k + 1], io.head, Run(End[k], io.recvByte))

(* The bytes of a receive that are still to be read, with what was kept of   *)
(* the receive before.                                                       *)
Reads(k) ==
  /\ pc = "read" /\ k < Len(Size) /\ remain \in Nat \ {0} /\ received = End[k] + remain
  /\ io = Io("RECV", Run(End[k], remain), io.recvByte, io.bodySize, io.head, io.recvBuffer)
ReadsHalf(k) ==
  /\ pc = "read" /\ k < Len(Size) /\ remain \in Nat \ {0} /\ received = (End[k] + 1) + remain
  /\ io = Io("RECV_MORE", Run(End[k] + 1, remain), 1, io.bodySize, End[k] + 1, io.recvBuffer)
  /\ SafeRest(io, remain, Size[k + 1])
ReadsPart(k) ==
  /\ pc = "read" /\ k < Len(Size) /\ remain \in Nat \ {0}
  /\ received = (End[k] + io.recvByte) + remain
  /\ io.recvByte \in Nat /\ 2 <= io.recvByte /\ io.recvByte < Size[k + 1]
  /\ io = Io("RECV_MORE", Run(End[k] + io.recvByte, remain), io.recvByte, Size[k + 1], io.head,
             Run(End[k], io.recvByte))
  /\ SafeRest(io, remain, Size[k + 1])

Stage(k) == Idle(k) \/ HasHalf(k) \/ HasPart(k) \/ Reads(k) \/ ReadsHalf(k) \/ ReadsPart(k)
Framed == received <= Total /\ \E k \in 0 .. Len(Size) : HandedOn(k) /\ Stage(k)
FramingInv == unsafe \/ Framed

(* At first nothing has been received or handed on.                          *)
LEMMA FramingInit == Init => FramingInv
<1> SUFFICES ASSUME Init PROVE Framed
  BY DEF FramingInv
<1>1. End[0] = 0 /\ 0 \in 0 .. Len(Size) /\ Total \in Nat
  BY EndDef, EndMonotone DEF Total
<1>2. HandedOn(0)
  BY DEF Init, HandedOn
<1>3. Idle(0) /\ received <= Total
  BY <1>1 DEF Init, Idle
<1>4. QED
  BY <1>1, <1>2, <1>3 DEF Framed, Stage

(* The invariant is what the property asks for.                              *)
LEMMA FramingSuffices == FramingInv => SafeSplitsKeepFraming
<1> SUFFICES ASSUME Framed PROVE DeliveredIntact /\ NothingHeldBack
  BY DEF FramingInv, SafeSplitsKeepFraming
<1>1. PICK k \in 0 .. Len(Size) : HandedOn(k) /\ Stage(k)
  BY DEF Framed
<1>2. k \in Nat /\ Len(Size) \in Nat /\ k <= Len(Size) /\ End[k] \in Nat
  BY EndMonotone
<1>3. pc # "lost"
  BY <1>1 DEF Stage, Idle, HasHalf, HasPart, Reads, ReadsHalf, ReadsPart
<1>4. DeliveredIntact
  BY <1>1, <1>2, <1>3 DEF DeliveredIntact, HandedOn
<1>5. ASSUME pc = "wait", NEW i \in Packets, End[i] <= received PROVE i <= Len(delivered)
  <2>1. SUFFICES ASSUME k < i PROVE FALSE
    BY <1>1, <1>2, EndMonotone DEF HandedOn
  <2>2. /\ k + 1 \in Packets /\ k + 1 \in 0 .. Len(Size) /\ (k + 1) - 1 = k
        /\ i \in 0 .. Len(Size) /\ (k + 1 = i \/ k + 1 < i)
    BY <1>2, <2>1, EndMonotone
  <2>3. End[k + 1] = End[k] + Size[k + 1] /\ Size[k + 1] \in Nat /\ Size[k + 1] >= 3
    BY <2>2, EndDef, EndMonotone
  <2>4. End[i] \in Nat /\ End[k + 1] \in Nat /\ End[k + 1] <= End[i]
    BY <2>2, EndMonotone
  <2>5. received \in Nat /\ received < End[k] + Size[k + 1]
    <3>1. Idle(k) \/ HasHalf(k) \/ HasPart(k)
      BY <1>1, <1>5 DEF Stage, Reads, ReadsHalf, ReadsPart
    <3>2. QED
      BY <1>2, <2>3, <3>1 DEF Idle, HasHalf, HasPart
  <2>6. QED
    BY <1>5, <2>3, <2>4, <2>5
<1>6. QED
  BY <1>4, <1>5 DEF NothingHeldBack

-----------------------------------------------------------------------------
(* A completion.                                                             *)

(* The packet that is being received.                                        *)
LEMMA CurrentIs ==
  ASSUME NEW k \in Nat, k < Len(Size), NEW p \in Nat, p < Size[k + 1], received = End[k] + p
  PROVE  Current = k + 1
<1>1. /\ k + 1 \in Packets /\ (k + 1) - 1 = k /\ k \in 0 .. Len(Size) /\ k + 1 \in 0 .. Len(Size)
      /\ Len(Size) \in Nat
  BY EndMonotone
<1>2. /\ End[k + 1] = End[k] + Size[k + 1] /\ End[k] \in Nat /\ End[k + 1] \in Nat
      /\ Size[k + 1] \in Nat
  BY <1>1, EndDef, EndMonotone
<1>3. End[(k + 1) - 1] <= received /\ received < End[k + 1]
  BY <1>1, <1>2
<1>4. ASSUME NEW i \in Packets, End[i - 1] <= received, received < End[i] PROVE i = k + 1
  <2>1. i \in 0 .. Len(Size) /\ i - 1 \in 0 .. Len(Size) /\ i \in Nat /\ End[i] \in Nat /\ End[i - 1] \in Nat
    BY EndMonotone
  <2>2. ~(i < k + 1)
    <3>1. SUFFICES ASSUME i < k + 1 PROVE FALSE
      OBVIOUS
    <3>2. i = k \/ i < k
      BY <2>1, <3>1
    <3>3. End[i] <= End[k]
      BY <1>1, <1>2, <2>1, <3>2, EndMonotone
    <3>4. QED
      BY <1>2, <1>4, <2>1, <3>3
  <2>3. ~(i > k + 1)
    <3>1. SUFFICES ASSUME i > k + 1 PROVE FALSE
      OBVIOUS
    <3>2. k + 1 = i - 1 \/ k + 1 < i - 1
      BY <2>1, <3>1
    <3>3. End[k + 1] <= End[i - 1]
      <4>1. PICK j \in 0 .. Len(Size) : j = i - 1 /\ End[j] \in Nat
        BY <2>1
      <4>2. k + 1 < j => End[k + 1] < End[j]
        BY <1>1, EndMonotone
      <4>3. QED
        BY <1>2, <3>2, <4>1, <4>2
    <3>4. QED
      BY <1>2, <1>3, <1>4, <2>1, <3>3
  <2>4. QED
    BY <2>1, <2>2, <2>3
<1>5. QED
  BY <1>1, <1>3, <1>4 DEF Current

(* A receive completes: what it brings goes on where the last one ended, or  *)
(* the rest is unsafe.                                                       *)
LEMMA CompletionFrames ==
  ASSUME Framed, ~unsafe, NEW n \in Nat, n >= 1, Completion(n)
  PROVE  FramingInv'
<1>1. PICK k \in 0 .. Len(Size) : HandedOn(k) /\ Stage(k)
  BY DEF Framed
<1>2. k \in Nat /\ Len(Size) \in Nat /\ k <= Len(Size) /\ End[k] \in Nat /\ Total \in Nat
  BY EndMonotone DEF Total
<1>3. /\ pc = "wait" /\ pc' = "read" /\ received + n <= Total /\ received' = received + n /\ remain' = n
      /\ io' = [io EXCEPT !.buffer = Bytes(received, received + n)]
      /\ delivered' = delivered
  BY DEF Completion
<1>4. HandedOn(k)'
  BY <1>1, <1>3 DEF HandedOn
<1>5. k < Len(Size) => /\ Size[k + 1] \in Nat /\ Size[k + 1] >= 3
  BY <1>2, EndMonotone
<1>6. CASE Idle(k)
  <2>1. received = End[k] /\ io = Recv(<<>>)
    BY <1>6 DEF Idle
  <2>2. k < Len(Size)
    <3>1. End[k] # Total
      BY <1>2, <1>3, <2>1
    <3>2. QED
      BY <1>2, <3>1 DEF Total
  <2>3. Bytes(received, received + n) = Run(End[k], n)
    BY <1>2, <2>1, RunFacts
  <2>4. io' = Io("RECV", Run(End[k], n), 0, 0, 0, <<>>)
    BY <1>3, <2>1, <2>3 DEF Recv, Io
  <2>5. Reads(k)'
    BY <1>2, <1>3, <2>1, <2>2, <2>4 DEF Reads, Io
  <2>6. QED
    BY <1>3, <1>4, <2>5 DEF FramingInv, Framed, Stage
<1>7. CASE HasHalf(k)
  <2>1. PICK s, q : io = Io("RECV_MORE", <<>>, 1, s, End[k] + 1, q)
    BY <1>7 DEF HasHalf
  <2>2. received = End[k] + 1 /\ k < Len(Size)
    BY <1>7 DEF HasHalf
  <2>3. PICK a \in Nat : a = End[k] + 1
    BY <1>2
  <2>4. Bytes(received, received + n) = Run(a, n)
    BY <2>2, <2>3, RunFacts
  <2>5. io' = Io("RECV_MORE", Run(a, n), 1, s, a, q)
    BY <1>3, <2>1, <2>3, <2>4 DEF Io
  <2>6. Current = k + 1
    BY <1>2, <1>5, <2>2, CurrentIs
  <2>7. unsafe' \/ SafeRest(io, n, Size[k + 1])
    BY <2>1, <2>6 DEF Completion, Io
  <2>8. io'.recvByte = 1 /\ io.recvByte = 1
    BY <2>1, <2>5 DEF Io
  <2>9. SafeRest(io, n, Size[k + 1]) => SafeRest(io', n, Size[k + 1])
    BY <2>8 DEF SafeRest
  <2>10. SafeRest(io, n, Size[k + 1]) => ReadsHalf(k)'
    <3>1. SUFFICES ASSUME SafeRest(io', n, Size[k + 1]) PROVE ReadsHalf(k)'
      BY <2>9
    <3>2. io' = Io("RECV_MORE", Run(a, n), 1, io'.bodySize, a, io'.recvBuffer)
      BY <2>5 DEF Io
    <3>3. QED
      BY <1>2, <1>3, <2>2, <2>3, <3>1, <3>2 DEF ReadsHalf
  <2>11. QED
    BY <1>3, <1>4, <2>7, <2>10 DEF FramingInv, Framed, Stage
<1>8. CASE HasPart(k)
  <2>1. PICK p \in Nat : /\ p = io.recvByte /\ 2 <= p /\ p < Size[k + 1] /\ received = End[k] + p
                         /\ k < Len(Size)
                         /\ io = Io("RECV_MORE", <<>>, p, Size[k + 1], io.head, Run(End[k], p))
    BY <1>8 DEF HasPart
  <2>2. PICK h : io = Io("RECV_MORE", <<>>, p, Size[k + 1], h, Run(End[k], p))
    BY <2>1
  <2>3. PICK a \in Nat : a = End[k] + p
    BY <1>2
  <2>4. Bytes(received, received + n) = Run(a, n)
    BY <2>1, <2>3, RunFacts
  <2>5. io' = Io("RECV_MORE", Run(a, n), p, Size[k + 1], h, Run(End[k], p))
    BY <1>3, <2>2, <2>4 DEF Io
  <2>6. Current = k + 1
    BY <1>2, <2>1, CurrentIs
  <2>7. unsafe' \/ SafeRest(io, n, Size[k + 1])
    BY <2>2, <2>6 DEF Completion, Io
  <2>8. io'.recvByte = p /\ io'.head = h
    BY <2>5 DEF Io
  <2>9. SafeRest(io, n, Size[k + 1]) => SafeRest(io', n, Size[k + 1])
    BY <2>1, <2>8 DEF SafeRest
  <2>10. SafeRest(io, n, Size[k + 1]) => ReadsPart(k)'
    <3>1. SUFFICES ASSUME SafeRest(io', n, Size[k + 1]) PROVE ReadsPart(k)'
      BY <2>9
    <3>2. QED
      BY <1>2, <1>3, <2>1, <2>3, <2>5, <2>8, <3>1 DEF ReadsPart
  <2>11. QED
    BY <1>3, <1>4, <2>7, <2>10 DEF FramingInv, Framed, Stage
<1>9. QED
  BY <1>1, <1>3, <1>6, <1>7, <1>8 DEF Stage, Reads, ReadsHalf, ReadsPart

-----------------------------------------------------------------------------
(* The branches of PacketReading, on runs of bytes that start at a packet.   *)

(* The fields of a block.                                                    *)
LEMMA IoFields ==
  ASSUME NEW x, NEW m, NEW b, NEW r, NEW s, NEW h, NEW q, x = Io(m, b, r, s, h, q)
  PROVE  /\ x.mode = m /\ x.buffer = b /\ x.recvByte = r /\ x.bodySize = s
         /\ x.head = h /\ x.recvBuffer = q
BY DEF Io

(* More input is asked for: a part of a packet, or of a header, is kept.     *)
LEMMA AskForMore ==
  ASSUME NEW x, NEW m, NEW b, NEW r, NEW s, NEW h, NEW q, x = Io(m, b, r, s, h, q)
  PROVE  RecvMore(x) = Io("RECV_MORE", <<>>, r, s, h, q)
<1>1. PICK y : y = [x EXCEPT !.mode = "RECV_MORE"]
  OBVIOUS
<1>2. y = Io("RECV_MORE", b, r, s, h, q)
  BY <1>1 DEF Io
<1>3. PICK z : z = [y EXCEPT !.buffer = <<>>]
  OBVIOUS
<1>4. z = Io("RECV_MORE", <<>>, r, s, h, q)
  BY <1>2, <1>3 DEF Io
<1>5. RecvMore(x) = z
  BY <1>1, <1>3 DEF RecvMore
<1>6. QED
  BY <1>4, <1>5

(* What PacketReading makes of a receive that ends after the first byte of a *)
(* packet,                                                                   *)
LEMMA ReadHalf ==
  ASSUME NEW x, NEW b, NEW r, NEW s, NEW h, NEW q, x = Io("RECV", b, r, s, h, q)
  PROVE  HalfHeader(x) = [io |-> Io("RECV", b, 1, s, b[1], q), ret |-> -1]
<1>1. x.buffer = b
  BY IoFields
<1>2. PICK e : e = b[1]
  OBVIOUS
<1>3. PICK y : y = [x EXCEPT !.head = e]
  OBVIOUS
<1>4. y = Io("RECV", b, r, s, e, q)
  BY <1>3 DEF Io
<1>5. PICK z : z = [y EXCEPT !.recvByte = 1]
  OBVIOUS
<1>6. z = Io("RECV", b, 1, s, e, q)
  BY <1>4, <1>5 DEF Io
<1>7. [x EXCEPT !.head = x.buffer[1], !.recvByte = 1] = z
  BY <1>1, <1>2, <1>3, <1>5
<1>8. QED
  BY <1>2, <1>6, <1>7, Zenon DEF HalfHeader

(* and of one with the packet's length: the whole packet, or a part of it.   *)
LEMMA ReadFirstPart ==
  ASSUME NEW body, NEW n, NEW u, NEW r, NEW s, NEW h, NEW q, NEW x, x = Io("RECV", u, r, s, h, q),
         NEW f, f = Copied(u, 0, body), NEW w, w = Copied(u, body, n - body),
         NEW g, g = Copied(u, 0, n)
  PROVE  FirstPart(x, n, body)
           = IF n >= body
             THEN [io |-> Io("RECV", w, r, body, h, f), ret |-> n - body]
             ELSE [io |-> Io("RECV", u, n, body, h, g), ret |-> n - body]
<1>1. x.buffer = u
  BY IoFields
<1>2. PICK y : y = [x EXCEPT !.bodySize = body]
  OBVIOUS
<1>3. y = Io("RECV", u, r, body, h, q)
  BY <1>2 DEF Io
<1>4. PICK z1 : z1 = [y EXCEPT !.recvBuffer = f]
  OBVIOUS
<1>5. z1 = Io("RECV", u, r, body, h, f)
  BY <1>3, <1>4 DEF Io
<1>6. PICK z : z = [z1 EXCEPT !.buffer = w]
  OBVIOUS
<1>7. z = Io("RECV", w, r, body, h, f)
  BY <1>5, <1>6 DEF Io
<1>8. [x EXCEPT !.bodySize = body, !.recvBuffer = f, !.buffer = w] = z
  BY <1>2, <1>4, <1>6
<1>9. PICK k1 : k1 = [y EXCEPT !.recvBuffer = g]
  OBVIOUS
<1>10. k1 = Io("RECV", u, r, body, h, g)
  BY <1>3, <1>9 DEF Io
<1>11. PICK k : k = [k1 EXCEPT !.recvByte = n]
  OBVIOUS
<1>12. k = Io("RECV", u, n, body, h, g)
  BY <1>10, <1>11 DEF Io
<1>13. [x EXCEPT !.bodySize = body, !.recvBuffer = g, !.recvByte = n] = k
  BY <1>2, <1>9, <1>11
<1>14. FirstPart(x, n, body)
         = IF n >= body THEN [io |-> z, ret |-> n - body] ELSE [io |-> k, ret |-> n - body]
  BY <1>1, <1>8, <1>13, Zenon DEF FirstPart
<1>15. QED
  BY <1>7, <1>12, <1>14, Zenon

(* A run and the run that follows it, cut to the length of the packet.       *)
LEMMA PartAndRest ==
  ASSUME NEW a \in Nat, NEW p \in Nat, NEW d \in Nat, NEW c \in Nat, c = a + p,
         NEW body \in Nat, body = p + d, NEW n \in Nat, d <= n
  PROVE  AfterPart(Run(a, p), p, Run(c, n), d) = Run(a, body)
<1>1. SubSeq(Run(a, p), 1, p) = Run(a, p)
  <2>1. Run(a, p) \in Seq(Nat) /\ Len(Run(a, p)) = p
    BY RunFacts
  <2>2. QED
    BY <2>1, SubSeqFull
<1>2. Copied(Run(c, n), 0, d) = Run(c, d)
  <2>1. 0 + d <= n /\ c = c + 0
    OBVIOUS
  <2>2. PICK z \in Nat : z = 0 /\ z + d <= n /\ c = c + z
    BY <2>1
  <2>3. Copied(Run(c, n), z, d) = Run(c, d)
    BY <2>2, CopiedRun
  <2>4. QED
    BY <2>2, <2>3
<1>3. Joined(Run(a, p), Run(c, d)) = Run(a, body)
  BY ConcatRun
<1>4. QED
  BY <1>1, <1>2, <1>3, Zenon DEF AfterPart, Joined

(* Behind the header of a run of bytes lies its content.                     *)
LEMMA ContentOfRun ==
  ASSUME NEW a \in Nat, NEW body \in Nat, NEW c \in Nat, c = a + 2, NEW l \in Nat, body = 2 + l
  PROVE  SubSeq(Run(a, body), 3, body) = Run(c, l)
<1>1. PICK d \in Nat : d = 2
  OBVIOUS
<1>2. body = d + l /\ c = a + d /\ d + 1 = 3
  BY <1>1
<1>3. SubSeq(Run(a, body), d + 1, body) = Run(c, l)
  BY <1>2, SubSeqRun
<1>4. QED
  BY <1>2, <1>3

(* The same when the header came in two halves.                              *)
LEMMA ContentAfterHalf ==
  ASSUME NEW a \in Nat, NEW body \in Nat, body >= 3, NEW n \in Nat, n + 1 >= body,
         NEW c \in Nat, c = a + 2, NEW l \in Nat, body = 2 + l, NEW a1 \in Nat, a1 = a + 1,
         NEW x, x = AfterHalf(a1, Run(a1, n), body)
  PROVE  SubSeq(x, 3, body) = Run(c, l)
<1>1. Len(Run(a1, n)) = n /\ \A j \in 1 .. n : Run(a1, n)[j] = a1 + j
  BY RunFacts
<1>2. PICK t : t = Copied(Run(a1, n), 1, body)
  OBVIOUS
<1>3. /\ t \in [1 .. body -> Nat]
      /\ \A j \in 1 .. body : 1 + j <= n => t[j] = a1 + (1 + j)
  <2>1. ASSUME NEW j \in 1 .. body PROVE t[j] \in Nat /\ (1 + j <= n => t[j] = a1 + (1 + j))
    <3>1. t[j] = IF 1 + j <= n THEN Run(a1, n)[1 + j] ELSE 0
      BY <1>1, <1>2 DEF Copied
    <3>2. 1 + j <= n => 1 + j \in 1 .. n
      OBVIOUS
    <3>3. QED
      BY <1>1, <3>1, <3>2
  <2>2. t = [j \in 1 .. body |-> t[j]]
    BY <1>2 DEF Copied
  <2>3. QED
    BY <2>1, <2>2
<1>4. t \in Seq(Nat) /\ Len(t) = body
  <2>1. t \in Seq(Nat)
    BY <1>3, SeqDef
  <2>2. QED
    BY <1>3, <2>1, LenProperties
<1>5. PICK u \in Seq(Nat) : u = <<a1, Run(a1, n)[1]>> /\ Len(u) = 2
  <2>1. Run(a1, n)[1] \in Nat
    BY <1>1
  <2>2. <<a1, Run(a1, n)[1]>> \in Seq(Nat) /\ Len(<<a1, Run(a1, n)[1]>>) = 2
    BY <2>1
  <2>3. QED
    BY <2>2
<1>6. PICK v \in Seq(Nat) : /\ v = u \o t /\ Len(v) = 2 + body
                           /\ \A j \in 1 .. 2 + body : v[j] = IF j <= 2 THEN u[j] ELSE t[j - 2]
  <2>1. /\ u \o t \in Seq(Nat) /\ Len(u \o t) = Len(u) + Len(t)
        /\ \A j \in 1 .. Len(u) + Len(t) : (u \o t)[j] = IF j <= Len(u) THEN u[j] ELSE t[j - Len(u)]
    BY <1>4, <1>5, ConcatProperties
  <2>2. /\ u \o t \in Seq(Nat) /\ Len(u \o t) = 2 + body
        /\ \A j \in 1 .. 2 + body : (u \o t)[j] = IF j <= 2 THEN u[j] ELSE t[j - 2]
    BY <1>4, <1>5, <2>1, Zenon
  <2>3. QED
    BY <2>2
<1>7. /\ SubSeq(v, 3, body) \in Seq(Nat) /\ Len(SubSeq(v, 3, body)) = l
      /\ \A j \in 1 .. l : SubSeq(v, 3, body)[j] = v[2 + j]
  <2>1. /\ SubSeq(v, 3, body) \in Seq(Nat)
        /\ Len(SubSeq(v, 3, body)) = (body - 3) + 1
        /\ \A j \in 1 .. (body - 3) + 1 : SubSeq(v, 3, body)[j] = v[3 + j - 1]
    <3>1. 3 \in Int /\ body \in Int /\ 3 <= body
      OBVIOUS
    <3>2. \A j \in 3 .. body : v[j] \in Nat
      <4>1. v \in Seq(Nat) /\ \A j \in 3 .. body : j \in 1 .. Len(v)
        BY <1>6
      <4>2. QED
        BY <4>1, ElementOfSeq
    <3>3. /\ SubSeq(v, 3, body) \in Seq(Nat)
          /\ Len(SubSeq(v, 3, body)) = IF 3 <= body THEN body - 3 + 1 ELSE 0
          /\ \A j \in 1 .. body - 3 + 1 : SubSeq(v, 3, body)[j] = v[3 + j - 1]
      BY <3>2, SubSeqProperties
    <3>4. QED
      BY <3>1, <3>3, Zenon
  <2>2. (body - 3) + 1 = l /\ \A j \in 1 .. l : 3 + j - 1 = 2 + j
    OBVIOUS
  <2>3. QED
    BY <2>1, <2>2
<1>8. ASSUME NEW j \in 1 .. l PROVE v[2 + j] = c + j
  <2>1. 2 + j \in 1 .. 2 + body /\ ~(2 + j <= 2) /\ (2 + j) - 2 = j /\ j \in 1 .. body /\ 1 + j <= n
    OBVIOUS
  <2>2. v[2 + j] = t[j] /\ t[j] = a1 + (1 + j)
    BY <1>3, <1>6, <2>1
  <2>3. QED
    BY <2>2
<1>9. Run(c, l) \in Seq(Nat) /\ Len(Run(c, l)) = l /\ \A j \in 1 .. l : Run(c, l)[j] = c + j
  BY RunFacts
<1>10. SubSeq(v, 3, body) = Run(c, l)
  <2>1. PICK p \in Seq(Nat), q \in Seq(Nat) : p = SubSeq(v, 3, body) /\ q = Run(c, l)
    BY <1>7, <1>9
  <2>2. Len(p) = l /\ Len(q) = l /\ \A j \in 1 .. l : p[j] = q[j]
    BY <1>7, <1>8, <1>9, <2>1
  <2>3. p = q
    BY <2>2, SeqEqual
  <2>4. QED
    BY <2>1, <2>3
<1>11. v = x
  BY <1>2, <1>5, <1>6, Zenon DEF AfterHalf
<1>12. QED
  BY <1>10, <1>11, Zenon

(* DataCopy hands on the packet without its first two bytes.                 *)
LEMMA CopyIs ==
  ASSUME NEW x, NEW m, NEW b, NEW r, NEW s, NEW h, NEW v, x = Io(m, b, r, s, h, v)
  PROVE  DataCopy(x) = SubSeq(v, 3, s)
<1>1. x.recvBuffer = v /\ x.bodySize = s
  BY IoFields
<1>2. HeaderSize + 1 = 3
  BY DEF HeaderSize
<1>3. QED
  BY <1>1, <1>2, Zenon DEF DataCopy

(* What PacketReading makes of the receive after half a length,              *)
LEMMA ReadRestOfHeader ==
  ASSUME NEW body, NEW n, NEW u, NEW s, NEW h, NEW q
  PROVE  RestOfHeader(Io("RECV_MORE", u, 1, s, h, q), n, body)
           = IF n > body
             THEN [io  |-> Io("RECV", Copied(u, body - 1, n - (body - 1)), 1, body, h,
                              AfterHalf(h, u, body)),
                   ret |-> n - (body - 1)]
             ELSE [io  |-> Io("RECV", u, 1, body, h, AfterHalf(h, u, body)), ret |-> 0]
<1>1. PICK x : x = Io("RECV_MORE", u, 1, s, h, q)
  OBVIOUS
<1>2. PICK v : v = AfterHalf(h, u, body)
  OBVIOUS
<1>3. PICK w : w = Copied(u, body - 1, n - (body - 1))
  OBVIOUS
<1>4. x.buffer = u /\ x.head = h
  BY <1>1, IoFields
<1>5. <<x.head, x.buffer[1]>> \o Copied(x.buffer, 1, body) = v
  BY <1>2, <1>4, Zenon DEF AfterHalf
<1>6. PICK y1 : y1 = [x EXCEPT !.mode = "RECV"]
  OBVIOUS
<1>7. y1 = Io("RECV", u, 1, s, h, q)
  BY <1>1, <1>6 DEF Io
<1>8. PICK y2 : y2 = [y1 EXCEPT !.bodySize = body]
  OBVIOUS
<1>9. y2 = Io("RECV", u, 1, body, h, q)
  BY <1>7, <1>8 DEF Io
<1>10. PICK y : y = [y2 EXCEPT !.recvBuffer = v]
  OBVIOUS
<1>11. y = Io("RECV", u, 1, body, h, v)
  BY <1>9, <1>10 DEF Io
<1>12. [x EXCEPT !.mode = "RECV", !.bodySize = body, !.recvBuffer = v] = y
  BY <1>6, <1>8, <1>10
<1>13. PICK z : z = [y EXCEPT !.buffer = w]
  OBVIOUS
<1>14. z = Io("RECV", w, 1, body, h, v)
  BY <1>11, <1>13 DEF Io
<1>15. RestOfHeader(x, n, body)
         = IF n > body THEN [io |-> z, ret |-> n - (body - 1)] ELSE [io |-> y, ret |-> 0]
  BY <1>3, <1>4, <1>5, <1>12, <1>13, Zenon DEF RestOfHeader
<1>16. QED
  BY <1>1, <1>2, <1>3, <1>11, <1>14, <1>15, Zenon

(* and of the receive after a part of a packet.                              *)
LEMMA ReadRestOfBody ==
  ASSUME NEW body, NEW n, NEW p, NEW u, NEW h, NEW t
  PROVE  RestOfBody(Io("RECV_MORE", u, p, body, h, t), n)
           = IF n > body
             THEN [io  |-> Io("RECV", Copied(u, body - p, n - (body - p)), p, body, h,
                              AfterPart(t, p, u, body - p)),
                   ret |-> n - (body - p)]
             ELSE IF n = body
             THEN [io  |-> Io("RECV", u, p, body, h, AfterPart(t, p, u, body - p)), ret |-> 0]
             ELSE [io  |-> Io("RECV", Shifted(u, n), n, body, h, AfterPart(t, p, u, body - p)),
                   ret |-> n - (body - n)]
<1>1. PICK x : x = Io("RECV_MORE", u, p, body, h, t)
  OBVIOUS
<1>2. PICK v : v = AfterPart(t, p, u, body - p)
  OBVIOUS
<1>3. PICK w : w = Copied(u, body - p, n - (body - p))
  OBVIOUS
<1>4. PICK e : e = Shifted(u, n)
  OBVIOUS
<1>5. x.bodySize = body /\ x.recvByte = p /\ x.buffer = u /\ x.recvBuffer = t
  BY <1>1, IoFields
<1>6. PICK y1 : y1 = [x EXCEPT !.mode = "RECV"]
  OBVIOUS
<1>7. y1 = Io("RECV", u, p, body, h, t)
  BY <1>1, <1>6 DEF Io
<1>8. PICK y : y = [y1 EXCEPT !.recvBuffer = v]
  OBVIOUS
<1>9. y = Io("RECV", u, p, body, h, v)
  BY <1>7, <1>8 DEF Io
<1>10. [x EXCEPT !.mode = "RECV", !.recvBuffer = v] = y
  BY <1>6, <1>8
<1>11. SubSeq(x.recvBuffer, 1, x.recvByte) \o Copied(x.buffer, 0, x.bodySize - x.recvByte) = v
  BY <1>2, <1>5, Zenon DEF AfterPart
<1>12. [x EXCEPT !.mode = "RECV",
                !.recvBuffer = SubSeq(@, 1, x.recvByte) \o Copied(x.buffer, 0, x.bodySize - x.recvByte)]
        = y
  <2>1. [x EXCEPT !.mode = "RECV",
                  !.recvBuffer = SubSeq(@, 1, x.recvByte) \o Copied(x.buffer, 0, x.bodySize - x.recvByte)]
          = [x EXCEPT !.mode = "RECV",
                      !.recvBuffer = SubSeq(x.recvBuffer, 1, x.recvByte)
                                       \o Copied(x.buffer, 0, x.bodySize - x.recvByte)]
    OBVIOUS
  <2>2. QED
    BY <1>10, <1>11, <2>1, Zenon
<1>13. PICK z : z = [y EXCEPT !.buffer = w]
  OBVIOUS
<1>14. z = Io("RECV", w, p, body, h, v)
  BY <1>9, <1>13 DEF Io
<1>15. PICK k1 : k1 = [y EXCEPT !.buffer = e]
  OBVIOUS
<1>16. k1 = Io("RECV", e, p, body, h, v)
  BY <1>9, <1>15 DEF Io
<1>17. PICK k : k = [k1 EXCEPT !.recvByte = n]
  OBVIOUS
<1>18. k = Io("RECV", e, n, body, h, v)
  BY <1>16, <1>17 DEF Io
<1>19. [y EXCEPT !.buffer = e, !.recvByte = n] = k
  BY <1>15, <1>17
<1>20. RestOfBody(x, n)
         = IF n > body THEN [io |-> z, ret |-> n - (body - p)]
           ELSE IF n = body THEN [io |-> y, ret |-> 0]
           ELSE [io |-> k, ret |-> n - (body - n)]
  BY <1>3, <1>4, <1>5, <1>12, <1>13, <1>19, Zenon DEF RestOfBody, Shifted
<1>21. QED
  BY <1>1, <1>2, <1>3, <1>4, <1>9, <1>14, <1>18, <1>20, Zenon

-----------------------------------------------------------------------------
(* One round of the loop.                                                    *)

(* What RecvThread does with the result: go on reading, ask for a new        *)
(* receive, or for more.                                                     *)
LEMMA ReadOutcome ==
  ASSUME PacketReading, NEW y, NEW m \in Int, Read(io, remain) = [io |-> y, ret |-> m]
  PROVE  /\ received' = received /\ unsafe' = unsafe
         /\ m > 0 => /\ delivered' = Append(delivered, DataCopy(y)) /\ io' = y
                     /\ remain' = m /\ pc' = "read"
         /\ m = 0 => /\ delivered' = Append(delivered, DataCopy(y)) /\ io' = Recv(<<>>)
                     /\ pc' = "wait"
         /\ m < 0 => delivered' = delivered /\ io' = RecvMore(y) /\ pc' = "wait"
<1>1. PICK r : r = Read(io, remain) /\ r.io = y /\ r.ret = m
  OBVIOUS
<1>2. /\ delivered' = IF m >= 0 THEN Append(delivered, DataCopy(y)) ELSE delivered
      /\ io' = IF m > 0 THEN y ELSE IF m = 0 THEN Recv(<<>>) ELSE RecvMore(y)
      /\ remain' = IF m > 0 THEN m ELSE 0
      /\ pc' = IF m > 0 THEN "read" ELSE "wait"
      /\ received' = received /\ unsafe' = unsafe
  BY <1>1, Zenon DEF PacketReading
<1>3. QED
  BY <1>2

(* The bytes at which a packet starts are the header of that packet.         *)
LEMMA HeaderIs ==
  ASSUME NEW k \in Nat, k < Len(Size), NEW b1 \in Nat, NEW b2 \in Nat, b1 = End[k] + 1, b2 = b1 + 1
  PROVE  HeaderOf(b1, b2) = {k + 1} /\ (CHOOSE i \in HeaderOf(b1, b2) : TRUE) = k + 1
<1>1. /\ k + 1 \in Packets /\ (k + 1) - 1 = k /\ k \in 0 .. Len(Size) /\ End[k] \in Nat
      /\ Len(Size) \in Nat
  BY EndMonotone
<1>2. ASSUME NEW i \in Packets, b1 = End[i - 1] + 1 PROVE i = k + 1
  <2>1. i \in Nat /\ i - 1 \in 0 .. Len(Size)
    BY EndMonotone
  <2>2. PICK j \in 0 .. Len(Size) : j = i - 1 /\ End[j] \in Nat
    <3>1. \A j \in 0 .. Len(Size) : End[j] \in Nat
      BY EndMonotone
    <3>2. QED
      BY <2>1, <3>1
  <2>3. End[j] = End[k]
    BY <1>1, <1>2, <2>2
  <2>4. (j < k => End[j] < End[k]) /\ (k < j => End[k] < End[j])
    BY <1>1, EndMonotone
  <2>5. ~(j < k) /\ ~(k < j)
    BY <1>1, <2>2, <2>3, <2>4
  <2>6. QED
    BY <2>1, <2>2, <2>5
<1>3. HeaderOf(b1, b2) = {k + 1}
  BY <1>1, <1>2 DEF HeaderOf
<1>4. QED
  BY <1>3

(* The content of a packet is the run of its bytes after the first two.      *)
LEMMA ContentIs ==
  ASSUME NEW k \in Nat, k < Len(Size)
  PROVE  /\ Content(k + 1) \in Seq(Nat)
         /\ \A c \in Nat, l \in Nat : c = End[k] + 2 /\ Size[k + 1] = 2 + l => Content(k + 1) = Run(c, l)
<1>1. /\ k + 1 \in Packets /\ (k + 1) - 1 = k /\ k \in 0 .. Len(Size) /\ End[k] \in Nat
      /\ Size[k + 1] \in Nat /\ Size[k + 1] >= 3
  BY EndMonotone
<1>2. ASSUME NEW c \in Nat, NEW l \in Nat, c = End[k] + 2, Size[k + 1] = 2 + l
      PROVE  Content(k + 1) = Run(c, l)
  <2>1. End[k + 1] = c + l
    <3>1. End[k + 1] = End[(k + 1) - 1] + Size[k + 1]
      BY <1>1, EndDef
    <3>2. End[k + 1] = End[k] + Size[k + 1]
      BY <1>1, <3>1
    <3>3. PICK e \in Nat, z \in Nat : e = End[k] /\ z = Size[k + 1]
      BY <1>1
    <3>4. c = e + 2 /\ z = 2 + l /\ End[k + 1] = e + z
      BY <1>2, <3>2, <3>3, Zenon
    <3>5. QED
      BY <3>4
  <2>2. QED
    BY <1>1, <1>2, <2>1, RunFacts DEF Content, HeaderSize
<1>3. \E c, l \in Nat : c = End[k] + 2 /\ Size[k + 1] = 2 + l
  <2>1. End[k] + 2 \in Nat /\ Size[k + 1] - 2 \in Nat /\ Size[k + 1] = 2 + (Size[k + 1] - 2)
    BY <1>1
  <2>2. QED
    BY <2>1
<1>4. PICK c \in Nat, l \in Nat : c = End[k] + 2 /\ Size[k + 1] = 2 + l
  BY <1>3
<1>5. Content(k + 1) \in Seq(Nat)
  BY <1>2, <1>4, RunFacts
<1>6. QED
  BY <1>2, <1>5

(* The packet is complete and handed on.                                     *)
LEMMA HandsOn ==
  ASSUME NEW k \in Nat, k < Len(Size), HandedOn(k), delivered' = Append(delivered, Content(k + 1))
  PROVE  HandedOn(k + 1)'
<1>1. Content(k + 1) \in Seq(Nat)
  BY ContentIs
<1>2. PICK v \in Seq(Nat) : v = Content(k + 1)
  BY <1>1
<1>3. /\ delivered \in Seq(Seq(Nat)) /\ Len(delivered) = k
      /\ \A i \in 1 .. k : delivered[i] = Content(i)
  BY DEF HandedOn
<1>4. /\ delivered' \in Seq(Seq(Nat)) /\ Len(delivered') = k + 1
      /\ \A i \in 1 .. k : delivered'[i] = delivered[i]
      /\ delivered'[k + 1] = v
  BY <1>2, <1>3, AppendProperties
<1>5. ASSUME NEW i \in 1 .. k + 1 PROVE delivered'[i] = Content(i)
  <2>1. CASE i = k + 1
    BY <1>2, <1>4, <2>1
  <2>2. CASE i # k + 1
    <3>1. i \in 1 .. k
      BY <2>2
    <3>2. QED
      BY <1>3, <1>4, <3>1
  <2>3. QED
    BY <2>1, <2>2
<1>6. QED
  BY <1>4, <1>5 DEF HandedOn

(* What is left of the receive starts behind packet k.                       *)
LeftFrom(k) ==
  /\ pc = "read" /\ remain \in Nat \ {0} /\ received = End[k] + remain
  /\ \E r, s, h, q : io = Io("RECV", Run(End[k], remain), r, s, h, q)

(* After a packet is handed on the rest is the beginning of the next one,    *)
LEMMA SomethingLeft ==
  ASSUME NEW k \in Nat, k < Len(Size), HandedOn(k + 1)', received <= Total, received' = received,
         LeftFrom(k + 1)'
  PROVE  Framed'
<1>1. /\ k + 1 \in 0 .. Len(Size) /\ Len(Size) \in Nat /\ Total = End[Len(Size)]
      /\ End[k + 1] \in Nat
  BY EndMonotone DEF Total
<1>2. k + 1 < Len(Size)
  <2>1. SUFFICES ASSUME k + 1 = Len(Size) PROVE FALSE
    BY <1>1
  <2>2. QED
    BY <1>1, <2>1 DEF LeftFrom
<1>3. PICK r, s, h, q : io' = Io("RECV", Run(End[k + 1], remain'), r, s, h, q)
  BY DEF LeftFrom
<1>4. io'.recvByte = r /\ io'.bodySize = s /\ io'.head = h /\ io'.recvBuffer = q
  BY <1>3 DEF Io
<1>5. Reads(k + 1)'
  BY <1>2, <1>3, <1>4 DEF Reads, LeftFrom
<1>6. QED
  BY <1>1, <1>5 DEF Framed, Stage

(* or there is no rest and nothing is kept.                                  *)
LEMMA NothingLeft ==
  ASSUME NEW k \in Nat, k < Len(Size), HandedOn(k + 1)', received <= Total, received' = received,
         received = End[k + 1], io' = Recv(<<>>), pc' = "wait"
  PROVE  Framed'
<1>1. k + 1 \in 0 .. Len(Size) /\ Len(Size) \in Nat
  BY EndMonotone
<1>2. Idle(k + 1)'
  BY DEF Idle
<1>3. QED
  BY <1>1, <1>2 DEF Framed, Stage

(* PacketReading finds the end of packet k + 1, m bytes before the end of    *)
(* the receive.                                                              *)
Completes(k, y, m) ==
  /\ Read(io, remain) = [io |-> y, ret |-> m]
  /\ received = End[k + 1] + m
  /\ DataCopy(y) = Content(k + 1)
  /\ m > 0 => \E r, s, h, q : y = Io("RECV", Run(End[k + 1], m), r, s, h, q)

(* A round that completes a packet hands it on.                              *)
LEMMA CompletesRound ==
  ASSUME NEW k \in Nat, k < Len(Size), HandedOn(k), received <= Total, PacketReading,
         NEW y, NEW m \in Nat, Completes(k, y, m)
  PROVE  Framed'
<1>1. /\ received' = received /\ delivered' = Append(delivered, Content(k + 1))
      /\ m > 0 => io' = y /\ remain' = m /\ pc' = "read"
      /\ m = 0 => io' = Recv(<<>>) /\ pc' = "wait"
  BY ReadOutcome DEF Completes
<1>2. HandedOn(k + 1)'
  BY <1>1, HandsOn
<1>3. received = End[k + 1] + m /\ End[k + 1] \in Nat
  BY EndMonotone DEF Completes
<1>4. CASE m > 0
  <2>1. \E r, s, h, q : y = Io("RECV", Run(End[k + 1], m), r, s, h, q)
    BY <1>4 DEF Completes
  <2>2. LeftFrom(k + 1)'
    BY <1>1, <1>3, <1>4, <2>1 DEF LeftFrom
  <2>3. QED
    BY <1>1, <1>2, <2>2, SomethingLeft
<1>5. CASE m = 0
  <2>1. received = End[k + 1]
    BY <1>3, <1>5
  <2>2. QED
    BY <1>1, <1>2, <1>5, <2>1, NothingLeft
<1>6. QED
  BY <1>4, <1>5

(* A receive that starts with a packet.                                      *)
LEMMA ReadsRound ==
  ASSUME NEW k \in 0 .. Len(Size), HandedOn(k), Reads(k), received <= Total
  PROVE  ~LosesFraming(io, remain) /\ (PacketReading => Framed')
<1>1. /\ k \in Nat /\ k < Len(Size) /\ k + 1 \in Packets /\ k + 1 \in 0 .. Len(Size) /\ (k + 1) - 1 = k
      /\ End[k] \in Nat /\ End[k + 1] \in Nat /\ Size[k + 1] \in Nat /\ Size[k + 1] >= 3
      /\ End[k + 1] = End[k] + Size[k + 1]
  BY EndMonotone, EndDef DEF Reads
<1>2. PICK a \in Nat, body \in Nat : a = End[k] /\ body = Size[k + 1] /\ body >= 3 /\ End[k + 1] = a + body
  BY <1>1
<1>3. PICK n \in Nat : n = remain /\ n > 0 /\ received = a + n
  BY <1>2 DEF Reads
<1>4. PICK r, s, h, q : io = Io("RECV", Run(a, n), r, s, h, q)
  BY <1>2, <1>3 DEF Reads
<1>5. io.mode = "RECV" /\ io.buffer = Run(a, n)
  BY <1>4, IoFields
<1>6. CASE n = 1
  <2>1. ~(n >= HeaderSize)
    BY <1>6 DEF HeaderSize
  <2>2. ~LosesFraming(io, remain)
    BY <1>3, <1>5, <2>1 DEF LosesFraming, ReadsHeader, CopiesBackwards
  <2>3. ASSUME PacketReading PROVE Framed'
    <3>1. Read(io, remain) = HalfHeader(io)
      BY <1>3, <1>5, <2>1 DEF Read
    <3>2. PICK u : u = Run(a, n)
      OBVIOUS
    <3>3. io = Io("RECV", u, r, s, h, q)
      BY <1>4, <3>2
    <3>4. u[1] = a + 1
      <4>1. 1 \in 1 .. n
        BY <1>6
      <4>2. QED
        BY <3>2, <4>1, RunFacts
    <3>5. PICK y : y = Io("RECV", u, 1, s, a + 1, q)
      OBVIOUS
    <3>6. HalfHeader(io) = [io |-> y, ret |-> -1]
      BY <3>3, <3>4, <3>5, ReadHalf
    <3>7. delivered' = delivered /\ io' = RecvMore(y) /\ pc' = "wait" /\ received' = received
      BY <2>3, <3>1, <3>6, ReadOutcome
    <3>8. io' = Io("RECV_MORE", <<>>, 1, s, a + 1, q)
      BY <3>5, <3>7, AskForMore
    <3>9. io'.bodySize = s /\ io'.recvBuffer = q
      BY <3>8 DEF Io
    <3>10. HasHalf(k)'
      BY <1>1, <1>2, <1>3, <1>6, <3>7, <3>8, <3>9 DEF HasHalf
    <3>11. HandedOn(k)'
      BY <3>7 DEF HandedOn
    <3>12. QED
      BY <3>7, <3>10, <3>11 DEF Framed, Stage
  <2>4. QED
    BY <2>2, <2>3
<1>7. CASE n >= 2
  <2>1. n >= HeaderSize
    BY <1>7 DEF HeaderSize
  <2>2. Header(io) = {k + 1} /\ (CHOOSE i \in Header(io) : TRUE) = k + 1
    <3>1. 1 \in 1 .. n /\ 2 \in 1 .. n
      BY <1>7
    <3>2. Run(a, n)[1] = a + 1 /\ Run(a, n)[2] = a + 2
      BY <3>1, RunFacts
    <3>3. PICK b1 \in Nat, b2 \in Nat : b1 = a + 1 /\ b2 = b1 + 1
      OBVIOUS
    <3>4. Header(io) = HeaderOf(b1, b2)
      BY <1>5, <3>2, <3>3 DEF Header
    <3>5. HeaderOf(b1, b2) = {k + 1} /\ (CHOOSE i \in HeaderOf(b1, b2) : TRUE) = k + 1
      <4>1. b1 = End[k] + 1
        BY <1>2, <3>3
      <4>2. QED
        BY <1>1, <3>3, <4>1, HeaderIs
    <3>6. QED
      BY <3>4, <3>5
  <2>3. ~LosesFraming(io, remain)
    BY <1>5, <2>2 DEF LosesFraming, CopiesBackwards
  <2>4. Read(io, remain) = FirstPart(io, n, body)
    BY <1>2, <1>3, <1>5, <2>1, <2>2 DEF Read
  <2>5. PICK u, f, w, g : /\ u = Run(a, n) /\ f = Copied(u, 0, body)
                          /\ w = Copied(u, body, n - body) /\ g = Copied(u, 0, n)
    OBVIOUS
  <2>6. FirstPart(io, n, body)
          = IF n >= body
            THEN [io |-> Io("RECV", w, r, body, h, f), ret |-> n - body]
            ELSE [io |-> Io("RECV", u, n, body, h, g), ret |-> n - body]
    BY <1>4, <2>5, ReadFirstPart
  <2>7. ASSUME PacketReading, n < body PROVE Framed'
    <3>1. g = u
      <4>1. 0 + n <= n /\ a = a + 0
        OBVIOUS
      <4>2. PICK z \in Nat : z = 0 /\ z + n <= n /\ a = a + z
        BY <4>1
      <4>3. Copied(Run(a, n), z, n) = Run(a, n)
        BY <4>2, CopiedRun
      <4>4. QED
        BY <2>5, <4>2, <4>3
    <3>2. PICK m \in Int : m = n - body /\ m < 0
      BY <2>7
    <3>10. PICK y : y = Io("RECV", u, n, body, h, u)
      OBVIOUS
    <3>3. Read(io, remain) = [io |-> y, ret |-> m]
      <4>1. ~(n >= body)
        BY <2>7
      <4>2. FirstPart(io, n, body) = [io |-> Io("RECV", u, n, body, h, g), ret |-> n - body]
        BY <2>6, <4>1, Zenon
      <4>3. QED
        BY <2>4, <3>1, <3>2, <3>10, <4>2, Zenon
    <3>4. delivered' = delivered /\ io' = RecvMore(y) /\ pc' = "wait" /\ received' = received
      BY <2>7, <3>2, <3>3, ReadOutcome
    <3>5. io' = Io("RECV_MORE", <<>>, n, body, h, u)
      BY <3>10, <3>4, AskForMore
    <3>6. io'.recvByte = n /\ io'.head = h
      BY <3>5 DEF Io
    <3>7. HasPart(k)'
      BY <1>1, <1>2, <1>3, <1>7, <2>5, <2>7, <3>4, <3>5, <3>6 DEF HasPart
    <3>8. HandedOn(k)'
      BY <3>4 DEF HandedOn
    <3>9. QED
      BY <3>4, <3>7, <3>8 DEF Framed, Stage
  <2>8. ASSUME PacketReading, n >= body PROVE Framed'
    <3>1. PICK m \in Nat : m = n - body /\ n = body + m
      <4>1. n - body \in Nat /\ n = body + (n - body)
        BY <2>8
      <4>2. QED
        BY <4>1
    <3>2. PICK b \in Nat : b = a + body
      OBVIOUS
    <3>3. f = Run(a, body)
      <4>1. 0 + body <= n /\ a = a + 0
        BY <2>8
      <4>2. PICK z \in Nat : z = 0 /\ z + body <= n /\ a = a + z
        BY <4>1
      <4>3. Copied(Run(a, n), z, body) = Run(a, body)
        BY <4>2, CopiedRun
      <4>4. QED
        BY <2>5, <4>2, <4>3
    <3>4. w = Run(b, m)
      <4>1. body + m <= n
        BY <3>1
      <4>2. Copied(Run(a, n), body, m) = Run(b, m)
        BY <3>2, <4>1, CopiedRun
      <4>3. QED
        BY <2>5, <3>1, <4>2
    <3>5. PICK y : y = Io("RECV", w, r, body, h, f)
      OBVIOUS
    <3>6. Read(io, remain) = [io |-> y, ret |-> m]
      BY <2>4, <2>6, <2>8, <3>1, <3>5
    <3>7. PICK c \in Nat, l \in Nat : c = a + 2 /\ body = 2 + l
      <4>1. body - 2 \in Nat /\ body = 2 + (body - 2)
        BY <1>2
      <4>2. QED
        BY <4>1
    <3>8. DataCopy(y) = Run(c, l)
      <4>1. DataCopy(y) = SubSeq(f, 3, body)
        BY <3>5, CopyIs
      <4>2. SubSeq(Run(a, body), 3, body) = Run(c, l)
        BY <3>7, ContentOfRun
      <4>3. QED
        BY <3>3, <4>1, <4>2
    <3>9. Content(k + 1) = Run(c, l)
      <4>1. c = End[k] + 2 /\ Size[k + 1] = 2 + l
        BY <1>2, <3>7, Zenon
      <4>2. QED
        BY <1>1, <4>1, ContentIs
    <3>10. received = b + m /\ b = End[k + 1]
      <4>1. a + (body + m) = (a + body) + m
        OBVIOUS
      <4>2. QED
        BY <1>2, <1>3, <3>1, <3>2, <4>1, Zenon
    <3>11. \E r1, s1, h1, q1 : y = Io("RECV", Run(b, m), r1, s1, h1, q1)
      BY <3>4, <3>5
    <3>12. Completes(k, y, m)
      <4>1. DataCopy(y) = Content(k + 1)
        BY <3>8, <3>9
      <4>2. received = End[k + 1] + m /\ \E r1, s1, h1, q1 : y = Io("RECV", Run(End[k + 1], m), r1, s1, h1, q1)
        BY <3>10, <3>11
      <4>3. QED
        BY <3>6, <4>1, <4>2, Zenon DEF Completes
    <3>13. QED
      BY <1>1, <2>8, <3>12, CompletesRound
  <2>9. QED
    BY <2>3, <2>7, <2>8
<1>8. QED
  BY <1>3, <1>6, <1>7

(* A receive that starts behind the first byte of a packet.                  *)
LEMMA ReadsHalfRound ==
  ASSUME NEW k \in 0 .. Len(Size), HandedOn(k), ReadsHalf(k), received <= Total
  PROVE  ~LosesFraming(io, remain) /\ (PacketReading => Framed')
<1>1. /\ k \in Nat /\ k < Len(Size) /\ k + 1 \in Packets /\ k + 1 \in 0 .. Len(Size) /\ (k + 1) - 1 = k
      /\ End[k] \in Nat /\ End[k + 1] \in Nat /\ Size[k + 1] \in Nat /\ Size[k + 1] >= 3
      /\ End[k + 1] = End[k] + Size[k + 1]
  BY EndMonotone, EndDef DEF ReadsHalf
<1>2. PICK a \in Nat, body \in Nat : a = End[k] /\ body = Size[k + 1] /\ body >= 3 /\ End[k + 1] = a + body
  BY <1>1
<1>3. PICK n \in Nat : n = remain /\ n > 0 /\ received = (a + 1) + n
  BY <1>2 DEF ReadsHalf
<1>4. PICK a1 \in Nat : a1 = a + 1
  OBVIOUS
<1>5. PICK s, q : io = Io("RECV_MORE", Run(a1, n), 1, s, a1, q)
  BY <1>2, <1>3, <1>4 DEF ReadsHalf
<1>6. io.mode = "RECV_MORE" /\ io.buffer = Run(a1, n) /\ io.head = a1 /\ io.recvByte = 1
  BY <1>5, IoFields
<1>7. n > body \/ n = body - 1
  BY <1>2, <1>3, <1>6 DEF ReadsHalf, SafeRest
<1>8. Header(io) = {k + 1} /\ (CHOOSE i \in Header(io) : TRUE) = k + 1
  <2>1. 1 \in 1 .. n
    BY <1>3
  <2>2. Run(a1, n)[1] = a1 + 1
    BY <2>1, RunFacts
  <2>3. PICK b2 \in Nat : b2 = a1 + 1
    OBVIOUS
  <2>4. Header(io) = HeaderOf(a1, b2)
    BY <1>6, <2>2, <2>3 DEF Header
  <2>5. a1 = End[k] + 1
    BY <1>2, <1>4
  <2>6. HeaderOf(a1, b2) = {k + 1} /\ (CHOOSE i \in HeaderOf(a1, b2) : TRUE) = k + 1
    BY <1>1, <2>3, <2>5, HeaderIs
  <2>7. QED
    BY <2>4, <2>6
<1>9. io.recvByte < HeaderSize
  BY <1>6 DEF HeaderSize
<1>10. ~LosesFraming(io, remain)
  BY <1>6, <1>8, <1>9 DEF LosesFraming, CopiesBackwards, HeaderSize
<1>11. Read(io, remain) = RestOfHeader(io, n, body)
  BY <1>2, <1>3, <1>6, <1>8, <1>9 DEF Read
<1>12. PICK u, v, w : /\ u = Run(a1, n) /\ v = AfterHalf(a1, u, body)
                      /\ w = Copied(u, body - 1, n - (body - 1))
  OBVIOUS
<1>13. RestOfHeader(io, n, body)
         = IF n > body
           THEN [io |-> Io("RECV", w, 1, body, a1, v), ret |-> n - (body - 1)]
           ELSE [io |-> Io("RECV", u, 1, body, a1, v), ret |-> 0]
  <2>1. io = Io("RECV_MORE", u, 1, s, a1, q)
    BY <1>5, <1>12
  <2>2. RestOfHeader(Io("RECV_MORE", u, 1, s, a1, q), n, body)
          = IF n > body
            THEN [io  |-> Io("RECV", Copied(u, body - 1, n - (body - 1)), 1, body, a1,
                             AfterHalf(a1, u, body)),
                  ret |-> n - (body - 1)]
            ELSE [io  |-> Io("RECV", u, 1, body, a1, AfterHalf(a1, u, body)), ret |-> 0]
    BY ReadRestOfHeader
  <2>3. QED
    BY <1>12, <2>1, <2>2, Zenon
<1>14. PICK m \in Nat : m = n - (body - 1) /\ n + 1 = body + m
  <2>1. n - (body - 1) \in Nat /\ n + 1 = body + (n - (body - 1))
    BY <1>2, <1>7
  <2>2. QED
    BY <2>1
<1>15. PICK b \in Nat : b = a + body
  OBVIOUS
<1>16. w = Run(b, m)
  <2>1. body - 1 \in Nat /\ (body - 1) + m <= n /\ b = a1 + (body - 1)
    <3>1. body >= 3 /\ a1 = a + 1 /\ n + 1 = body + m /\ b = a + body
      BY <1>2, <1>4, <1>14, <1>15
    <3>2. QED
      BY <3>1
  <2>2. PICK d \in Nat : d = body - 1 /\ d + m <= n /\ b = a1 + d
    BY <2>1
  <2>3. Copied(Run(a1, n), d, m) = Run(b, m)
    BY <2>2, CopiedRun
  <2>4. QED
    BY <1>12, <1>14, <2>2, <2>3, Zenon
<1>17. PICK c \in Nat, l \in Nat : c = a + 2 /\ body = 2 + l
  <2>1. body - 2 \in Nat /\ body = 2 + (body - 2)
    BY <1>2
  <2>2. QED
    BY <2>1
<1>18. SubSeq(v, 3, body) = Content(k + 1)
  <2>1. n + 1 >= body
    BY <1>7
  <2>2. SubSeq(v, 3, body) = Run(c, l)
    <3>1. body >= 3 /\ n + 1 >= body /\ c = a + 2 /\ body = 2 + l /\ a1 = a + 1
      BY <1>2, <1>4, <1>17, <2>1
    <3>2. v = AfterHalf(a1, Run(a1, n), body)
      BY <1>12
    <3>3. QED
      BY <3>1, <3>2, ContentAfterHalf
  <2>3. c = End[k] + 2 /\ Size[k + 1] = 2 + l
    BY <1>2, <1>17, Zenon
  <2>4. Content(k + 1) = Run(c, l)
    BY <1>1, <2>3, ContentIs
  <2>5. QED
    BY <2>2, <2>4, Zenon
<1>19. received = b + m /\ b = End[k + 1]
  <2>1. (a + 1) + n = (a + body) + m
    BY <1>14
  <2>2. QED
    BY <1>2, <1>3, <1>15, <2>1, Zenon
<1>20. \E y : Completes(k, y, m)
  <2>1. CASE n > body
    <3>1. PICK y : y = Io("RECV", w, 1, body, a1, v)
      OBVIOUS
    <3>2. Read(io, remain) = [io |-> y, ret |-> m]
      BY <1>11, <1>13, <1>14, <2>1, <3>1, Zenon
    <3>3. DataCopy(y) = Content(k + 1)
      <4>1. DataCopy(y) = SubSeq(v, 3, body)
        BY <3>1, CopyIs
      <4>2. QED
        BY <1>18, <4>1
    <3>4. received = End[k + 1] + m /\ \E r1, s1, h1, q1 : y = Io("RECV", Run(End[k + 1], m), r1, s1, h1, q1)
      BY <1>16, <1>19, <3>1
    <3>5. QED
      BY <3>2, <3>3, <3>4, Zenon DEF Completes
  <2>2. CASE n = body - 1
    <3>1. PICK y : y = Io("RECV", u, 1, body, a1, v)
      OBVIOUS
    <3>2. ~(n > body) /\ m = 0 /\ ~(m > 0)
      BY <1>14, <2>2
    <3>3. Read(io, remain) = [io |-> y, ret |-> m]
      BY <1>11, <1>13, <3>1, <3>2, Zenon
    <3>4. DataCopy(y) = Content(k + 1)
      <4>1. DataCopy(y) = SubSeq(v, 3, body)
        BY <3>1, CopyIs
      <4>2. QED
        BY <1>18, <4>1
    <3>5. received = End[k + 1] + m
      BY <1>19
    <3>6. QED
      BY <3>2, <3>3, <3>4, <3>5, Zenon DEF Completes
  <2>3. QED
    BY <1>7, <2>1, <2>2
<1>21. PacketReading => Framed'
  <2>1. PICK y : Completes(k, y, m)
    BY <1>20
  <2>2. QED
    BY <1>1, <2>1, CompletesRound
<1>22. QED
  BY <1>10, <1>21

(* A receive that starts behind p bytes of a packet.                         *)
LEMMA ReadsPartRound ==
  ASSUME NEW k \in 0 .. Len(Size), HandedOn(k), ReadsPart(k), received <= Total
  PROVE  ~LosesFraming(io, remain) /\ (PacketReading => Framed')
<1>1. /\ k \in Nat /\ k < Len(Size) /\ k + 1 \in Packets /\ k + 1 \in 0 .. Len(Size) /\ (k + 1) - 1 = k
      /\ End[k] \in Nat /\ End[k + 1] \in Nat /\ Size[k + 1] \in Nat /\ Size[k + 1] >= 3
      /\ End[k + 1] = End[k] + Size[k + 1]
  BY EndMonotone, EndDef DEF ReadsPart
<1>2. PICK a \in Nat, body \in Nat : a = End[k] /\ body = Size[k + 1] /\ body >= 3 /\ End[k + 1] = a + body
  BY <1>1
<1>3. PICK n \in Nat, p \in Nat : /\ n = remain /\ n > 0 /\ p = io.recvByte /\ 2 <= p /\ p < body
                                  /\ received = (a + p) + n
  BY <1>2 DEF ReadsPart
<1>4. PICK c \in Nat : c = a + p
  OBVIOUS
<1>5. PICK h : io = Io("RECV_MORE", Run(c, n), p, body, h, Run(a, p))
  BY <1>2, <1>3, <1>4 DEF ReadsPart
<1>6. io.mode = "RECV_MORE" /\ io.buffer = Run(c, n) /\ io.bodySize = body /\ io.recvByte = p
  BY <1>5, IoFields
<1>7. n > body \/ (n = p /\ n + p = body)
  BY <1>2, <1>3, <1>6 DEF ReadsPart, SafeRest
<1>8. ~(io.recvByte < HeaderSize) /\ io.mode # "RECV"
  BY <1>3, <1>6 DEF HeaderSize
<1>9. ~LosesFraming(io, remain)
  <2>1. ~(n < body /\ n < HeaderSize)
    BY <1>3, <1>7 DEF HeaderSize
  <2>2. QED
    BY <1>3, <1>6, <1>8, <2>1 DEF LosesFraming, ReadsHeader, CopiesBackwards
<1>10. Read(io, remain) = RestOfBody(io, n)
  BY <1>3, <1>8 DEF Read
<1>11. PICK u, t : u = Run(c, n) /\ t = Run(a, p)
  OBVIOUS
<1>12. PICK v, w, e : /\ v = AfterPart(t, p, u, body - p) /\ e = Shifted(u, n)
                      /\ w = Copied(u, body - p, n - (body - p))
  OBVIOUS
<1>13. RestOfBody(io, n)
         = IF n > body
           THEN [io |-> Io("RECV", w, p, body, h, v), ret |-> n - (body - p)]
           ELSE IF n = body
           THEN [io |-> Io("RECV", u, p, body, h, v), ret |-> 0]
           ELSE [io |-> Io("RECV", e, n, body, h, v), ret |-> n - (body - n)]
  <2>1. io = Io("RECV_MORE", u, p, body, h, t)
    BY <1>5, <1>11
  <2>2. RestOfBody(Io("RECV_MORE", u, p, body, h, t), n)
          = IF n > body
            THEN [io  |-> Io("RECV", Copied(u, body - p, n - (body - p)), p, body, h,
                             AfterPart(t, p, u, body - p)),
                  ret |-> n - (body - p)]
            ELSE IF n = body
            THEN [io  |-> Io("RECV", u, p, body, h, AfterPart(t, p, u, body - p)), ret |-> 0]
            ELSE [io  |-> Io("RECV", Shifted(u, n), n, body, h, AfterPart(t, p, u, body - p)),
                  ret |-> n - (body - n)]
    BY ReadRestOfBody
  <2>3. QED
    BY <1>12, <2>1, <2>2, Zenon
<1>14. PICK d \in Nat : d = body - p /\ body = p + d /\ d <= n
  <2>1. p \in Nat /\ p < body /\ (n > body \/ n + p = body)
    BY <1>3, <1>7
  <2>2. body - p \in Nat /\ body = p + (body - p) /\ body - p <= n
    BY <2>1
  <2>3. QED
    BY <2>2
<1>15. PICK m \in Nat : m = n - d /\ n = d + m
  <2>1. n - d \in Nat /\ n = d + (n - d)
    BY <1>14
  <2>2. QED
    BY <2>1
<1>16. PICK b \in Nat : b = a + body /\ b = c + d
  <2>1. a + body = c + d
    BY <1>4, <1>14
  <2>2. QED
    BY <2>1
<1>17. v = Run(a, body)
  <2>1. c = a + p /\ body = p + d /\ d <= n
    BY <1>4, <1>14
  <2>2. AfterPart(Run(a, p), p, Run(c, n), d) = Run(a, body)
    BY <2>1, PartAndRest
  <2>3. QED
    BY <1>11, <1>12, <1>14, <2>2, Zenon
<1>18. w = Run(b, m)
  <2>1. d + m <= n /\ b = c + d
    BY <1>15, <1>16
  <2>2. Copied(Run(c, n), d, m) = Run(b, m)
    BY <2>1, CopiedRun
  <2>3. QED
    BY <1>11, <1>12, <1>14, <1>15, <2>2, Zenon
<1>19. SubSeq(v, 3, body) = Content(k + 1)
  <2>1. PICK f \in Nat, l \in Nat : f = a + 2 /\ body = 2 + l
    <3>1. body - 2 \in Nat /\ body = 2 + (body - 2)
      BY <1>2
    <3>2. QED
      BY <3>1
  <2>2. SubSeq(Run(a, body), 3, body) = Run(f, l)
    BY <2>1, ContentOfRun
  <2>3. f = End[k] + 2 /\ Size[k + 1] = 2 + l
    BY <1>2, <2>1, Zenon
  <2>4. Content(k + 1) = Run(f, l)
    BY <1>1, <2>3, ContentIs
  <2>5. QED
    BY <1>17, <2>2, <2>4, Zenon
<1>20. received = b + m /\ b = End[k + 1]
  <2>1. (a + p) + n = (a + body) + m
    BY <1>14, <1>15
  <2>2. QED
    BY <1>2, <1>3, <1>16, <2>1, Zenon
<1>21. \E y : Completes(k, y, m)
  <2>1. CASE n > body
    <3>1. PICK y : y = Io("RECV", w, p, body, h, v)
      OBVIOUS
    <3>2. Read(io, remain) = [io |-> y, ret |-> m]
      BY <1>10, <1>13, <1>14, <1>15, <2>1, <3>1, Zenon
    <3>3. DataCopy(y) = Content(k + 1)
      <4>1. DataCopy(y) = SubSeq(v, 3, body)
        BY <3>1, CopyIs
      <4>2. QED
        BY <1>19, <4>1
    <3>4. received = End[k + 1] + m /\ \E r1, s1, h1, q1 : y = Io("RECV", Run(End[k + 1], m), r1, s1, h1, q1)
      BY <1>18, <1>20, <3>1
    <3>5. QED
      BY <3>2, <3>3, <3>4, Zenon DEF Completes
  <2>2. CASE n = p /\ n + p = body
    <3>1. PICK y : y = Io("RECV", e, n, body, h, v)
      OBVIOUS
    <3>2. ~(n > body) /\ n # body /\ n - (body - n) = m /\ ~(m > 0)
      <4>1. p >= 2 /\ n = p /\ n + p = body /\ d = body - p /\ m = n - d
        BY <1>3, <1>14, <1>15, <2>2, Zenon
      <4>2. QED
        BY <4>1
    <3>3. Read(io, remain) = [io |-> y, ret |-> m]
      BY <1>10, <1>13, <3>1, <3>2, Zenon
    <3>4. DataCopy(y) = Content(k + 1)
      <4>1. DataCopy(y) = SubSeq(v, 3, body)
        BY <3>1, CopyIs
      <4>2. QED
        BY <1>19, <4>1
    <3>5. received = End[k + 1] + m
      BY <1>20
    <3>6. QED
      BY <3>2, <3>3, <3>4, <3>5, Zenon DEF Completes
  <2>3. QED
    BY <1>7, <2>1, <2>2
<1>22. PacketReading => Framed'
  <2>1. PICK y : Completes(k, y, m)
    BY <1>21
  <2>2. QED
    BY <1>1, <2>1, CompletesRound
<1>23. QED
  BY <1>9, <1>22

-----------------------------------------------------------------------------
(* The theorem.                                                              *)

(* Every round of the loop keeps the framing.                                *)
LEMMA RoundFrames ==
  ASSUME Framed
  PROVE  ~LoseFraming /\ (PacketReading => Framed')
<1>1. PICK k \in 0 .. Len(Size) : HandedOn(k) /\ Stage(k) /\ received <= Total
  BY DEF Framed
<1>2. CASE Idle(k) \/ HasHalf(k) \/ HasPart(k)
  BY <1>2 DEF Idle, HasHalf, HasPart, LoseFraming, PacketReading
<1>3. CASE Reads(k)
  <2>1. ~LosesFraming(io, remain) /\ (PacketReading => Framed')
    BY <1>1, <1>3, ReadsRound
  <2>2. QED
    BY <2>1 DEF LoseFraming
<1>4. CASE ReadsHalf(k)
  <2>1. ~LosesFraming(io, remain) /\ (PacketReading => Framed')
    BY <1>1, <1>4, ReadsHalfRound
  <2>2. QED
    BY <2>1 DEF LoseFraming
<1>5. CASE ReadsPart(k)
  <2>1. ~LosesFraming(io, remain) /\ (PacketReading => Framed')
    BY <1>1, <1>5, ReadsPartRound
  <2>2. QED
    BY <2>1 DEF LoseFraming
<1>6. QED
  BY <1>1, <1>2, <1>3, <1>4, <1>5 DEF Stage

(* Every step keeps the invariant.                                           *)
LEMMA FramingNext == FramingInv /\ [Next]_vars => FramingInv'
<1> SUFFICES ASSUME FramingInv, [Next]_vars PROVE FramingInv'
  OBVIOUS
<1>1. CASE unsafe
  <2>1. unsafe'
    BY <1>1 DEF Next, Completion, PacketReading, LoseFraming, Finished, vars
  <2>2. QED
    BY <2>1 DEF FramingInv
<1>2. CASE Framed /\ ~unsafe
  <2>1. ASSUME NEW n \in 1 .. BufSize, Completion(n) PROVE FramingInv'
    <3>1. n \in Nat /\ n >= 1
      BY SizeAssumption
    <3>2. QED
      BY <1>2, <2>1, <3>1, CompletionFrames
  <2>2. ASSUME PacketReading PROVE FramingInv'
    BY <1>2, <2>2, RoundFrames DEF FramingInv
  <2>3. ASSUME LoseFraming PROVE FALSE
    BY <1>2, <2>3, RoundFrames
  <2>4. ASSUME UNCHANGED vars PROVE FramingInv'
    BY <1>2, <2>4 DEF vars, FramingInv, Framed, Stage, HandedOn, Idle, HasHalf, HasPart, Reads,
      ReadsHalf, ReadsPart
  <2>5. QED
    BY <2>1, <2>2, <2>3, <2>4 DEF Next, Finished
<1>3. QED
  BY <1>1, <1>2 DEF FramingInv

(* However receives coalesce and split packets, as long as the resumed ones  *)
(* are safe, PacketReading hands on every packet that has arrived, whole and *)
(* in order, and no other.                                                   *)
THEOREM FramingKept == Spec => []SafeSplitsKeepFraming
<1>1. Spec => []FramingInv
  BY FramingInit, FramingNext, PTL DEF Spec
<1>2. QED
  BY <1>1, FramingSuffices, PTL
=============================================================================
