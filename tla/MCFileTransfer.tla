--------------------------- MODULE MCFileTransfer ---------------------------
(***************************************************************************)
(* Two members send files of the same name and of different lengths.        *)
(***************************************************************************)
EXTENDS FileTransfer, TLC

CONSTANTS c1, c2, report
MCFileName == [c \in Clients |-> report]
Symmetry == Permutations(Workers)
MCSize == [c \in Clients |-> IF c = c1 THEN 2 ELSE 1]

(* Bounds: datagrams on their way to the members at one time, two, and one   *)
(* once the transfers to the server have been disturbed.  Nothing is learnt  *)
(* of the members after a crash of the server.                               *)
FewOut ==
  /\ process = "up"
  /\ Len(out[c1]) + Len(out[c2]) <= (IF disturbed THEN 1 ELSE 2)
=============================================================================
