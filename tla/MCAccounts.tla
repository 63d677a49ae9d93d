----------------------------- MODULE MCAccounts -----------------------------
(***************************************************************************)
(* Two threads and three ids: a9, a10 and a11 begin with the same 9 bytes   *)
(* and are 9, 10 and 11 bytes long.  a10 and a11 are cut to one id when an  *)
(* account is made, a10 to a9 when it is read back.  So are the passwords   *)
(* p10 and p9; q is another one.                                            *)
(***************************************************************************)
EXTENDS Accounts, FiniteSets, TLC

CONSTANTS a9, a10, a11, p9, p10, q
MCCut10 == [t \in Ids \cup Passwords |-> IF t = a11 THEN a10 ELSE t]
MCCut9 == [t \in Ids \cup Passwords |-> CASE t \in {a9, a10, a11} -> a9 [] t \in {p9, p10} -> p9 [] OTHER -> t]

(* Bounds: accounts that are told to be made, ids and passwords that are let *)
(* in, and friends.                                                          *)
Few ==
  /\ Cardinality(created) <= 2 /\ Cardinality(entered) <= 1 /\ Cardinality(friends) <= 1

Symmetry == Permutations(Callers) \cup Permutations(Nicks)
=============================================================================
