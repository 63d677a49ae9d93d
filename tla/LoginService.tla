---------------------------- MODULE LoginService ----------------------------
(***************************************************************************)
(* What the login handlers promise: a connection logs in with a text that   *)
(* nobody else is logged in with, keeps it until it logs out or is thrown   *)
(* out, and only then may log in again.  Texts that handlers of an          *)
(* overlapped connection have used are forsaken: nothing is promised about  *)
(* them any more.                                                           *)
(***************************************************************************)
CONSTANTS
  Connection,
  Login,       \* the texts to log in with
  Nobody       \* a connection that is not logged in

VARIABLES
  user,        \* the text each connection is logged in with
  forsaken     \* the texts without a promise

Init == user = [c \in Connection |-> Nobody] /\ forsaken = {}

Enter(c, a) ==
  /\ user[c] = Nobody
  /\ a \notin forsaken /\ \A d \in Connection : user[d] # a
  /\ user' = [user EXCEPT ![c] = a]
  /\ UNCHANGED forsaken

Leave(c) ==
  /\ user[c] # Nobody
  /\ user' = [user EXCEPT ![c] = Nobody]
  /\ UNCHANGED forsaken

Forsake(A) ==
  /\ forsaken' = forsaken \cup A
  /\ user' = [c \in Connection |-> IF user[c] \in A THEN Nobody ELSE user[c]]

(* The server goes down.                                                     *)
Stop == user' = [c \in Connection |-> Nobody] /\ forsaken' = {}

Next ==
  \/ \E A \in SUBSET Login : Forsake(A)
  \/ \E c \in Connection : Leave(c) \/ \E a \in Login : Enter(c, a)
  \/ Stop

Spec == Init /\ [][Next]_<<user, forsaken>>
=============================================================================
