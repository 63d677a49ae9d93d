----------------------------- MODULE Allocator -----------------------------
(***************************************************************************)
(* What a block pool promises its users: Malloc hands out a block nobody    *)
(* has, the block may pass from one user to another, and Free takes it      *)
(* back.  MemPool, the server's pools step by step, implements it, and      *)
(* IocpLifecycle relies on it: its Mallocs and Frees are single steps.      *)
(***************************************************************************)
CONSTANTS
  User,     \* who may have blocks
  Block     \* all blocks there may ever be

VARIABLE owned   \* the blocks each user has

Free == Block \ UNION {owned[u] : u \in User}

Init == owned = [u \in User |-> {}]

Malloc(u, b) ==
  /\ b \in Free
  /\ owned' = [owned EXCEPT ![u] = @ \cup {b}]

Pass(u, v, b) ==
  /\ u # v /\ b \in owned[u]
  /\ owned' = [owned EXCEPT ![u] = @ \ {b}, ![v] = @ \cup {b}]

Release(u, b) ==
  /\ b \in owned[u]
  /\ owned' = [owned EXCEPT ![u] = @ \ {b}]

Next ==
  \E u \in User, b \in Block :
    Malloc(u, b) \/ Release(u, b) \/ \E v \in User : Pass(u, v, b)

Spec == Init /\ [][Next]_owned
=============================================================================
