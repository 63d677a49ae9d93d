----------------------------- MODULE MCMemPool -----------------------------
(***************************************************************************)
(* Two threads and a pool of two blocks: the pool is used up and grows,     *)
(* as the server's does after 50000 blocks.                                 *)
(***************************************************************************)
EXTENDS MemPool
=============================================================================
