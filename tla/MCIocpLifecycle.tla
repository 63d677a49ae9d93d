-------------------------- MODULE MCIocpLifecycle --------------------------
(***************************************************************************)
(* Two RecvThreads, one sender and one handle that stands for up to two     *)
(* connections.  The first client sends twice, so that a packet may arrive  *)
(* in two parts.                                                            *)
(***************************************************************************)
EXTENDS IocpLifecycle

MCMaxData == [c \in 1 .. MaxConns |-> IF c = 1 THEN 2 ELSE 0]
=============================================================================
