--------------------------- MODULE MCJobPipeline ---------------------------
(***************************************************************************)
(* Two connections, one of which splits packets, and two threads of either  *)
(* kind.  Each connection sends a file first, so that RecvFile may keep     *)
(* either thread or both; each has another packet after it.                 *)
(***************************************************************************)
EXTENDS JobPipeline, TLC

CONSTANTS c1, c2

MCMaxPacket == (c1 :> 2) @@ (c2 :> 2)
MCFileSends == {<<c1, 1>>, <<c2, 1>>}
=============================================================================
