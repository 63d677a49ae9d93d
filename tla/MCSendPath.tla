----------------------------- MODULE MCSendPath -----------------------------
(***************************************************************************)
(* Instances of SendPath: two producers and two senders of one queue and    *)
(* one of each of the other, so that a notify_one can find several waiting  *)
(* threads or none.                                                         *)
(***************************************************************************)
EXTENDS SendPath
=============================================================================
