------------------------- MODULE MCBusinessService -------------------------
(***************************************************************************)
(* An instance of BusinessService for TLC.  The texts a1 and a1_and_more    *)
(* log in to one account, whose id is a1; the second is too long for a      *)
(* session, and so is the room name r2.  Room names and nicknames share one *)
(* space of strings: FriendGo looks a nickname up among the rooms.          *)
(***************************************************************************)
EXTENDS BusinessService, TLC

CONSTANTS a1, a1_and_more, r2
MCAccount == [i \in Ids |-> a1]
MCNickName == [a \in {a1} |-> a1]

(* Bounds.  A connection overlaps once: when two of its handlers have met,   *)
(* no further one is started for it and its handle is not given out again;   *)
(* the two go on, and so do those of others.  Some connection does not       *)
(* overlap, the one the properties speak of.  And the long room is there     *)
(* only while no connection has overlapped and nobody has the long text.     *)
Handlers(s) == {t \in Threads : pc[t] \notin {"idle", "banCopy"} /\ loc[t].sock = s}
OverlapsOnce ==
  /\ \A s \in overlapped : Handlers(s)' \subseteq Handlers(s) /\ (s \in open' => s \in open)
  /\ overlapped' # Sockets
LongNamesApart == r2 \in rooms' => a1_and_more \notin idSet' /\ overlapped' = {}

Symmetry == Permutations(Sockets) \cup Permutations(Workers)
=============================================================================
