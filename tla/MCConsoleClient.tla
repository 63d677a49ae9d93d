-------------------------- MODULE MCConsoleClient --------------------------
(***************************************************************************)
(* A user who types any of the lines that the menus tell apart (4 and 5 are *)
(* queries as 1 is, 9 is not answered, 10 clears the screen), and two       *)
(* WorkThreads.                                                             *)
(***************************************************************************)
EXTENDS ConsoleClient

MCLines == {0, 1, 2, 3, 6, 7, 8, Out, Clear, Good, SendFile, Text}

(* Bound: states in which handlers have overlapped are expanded while the    *)
(* client has sent so many packets.                                          *)
MaxSentOverlapped == 2
FewAfterOverlap == overlapped => sent <= MaxSentOverlapped
=============================================================================
