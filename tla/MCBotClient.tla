---------------------------- MODULE MCBotClient ----------------------------
(***************************************************************************)
(* Two bots; the shares are scaled so that they get two MakeMsgThreads, one *)
(* of which may find the queue empty before it ever had a job, and one      *)
(* SendMsgThread.  A second reply may come while the first is read.         *)
(***************************************************************************)
EXTENDS BotClient

MCMaxReplies == [b \in Bots |-> 1]
=============================================================================
