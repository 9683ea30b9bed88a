---------------------------- MODULE MCMailboxPair ----------------------------
(***************************************************************************)
(* Two tasks that share both the root (head 0) and the CD of level 1       *)
(* (head 1): long enough for a CD to be destroyed and created again.       *)
(***************************************************************************)
EXTENDS MailboxNotice

MCTask == {0, 1}
MCCd == {"root", "a"}
MCMember == [c \in MCCd |-> MCTask]
MCLevel == [c \in MCCd |-> IF c = "root" THEN 0 ELSE 1]
MCHead == [c \in MCCd |-> TaskInColor(MCTask, SelectHead(MCLevel[c], 2))]
MCMoves == [t \in MCTask |-> 3]
=============================================================================
