------------------------------- MODULE MCWait -------------------------------
(***************************************************************************)
(* Two tasks that share the root (head 0) and the CD of level 1 (head 1);  *)
(* at level 2 each is alone in a CD.                                       *)
(***************************************************************************)
EXTENDS Wait

MCTask == {0, 1}
MCCd == {"root", "a", "p", "q"}
MCMember ==
  [c \in MCCd |-> CASE c = "p" -> {0} [] c = "q" -> {1} [] OTHER -> MCTask]
MCLevel == [c \in MCCd |-> CASE c = "root" -> 0 [] c = "a" -> 1 [] OTHER -> 2]
MCHead ==
  [c \in MCCd |-> TaskInColor(MCMember[c], SelectHead(MCLevel[c], Cardinality(MCMember[c])))]
MCMoves == [t \in MCTask |-> IF t = 0 THEN 4 ELSE 2]
=============================================================================
