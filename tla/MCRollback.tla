----------------------------- MODULE MCRollback -----------------------------
(***************************************************************************)
(* Three tasks: the root is shared by all, and at level 1 tasks 0 and 1    *)
(* share CD "a" while task 2 is alone in CD "b".  The heads come from      *)
(* SelectHead: task 0 for the root, task 1 for "a".                        *)
(***************************************************************************)
EXTENDS Atomicity

MCTask == {0, 1, 2}
MCCd == {"root", "a", "b"}
MCMember == [c \in MCCd |-> CASE c = "root" -> MCTask [] c = "a" -> {0, 1} [] c = "b" -> {2}]
MCLevel == [c \in MCCd |-> IF c = "root" THEN 0 ELSE 1]
MCHead == [c \in MCCd |->
             TaskInColor(MCMember[c], SelectHead(MCLevel[c], Cardinality(MCMember[c])))]

Call(o, l) == [op |-> o, lv |-> l]
ProgramOf(calls, collective, errors, timeouts) ==
  [calls |-> calls, collective |-> collective, errors |-> errors, timeouts |-> timeouts]

\* A child begun and completed twice.
BegunTwice ==
  <<Call("begin", 0), Call("create", 1),
      Call("begin", 1), Call("detect", 1), Call("complete", 1),
      Call("begin", 1), Call("assert", 1), Call("complete", 1),
      Call("destroy", 1), Call("detect", 0),
    Call("complete", 0)>>

\* A child destroyed and created again: the CD object is reused.
AssertedTwice ==
  <<Call("begin", 0),
      Call("create", 1), Call("begin", 1), Call("assert", 1), Call("complete", 1),
      Call("destroy", 1),
      Call("create", 1), Call("begin", 1), Call("assert", 1), Call("complete", 1),
      Call("destroy", 1),
    Call("complete", 0)>>

\* The same with errors of any CD of the path.
CreatedTwice ==
  <<Call("begin", 0),
      Call("create", 1), Call("begin", 1), Call("detect", 1), Call("complete", 1),
      Call("destroy", 1),
      Call("create", 1), Call("begin", 1), Call("complete", 1), Call("destroy", 1),
    Call("complete", 0)>>

\* The parent's assertion is between the Create and the Begin of its child.
AssertThenBegin ==
  <<Call("begin", 0), Call("create", 1), Call("assert", 0),
      Call("begin", 1), Call("complete", 1), Call("destroy", 1),
    Call("complete", 0)>>

\* The tasks of the root, and the tasks of a child, exchange messages between two places
\* where errors are found.
ExchangeInRoot ==
  <<Call("begin", 0), Call("detect", 0), Call("send", 0), Call("wait", 0), Call("assert", 0),
    Call("complete", 0)>>

ExchangeInChild ==
  <<Call("begin", 0), Call("create", 1),
      Call("begin", 1), Call("detect", 1), Call("send", 1), Call("wait", 1),
      Call("assert", 1), Call("complete", 1), Call("destroy", 1),
    Call("complete", 0)>>

Recovered ==
  {ProgramOf(BegunTwice, TRUE, 1, 0), ProgramOf(AssertedTwice, TRUE, 2, 0),
   ProgramOf(AssertThenBegin, FALSE, 1, 0), ProgramOf(ExchangeInRoot, TRUE, 1, 1),
   ProgramOf(ExchangeInChild, TRUE, 1, 1)}

ReusedAfterError == {ProgramOf(CreatedTwice, TRUE, 1, 0)}
=============================================================================
