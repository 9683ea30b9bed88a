-------------------------------- MODULE Wait --------------------------------
(***************************************************************************)
(* The wait loop of the MPI wrappers (CD::BlockUntilValid, entered from    *)
(* MPI_Wait and MPI_Recv), on top of the mailboxes of module Mailbox.      *)
(*                                                                         *)
(* A task that waits for a message tests the request and, while the        *)
(* message has not come, calls CheckMailBox and looks at its rollback      *)
(* point.  It then looks once more, by itself, at the kAllReexecute bit of *)
(* the current CD, and after ForceAfter iterations it gives up and sets    *)
(* its own rollback point.  Whether the message comes is left open: its    *)
(* sender may have been rolled back.                                       *)
(***************************************************************************)
EXTENDS Mailbox

CONSTANT ForceAfter  \* iterations before the rollback is forced (10000000 in the code)

ASSUME WaitBounds == ForceAfter \in Nat

VARIABLES
  wait,   \* where the task is in BlockUntilValid: "no", "test", "poll" or "escalate"
  iters   \* iterations of the loop so far

wvars == <<mvars, wait, iters>>

WInit ==
  /\ MInit
  /\ wait = [t \in Task |-> "no"]
  /\ iters = [t \in Task |-> 0]

\* MPI_Wait for a receive (is_wait_for_send is false), in a CD that has a mailbox: the loop
\* reads event_flag_ without a test.
BlockUntilValid(t) ==
  /\ pc[t] = "run" /\ wait[t] = "no" /\ GetCDLevel(t, cur[t]) \in Shared
  /\ wait' = [wait EXCEPT ![t] = "test"]
  /\ UNCHANGED <<mvars, iters>>

\* PMPI_Test finds the message: the wait returns.
MessageArrives(t) ==
  /\ pc[t] = "run" /\ wait[t] = "test"
  /\ wait' = [wait EXCEPT ![t] = "no"]
  /\ iters' = [iters EXCEPT ![t] = 0]
  /\ UNCHANGED mvars

\* PMPI_Test finds nothing: CheckMailBox is called.
NothingArrived(t) ==
  /\ pc[t] = "run" /\ wait[t] = "test"
  /\ CheckMailBox(t)
  /\ wait' = [wait EXCEPT ![t] = "poll"]
  /\ iters' = [iters EXCEPT ![t] = IF @ > ForceAfter THEN @ ELSE @ + 1]

\* Mutant: the wait has no limit.
ForcedNever(t) == FALSE

\* "Force to rollback".
Forced(t) ==
  iters[t] > ForceAfter

\* Mutant: the forced rollback point is not stored.
AfterCheckUnset(t) ==
  /\ pc[t] = "run" /\ wait[t] = "poll"
  /\ LET c     == GetCDLevel(t, cur[t])
         point == IF Forced(t) THEN cur[t] ELSE rb[t]
     IN  /\ reexFlag' = reexFlag \ {<<c, t>>}
         /\ wait' = [wait EXCEPT ![t] = IF point <= cur[t] THEN "escalate" ELSE "test"]
  /\ UNCHANGED <<pending, errFlag, queue, handled, errOcc, rb, path, ctl, posts, iters>>

\* CheckMailBox has returned: the rollback point is read, a forced one is set, and a
\* kAllReexecute bit that was set meanwhile is cleared together with
\* SetRollbackPoint(rollback_point), the value already read.  The head of a CD has no such
\* bit of its own.  A rollback point at or above the current level ends the wait.
AfterCheck(t) ==
  /\ pc[t] = "run" /\ wait[t] = "poll"
  /\ LET c     == GetCDLevel(t, cur[t])
         point == IF Forced(t) THEN cur[t] ELSE rb[t]
     IN  /\ reexFlag' = reexFlag \ {<<c, t>>}
         /\ rb' = [rb EXCEPT ![t] = IF Forced(t) THEN MinOf(@, point) ELSE @]
         /\ wait' = [wait EXCEPT ![t] = IF point <= cur[t] THEN "escalate" ELSE "test"]
  /\ UNCHANGED <<pending, errFlag, queue, handled, errOcc, path, ctl, posts, iters>>

\* The steps of the loop.
WaitLoop(t) == MessageArrives(t) \/ NothingArrived(t) \/ AfterCheck(t)

\* A task that waits does nothing else; one that leaves the wait to be rolled back
\* (Escalate) polls its mailbox in SyncCDs.
WNext ==
  \E t \in Task :
    \/ BlockUntilValid(t) \/ WaitLoop(t)
    \/ /\ \/ Progress(t)
          \/ wait[t] = "no" /\ Calls(t)
          \/ wait[t] = "escalate" /\ CheckMailBox(t)
       /\ UNCHANGED <<wait, iters>>

WSpec == WInit /\ [][WNext]_wvars

\* A task inside a call goes on, whether its message comes or not.
WFairSpec ==
  /\ WSpec
  /\ \A t \in Task : WF_wvars((Progress(t) /\ UNCHANGED <<wait, iters>>) \/ WaitLoop(t))

----------------------------------------------------------------------------
(* Properties                                                               *)

\* Types, and the bound of the loop: a task is never past the iteration that forces it out.
WTypeOK ==
  /\ MTypeOK
  /\ wait \in [Task -> {"no", "test", "poll", "escalate"}]
  /\ iters \in [Task -> 0 .. ForceAfter + 1]

\* A task leaves the wait without its message only to roll back: its rollback point is at or
\* above the CD it waited in, so that GetCDToRecover finds a valid one
\* ("Invalid eslcation point").
EscalatesWithReason == \A t \in Task : wait[t] = "escalate" => rb[t] <= cur[t]

\* Every wait ends, even when the message never comes and even when the notice that its
\* sender was rolled back is lost.
WaitEnds == \A t \in Task : wait[t] = "test" ~> wait[t] \in {"no", "escalate"}

\* "Whenever non-head tasks observes kAllReexecute, it "Get" the rollback point from head":
\* a kAllReexecute bit of the CD a task is in is cleared only when its handler is queued or
\* the rollback point is lowered to that CD.
ReexecuteIsObserved ==
  [][\A c \in Shared : \A t \in Member[c] :
       <<c, t>> \in reexFlag \ reexFlag' /\ Level[c] <= cur[t] =>
         \/ rb'[t] <= Level[c]
         \/ \E i \in 1 .. Len(queue'[t]) : queue'[t][i] = [ev |-> "AllReexecute", cd |-> c]]_wvars
=============================================================================
