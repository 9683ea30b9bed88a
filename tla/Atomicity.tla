----------------------------- MODULE Atomicity ------------------------------
(***************************************************************************)
(* Coordinated rollback makes CDs atomic: module Rollback, with a history  *)
(* of who committed and who rolled back the present instance of each CD,   *)
(* implements module AtomicCD.                                             *)
(***************************************************************************)
EXTENDS Rollback

VARIABLES committed, undone, failed

hist  == <<committed, undone, failed>>
hvars == <<vars, hist>>

HInit ==
  /\ Init
  /\ committed = [c \in Cd |-> Member[c]]
  /\ undone = [c \in Cd |-> {}]
  /\ failed = {}

Inside(t, c) == t \in Member[c] \ (committed[c] \cup undone[c])

\* The step with which task t leaves CD c by completing it; by climbing past it or jumping
\* back to its Begin.
Completes(t, c) == cur[t] = Level[c] /\ cur'[t] = cur[t] - 1 /\ ip'[t] = ip[t] + 1
RollsBack(t, c) ==
  /\ cur[t] = Level[c] /\ pc[t] \in {"recover", "reduced"}
  /\ \/ cur'[t] = cur[t] - 1 /\ ip'[t] = ip[t]
     \/ pc'[t] = "run" /\ ip'[t] # ip[t] + 1

\* The step with which the tasks of c start an instance: the Allreduce of a Begin that does
\* not escalate, or the Begin of a CD of one task.
Starts(c) ==
  IF c \in Shared
  THEN \A t \in Member[c] : /\ pc[t] = "reduce" /\ pc'[t] = "reduced" /\ sl[t] = Level[c]
                            /\ ctx[t] = "begin" /\ val'[t] >= Level[c]
  ELSE \A t \in Member[c] : At(t, "begin") /\ Op(t).lv = Level[c] /\ ip'[t] = ip[t] + 1

HNext ==
  /\ Next
  /\ committed' = [c \in Cd |-> IF Starts(c) THEN {}
       ELSE committed[c] \cup {t \in Member[c] : Inside(t, c) /\ Completes(t, c)}]
  /\ undone' = [c \in Cd |-> IF Starts(c) THEN {}
       ELSE undone[c] \cup {t \in Member[c] : Inside(t, c) /\ RollsBack(t, c)}]
  /\ failed' = (failed \ {c \in Cd : Starts(c)})
                 \cup {c \in Cd : \E t \in Member[c] : c \in owed'[t] \ owed[t]}

\* The job goes on as long as any of its tasks can; no task is promised a turn of its own.
HSpec == HInit /\ [][HNext]_hvars /\ WF_vars(Next)

AC == INSTANCE AtomicCD WITH committed <- committed, undone <- undone, failed <- failed

\* Every instance of a CD is atomic: its tasks agree on whether to commit it or to roll it
\* back, and one with a reported error is not committed (SyncCDs, Complete, GetCDToRecover).
CDsAreAtomic == AC!ASpec
=============================================================================
