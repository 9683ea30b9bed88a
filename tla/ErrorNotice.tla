----------------------------- MODULE ErrorNotice -----------------------------
(***************************************************************************)
(* What the mailboxes promise the tasks of a job, without their windows,   *)
(* counters, FIFOs and epochs: a reported error stays owed to every task   *)
(* of its CD until the task has been told of it, and a task that has been  *)
(* told keeps the notice until it has lowered its rollback point to the    *)
(* CD.  A rollback point is lowered for three reasons only: such a notice, *)
(* an error that the task, or a task of a CD it heads, has found, or the   *)
(* rollback point of a task it synchronises with.  A task that leaves a    *)
(* CD, or creates it again, gives its notices up.                          *)
(***************************************************************************)
EXTENDS Integers

CONSTANTS
  Task,     \* the tasks
  CD,       \* the CDs they share
  Member,   \* Member[c]: the tasks of c
  HeadOf,   \* HeadOf[c]: the task that spreads the reports of c
  Level,    \* Level[c]: where to roll back to
  Levels,   \* where a task can roll back to
  INVALID   \* no rollback

VARIABLES
  untold,   \* untold[c]: the tasks that have still to be told of a report of c
  told,     \* <<c, t>>: t has been told to re-execute c and has not done so
  due,      \* <<t, l>>: an error found has still to lower the rollback point of t to l
  rb        \* rollback point of each task

nvars == <<untold, told, due, rb>>

NInit ==
  /\ untold = [c \in CD |-> {}]
  /\ told = {}
  /\ due = {}
  /\ rb = [t \in Task |-> INVALID]

Lowered(t, l) == [rb EXCEPT ![t] = IF @ < l THEN @ ELSE l]

\* A task itself, and the heads of its CDs.
Near(t) == {t} \cup {HeadOf[c] : c \in {d \in CD : t \in Member[d]}}

\* Task t finds an error.  It may report it to a CD of its own, all of whose tasks, itself
\* included, are then to hear of it; and it is to lower some of the rollback points near it.
Find(t, l) ==
  /\ UNCHANGED <<told, rb>>
  /\ \/ UNCHANGED untold
     \/ \E c \in CD : t \in Member[c] /\ untold' = [untold EXCEPT ![c] = Member[c]]
  /\ \E S \in SUBSET Near(t) : due' = due \cup (S \X {l})

\* A rollback point is lowered, for one of several errors perhaps.
Lower(t, l) ==
  /\ <<t, l>> \in due
  /\ rb' = Lowered(t, l)
  /\ due' \in {due, due \ {<<t, l>>}}
  /\ UNCHANGED <<untold, told>>

\* A task is told.  It will be told again when another report has come in.
Tell(c, t) ==
  /\ t \in untold[c]
  /\ told' = told \cup {<<c, t>>}
  /\ \/ untold' = [untold EXCEPT ![c] = @ \ {t}]
     \/ untold[c] = Member[c] /\ UNCHANGED untold
  /\ UNCHANGED <<due, rb>>

\* A task acts on a notice, of which it may hold a second one.
Heed(c, t) ==
  /\ <<c, t>> \in told
  /\ rb' = Lowered(t, Level[c])
  /\ told' \in {told, told \ {<<c, t>>}}
  /\ UNCHANGED <<untold, due>>

\* A CD begins anew.
Restart(t) ==
  /\ rb' = [rb EXCEPT ![t] = INVALID]
  /\ UNCHANGED <<untold, told, due>>

\* The tasks of c synchronise: t takes over a lower rollback point, after a Restart perhaps.
Agree(c, t) ==
  /\ t \in Member[c]
  /\ \E u \in Member[c] : rb' \in {Lowered(t, rb[u]), [rb EXCEPT ![t] = rb[u]]}
  /\ UNCHANGED <<untold, told, due>>

\* A task leaves c or creates it again.  With the head go the reports it has received.
Leave(c, t) ==
  /\ t \in Member[c]
  /\ told' = told \ {<<c, t>>}
  /\ \/ UNCHANGED untold
     \/ HeadOf[c] = t /\ untold' = [untold EXCEPT ![c] = {}]
  /\ rb' \in {rb, [rb EXCEPT ![t] = INVALID]}
  /\ UNCHANGED due

NNext ==
  \/ \E t \in Task, l \in Levels : Find(t, l) \/ Lower(t, l)
  \/ \E c \in CD, t \in Task : Tell(c, t) \/ Heed(c, t) \/ Agree(c, t) \/ Leave(c, t)
  \/ \E t \in Task : Restart(t)

NSpec == NInit /\ [][NNext]_nvars
=============================================================================
