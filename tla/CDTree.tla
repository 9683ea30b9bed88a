------------------------------- MODULE CDTree -------------------------------
(***************************************************************************)
(* The tree of containment domains (CDs) an MPI job runs in.               *)
(*                                                                         *)
(* Every task holds a path of CDs from the root to its leaf (CDPath), one  *)
(* CD per level.  A CD is shared by the tasks of one communicator          *)
(* ("color"); one of them is its head and owns the mailbox the others      *)
(* report to.  Names follow the source: task_size, IsHead, GetCDLevel,     *)
(* GetCoarseCD, SelectHead.                                                *)
(***************************************************************************)
EXTENDS Integers, FiniteSets

CONSTANTS
  MaxLevel, \* depth of the tree
  Task,    \* MPI ranks of the job (cd::myTaskID)
  Cd,      \* the CDs of the tree, single-task ones included
  Level,   \* Level[c]: depth of c in the tree, 0 for the root
  Member,  \* Member[c]: the tasks of c's communicator
  HeadOf   \* HeadOf[c]: the task whose CD object is the HeadCD

ASSUME TreeAssumption ==
  /\ MaxLevel \in Nat
  /\ IsFiniteSet(Task) /\ Task \subseteq Nat
  /\ IsFiniteSet(Cd)
  /\ Level \in [Cd -> 0 .. MaxLevel]
  /\ Member \in [Cd -> SUBSET Task]
  /\ HeadOf \in [Cd -> Task]
  /\ \A c \in Cd : HeadOf[c] \in Member[c]

\* Create is collective over the parent: every task has one CD per level, and the tasks
\* of a CD are among those of its parent.
ASSUME PathAssumption ==
  /\ \A t \in Task : \A l \in 0 .. MaxLevel : \E c \in Cd : t \in Member[c] /\ Level[c] = l
  /\ \A c, d \in Cd : Level[c] = Level[d] /\ c # d => Member[c] \cap Member[d] = {}
  /\ \A c, d \in Cd : Level[c] <= Level[d] =>
        Member[d] \subseteq Member[c] \/ Member[c] \cap Member[d] = {}

\* INVALID_ROLLBACK_POINT is 0xFFFFFFFF: larger than any level, so that MPI_MIN
\* and "<= level()" treat it as "no rollback".
INVALID == MaxLevel + 1

Levels == 0 .. MaxLevel

RollbackPoints == 0 .. INVALID

task_size(c) == Cardinality(Member[c])

\* Only a CD shared by several tasks has a mailbox window (num_mailbox_to_create).
Shared == {c \in Cd : task_size(c) > 1}

IsHead(t, c) == HeadOf[c] = t

\* CDPath::GetCDLevel(l) of task t.
GetCDLevel(t, l) == CHOOSE c \in Cd : t \in Member[c] /\ Level[c] = l

\* The innermost CD at or above c on the path of t that has several tasks; the
\* root when there is none.
GetCoarseCD(t, c) ==
  LET up == {d \in Shared : t \in Member[d] /\ Level[d] <= Level[c]}
  IN  IF up = {} THEN GetCDLevel(t, 0)
      ELSE CHOOSE d \in up : \A e \in up : Level[e] <= Level[d]

MinOf(a, b) == IF a < b THEN a ELSE b

\* CDHandle::SelectHead: the rank, within the new communicator, of the head of a
\* CD created at level l (the parent calls it with level() + 1 = l).
SelectHead(l, size) == l % size

\* The task with a given rank in a communicator; ranks follow task ids.
TaskInColor(members, rank) ==
  CHOOSE t \in members : Cardinality({u \in members : u < t}) = rank
=============================================================================
