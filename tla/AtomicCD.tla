------------------------------ MODULE AtomicCD ------------------------------
(***************************************************************************)
(* What a containment domain promises: each of its instances is atomic.    *)
(* Either every task commits it or every task rolls it back, and an        *)
(* instance in which an error was reported is not committed.               *)
(***************************************************************************)
CONSTANTS
  Cd,     \* the CDs
  Member  \* Member[c]: the tasks of c

VARIABLES
  committed,  \* committed[c]: tasks that have committed the present instance of c
  undone,     \* undone[c]: tasks that have rolled it back
  failed      \* the CDs with an error reported in the present instance

avars == <<committed, undone, failed>>

\* Before the first instance nobody is inside.
AInit ==
  /\ committed = [c \in Cd |-> Member[c]]
  /\ undone = [c \in Cd |-> {}]
  /\ failed = {}

\* A new instance starts for all tasks at once, when no task is inside the old one.
Start(c) ==
  /\ Member[c] \subseteq committed[c] \cup undone[c]
  /\ committed' = [committed EXCEPT ![c] = {}]
  /\ undone' = [undone EXCEPT ![c] = {}]
  /\ failed' = failed \ {c}

\* An error is reported while no task has committed.
Report(c) ==
  /\ committed[c] = {}
  /\ failed' = failed \cup {c}
  /\ UNCHANGED <<committed, undone>>

Commit(c, t) ==
  /\ t \notin committed[c] /\ undone[c] = {} /\ c \notin failed
  /\ committed' = [committed EXCEPT ![c] = @ \cup {t}]
  /\ UNCHANGED <<undone, failed>>

Undo(c, t) ==
  /\ t \notin undone[c] /\ committed[c] = {}
  /\ undone' = [undone EXCEPT ![c] = @ \cup {t}]
  /\ UNCHANGED <<committed, failed>>

ANext == \E c \in Cd : Start(c) \/ Report(c) \/ \E t \in Member[c] : Commit(c, t) \/ Undo(c, t)

ASpec == AInit /\ [][ANext]_avars
=============================================================================
