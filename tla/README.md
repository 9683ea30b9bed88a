# Verification of the Containment Domains runtime

TLA+ models of the Containment Domains (CD) runtime (`src/src/`), the TLC
instances that check them, and TLAPS proofs about event delivery, waiting, the
phase tree and the shape of the CD tree. A CD is a unit of work that preserves state, detects
errors, and is re-executed when one is found; CDs nest, and the tasks of an MPI
job share them.

## The system

| Part | State | Operations | Module |
| --- | --- | --- | --- |
| CD tree, path, names (`cd_path.h`, `cd_handle.cc`, `cd_name_t.cc`) | one CD per level and task, communicator, head, rank in the level, `access_store_` | split, `SelectHead`, `GetCDLevel`, `GetCoarseCD`, `Create`, reuse | `CDTree`, `SplitCD`, `Shape` |
| Mailbox, event handlers (`cd_comm_internal.cc`, `event_handler.cc`) | `pendingFlag_`, `event_flag_`, `rollback_point_` windows, `cd_event_` FIFO, `handled_event_count`, `error_occurred` | `SetMailBox`, `CheckMailBox`, `ReadMailBox`, the handlers, `InitializeMailBox`, `FinalizeMailBox` | `Mailbox`, `ErrorNotice`, `MailboxNotice` |
| Wait loops (`cd_comm_internal.cc`) | position in the loop, iterations | `BlockUntilValid` | `Wait` |
| Rollback (`cd_internal.cc`, `cd_handle.cc`) | rollback point, exec mode | `Create` ... `Destroy`, `Detect`, `CDAssert`, `SyncCDs`, `GetCDToRecover` | `Rollback`, `AtomicCD`, `Atomicity` |
| Phase tree (`phase_tree.cc`) | phases, sequential ids, failure point | `BeginPhase`, `CompletePhase`, `ResetSeqID`, `SetFailure`, `SetHealthy` | `PhaseTree` |
| Communication log, MPI wrappers (`cd_comm_log.cc`, `cd_mpiwrapper.cc`) | log table, logs of children, `incomplete_log_` | log, probe, replay, hand up and down the path | `CommLog`, `MPIWrapper` |
| Preservation (`cd_internal.cc`, `persistence/`) | entry directory, ring buffer, shared file handle | `Preserve`, `Restore`, `Write`, `Flush`, `Read` | `Preserve`, `DataStore` |

`PROJECT.json` lists every part with its status, the lines each definition
models, and the hazards with the line each one bites at. What makes this code
hard: a report takes two one-sided MPI epochs while the receiver polls; one
counter and one rollback point per process stand for all its CDs; every task
decides alone which collective call it enters next; a recovery has to notice by
itself that it is over; logs and preserved data of a whole path share one table
position, one file offset and one buffer list.

## Modules

- `CDTree`: the constants of a job (tasks, CDs, levels, members, heads) and the
  path look-ups. `TreeAssumption` and `PathAssumption` say what a tree is.
- `Mailbox`: event delivery, one action per RMA epoch or per local stretch
  between epochs. `pc` is the position in the call in progress; `todo`, `at`,
  `lv`, `fly` are its local variables and return to a default at its end.
  `Detect` and `Assert` report an error of any CD of the path and set rollback
  points in epochs of their own. `Create` ... `Destroy` are here only with their
  effect on mailbox state, and a task may call them in any order its path allows;
  of `SyncCDs` in `Begin` and `Complete`, a task may take over the rollback point
  of any task of the CD (the rendezvous itself is in `Rollback`).
- `ErrorNotice`: what the mailboxes promise. A reported error is owed to every
  task of its CD until that task is told of it; who was told keeps the notice
  until its rollback point is at the CD or above, or gives it up when it leaves
  the CD or creates it again. A rollback point is lowered for three reasons only:
  a notice (`Heed`), an error that the task itself or a task of a CD it heads has
  found (`Find`, `Lower`), and the rollback point of a task it synchronises with
  (`Agree`). `MailboxNotice` finds the owed reports, the notices and the errors
  found in the windows, the FIFOs and the calls in progress of `Mailbox` and
  instantiates `ErrorNotice`.
- `Wait`: `BlockUntilValid` above `Mailbox`: test, poll, the look at the task's
  own bit, the forced rollback. The forced rollback lowers a rollback point
  without any error, so `ErrorNotice` is claimed for `Mailbox` and not for `Wait`.
- `Rollback`: an SPMD program run by all tasks, with the fence and the Allreduce
  of `SyncCDs` as steps of their own and whole mailbox calls as operators on the
  windows `mb`. Re-execution moves `ip` back to the `Begin`. Tasks of a CD may
  send messages to one another and give up a wait for one.
- `AtomicCD`: what a CD promises. An instance starts for all its tasks at once,
  is committed by all or undone by all, and is not committed once an error was
  reported in it. `Atomicity` records who commits and who rolls back in
  `Rollback` and instantiates `AtomicCD`.
- `PhaseTree`: one task's phases. The application is chosen call by call, kept
  in `prog` and followed again after a rollback. `GetCDToRecover` reads its target
  anew at every level on the way up, and another task may lower it in between
  (`RollbackLv`): the ids of a level are reset with what was read there.
- `CommLog`: the log of a CD as operators on records; `MPIWrapper`: the wrappers
  and CD calls of one task that use it, with MPI as an environment that
  completes requests at any time. `InvalidateIncompleteLogs` tests and cancels in
  a bounded number of rounds: any of the requests may have been completed, any
  cancelled, and the rest stays with MPI, where a receive may still fill its
  buffer (`LateMessage`).
- `DataStore`: the ring buffer, its growth and the file behind it, as operators;
  `Preserve`: one task's program of preservations, computations and errors above
  a path of stores.
- `SplitCD`: how tasks are dealt out to children, heads and names, as operators;
  `Shape`: the tasks of a job that create, leave and re-enter CDs, with
  `access_store_`.
- The proofs: `MailboxProofs` (types of `Mailbox`), `NoticeProofs` (what a step
  does to queued handlers and to notices), `MailboxTheorems` (the counter, the wait
  loop, and all theorems about mailboxes); `ShapeProofs`; `PhaseProofs` (types, path
  and failure point), `HistoryProofs` (what a recovery leaves behind, and Begin),
  `RecoveryProofs` (Complete), `PhaseTheorems` (rollbacks, and all theorems about
  phases). `MC*`: the instances.

Abstractions. `INVALID_ROLLBACK_POINT` is `MaxLevel + 1`, larger than any level.
Of the mailbox events only `kErrorOccurred` and `kAllReexecute` are modelled:
nothing raises the others. `SyncCDs` calls `CheckMailBox` twice in a row before
the fence; `Rollback` calls it once. `FinalizeMailBox` is one step, and the
`DecPendingCounter` call in `GetCDToRecover` has nothing to take off, because
`HandledTakenOff` holds there. In `Mailbox` a negative counter stands for the
wrapped `uint32`. `Rollback` decides which CD is rolled back to;
`PhaseTree`, `MPIWrapper` and `Preserve` let an error choose any CD of the path
and so do not depend on how. `lost` (Mailbox), `owed` (Rollback), `committed`,
`undone`, `failed` (Atomicity) are history variables. Definitions marked
"Mutant" in a comment are seeded faults: each replaces the definition named in
`PROJECT.json`, and the property must then fail.

## Runs

| Run | Instance and bounds | Checks | States |
| --- | --- | --- | --- |
| `mailbox_pair` | two tasks share the root (head 0) and a child (head 1); 2 errors, 3 moves per task | `MTypeOK`, `EventsAreCounted`, `HandledTakenOff`, `DuplicateHasBroadcast`, `HandlersAreOnPath`, `NoticesAreKept`, `ErrorReachesAll` | 101 thousand |
| `wait` | the same pair, each task alone in a CD at a third level; 1 error, 4 and 2 moves, the wait gives up after 1 iteration | `WTypeOK`, `EscalatesWithReason`, `WaitEnds` | 154 thousand |
| `rollback` | three tasks share the root, two of them a child; five programs, 1 or 2 errors, 0 or 1 timeout | `TypeOK`, `NoCollectiveMismatch`, `InStep`, `NoInvalidEscalation`, `ErrorsAreRecovered`, `CDsAreAtomic`, `Termination` | 214 thousand |
| `phase` | six applications with two labels, two or three levels below the root, 9 to 14 calls, 2 rollbacks | `PTypeOK`, `SeqNeverPassesFailure`, `FailedPhaseIsMarked`, `CurrentFollowsPath`, `HealthyMeansExecuting`, `NoAssertionFails`, `OrderlyRecovery` | 619 thousand |
| `replay` | five applications: nested relaxed CDs, errors inside children, requests, every blocking call, strict CDs; 4 to 8 calls, 1 or 2 rollbacks | `TypeOK`, `ReplayFaithful`, `PerformedOnce`, `NoForgottenRequest`, `NoStop` | 1.2 million |
| `preserve` | four programs over memory and file, data of 1 to 5 and 9 bytes in chunks of 4, 3 errors | `TypeOK`, `PreservedIsIntact`, `AsIfUndisturbed`, `CountsTrackProgram`, `CallsReturn` | 67 thousand |
| `shape` | five jobs of 4, 6, 8, 12 and 64 tasks, 2 or 3 levels, in one and three dimensions and with the caller's colours | `TypeOK`, `ChildrenPartition`, `OneHead`, `NamesAreUnique`, `ReuseAgrees`, `BlocksAreKept` | 4 thousand |
| `reuse_loses_error`, `phase_stuck`, `wait_drops_event`, `waitall_returns`, `preserve_overwritten` | one error or none | violations, see below | |

What the passing runs show. `mailbox_pair` and `wait`: no interleaving of epochs
uncounts an event, the mailboxes implement `ErrorNotice` (`NoticesAreKept`), and a
wait always ends. `rollback`: tasks stay in step through
nested recoveries, every reported error is recovered, the program ends, and CDs
are atomic (`CDsAreAtomic` is the refinement `HSpec => AC!ASpec`). `phase`:
the failure point and the marks of a recovery are kept and cleared together.
`replay`: a re-executed task gets from the log what it first got from MPI, and
nothing is sent twice. `preserve`: a re-execution computes on the values of an
undisturbed one. `shape`: the tasks of a CD agree who they are.

Bounds. Two errors are the fewest that make a duplicate, a merge of two bits,
or a report that crosses a broadcast; the moves of a task let it leave and
re-create the child between the epochs of another's post. The four moves of
`wait` bring a task to the CD in which it is alone. Three tasks are the
fewest with a shared child next to a task alone. Two rollbacks include one during
a recovery. Data of 1 to 5 bytes with chunks of 4 end before, at and after the boundary of a
chunk, and data of 9 bytes exceed a buffer of 8 and make it grow. Lengths of 6 to
8 are not in the run: there a bounded write can wait forever (see below). With
three errors each computation of a program can fail again during its re-execution. 64 tasks are
the smallest job that splits twice in three dimensions. `ForceAfter` is 1 for
10000000: only that the limit is reached matters.

Deadlock is checked in `rollback` and `preserve`, where a finished program
stutters. It is not in `mailbox_pair`, `wait`, `phase`, `replay` and `shape`,
whose tasks may stop at their bounds.

Fairness. `MFairSpec` and `WFairSpec` are weak fairness of each task's calls in
progress and of its polling: `Begin`, `Complete`, `Detect`, `Create` and the wait
loops all call `CheckMailBox`. `HSpec` assumes only weak fairness of the job as a
whole, `WF_vars(Next)`: while some task or some collective can go on, one of them
does. No task is promised a turn, as none needs one: no call of `Rollback` spins,
and a task that has nothing to wait for can only move on. Nothing is assumed about
errors, whose number is bounded: a program with an error in every execution does
not end.

## Where the code disagrees with its documentation

Five disagreements have a run whose counterexample TLC prints; `PROJECT.json`
quotes the lines.

1. `reuse_loses_error`: re-creating a CD resets the counter of the process, so
   an unread error of the root is never handled (`cd_comm_internal.cc:1576`).
2. `phase_stuck`: the sequential ids below the target of a rollback are reset, so
   the recovery of a repeated phase never meets its failure point
   (`phase_tree.h:280`).
3. `wait_drops_event`: the wait loop clears a kAllReexecute bit set after its
   `CheckMailBox` (`cd_comm_internal.cc:1730`).
4. `waitall_returns`: `MPI_Waitall` in a strict CD returns with requests open
   (`cd_comm_internal.cc:1791`).
5. `preserve_overwritten`: the first chunk of a child overwrites the last, partly
   filled chunk of its parent in the shared file (`data_store.cc:107`).

The following came out of the modelling in the same way. They have no run of
their own; the passing runs keep away from them by the program, the bound or the
argument named last.

Mailboxes:

- `event_handler.cc:485` says of the rollback point "I restricted the update ov
  *rollback_point__ only in HandleAllReexecute, it should be never updated in
  other places". `Detect`, `Assert`, `SyncCDs` and the forced rollback of a wait
  update it as well. (`ErrorNotice` has these ways, except the last.)

Rollback:

- `cd_internal.cc:751`: a task escalates out of `Create` on the rollback point it
  alone sees while another waits in the collective; `cd_handle.h:368` says Create
  "waits for all tasks". A reuse does not synchronise either. (Errors of a
  program are found in or after the child.)
- `cd_internal.cc:1777`: a rollback point accumulated at the head after the
  agreement in `Complete` splits the tasks over two CDs. (Two errors only in the
  program whose asserts are all in the child.)
- `cd_internal.cc:1292`: the default `Begin` forgets a failed assertion the
  parent made after `Create`. (That program passes `collective = false`.)
- `cd_comm_internal.cc:1766`: a task that was forced out of a wait may meet
  another one in a collective `Create`. Messages sent before a forced rollback
  are still there after it. A single-task CD has no mailbox, and the wait loop
  looks at `event_flag_` all the same (1727). (Waits are in shared CDs, a guard of
  `Wait`, and no `Create` follows them in `Rollback`.)

Phases:

- `phase_tree.cc:541`: a CD rolled back before its first child re-executes, and
  the assertion that a new phase is begun in kExecution fails.
  (`NoAssertionFails`, `HealthyMeansExecuting` and `OrderlyRecovery` are about
  orderly tasks: their errors are noticed in Complete; and if a level repeats a
  label, then an error rolls back at most one level, to that level or below it,
  and the CDs it undoes have no children. Disagreement 2 is what the second
  condition excludes. The application `Any` is not orderly and is part of the
  run for the other properties.)
- `phase_tree.cc:498`: labels are joined with `_`, so a label with a `_` can name
  the phase of another level. (Labels are single words in
  the runs; the theorems that need it assume `SingleWords`.)
- `phase_tree.cc:523`: a debugging `assert(0)`, marked `//tmp`, stops task 0 in
  whatever state when it begins the phase `Root_MainLoop_CalcPos`.
  (`DebugAssumption` excludes that path.)

Communication log, where an application of `replay` lacks the habit or the call
in question:

- `cd_comm_internal.cc:1688`: `MPI_Wait` in a relaxed CD deletes the record it
  needs next. `cd_internal.cc:1620`: a relaxed CD below the root loses its log
  when it is the target of a rollback. `cd_comm_log.cc:995`: after a second
  rollback the first, partial log of a child is replayed.
- `cd_comm_log.cc:479`: a child created during a replay has a table of size 0.
  `cd_mpiwrapper.cc:723`: an entry that is not complete is not passed in a
  replay. `cd_comm_log.cc:171`: `ReInit` keeps `reexec_counter_`.
- `cd_mpiwrapper.cc:1850`: Allgather replays `sizeof(recvtype)` bytes per element
  where it logged `MPI_Type_size` (the two are equal in `replay`).
  `cd_mpiwrapper.cc:1068`: `MPI_Testsome` does not log its indices.
  `cd_comm_log.cc:349`: a first test that finds nothing reads entry -1.
- `cd_internal.cc:555`: children with one label have one id.
  `cd_comm_log.cc:250`: a request variable used twice overwrites its first entry.
- `cd_internal.cc:1981`, `2049`: receives of a root, or of a completed strict
  child, stay posted when they are posted again.
- `cd_internal.cc:4133`: "blocking until all incomplete logs are handled" is a
  bounded number of tests and cancels without a wait. A cancelled receive may
  bring its message after the rollback, into a buffer that is in use again; and
  a strict CD that completes in re-execution cancels receives that the
  application still waits for. (Both happen in `replay`; `NoForgottenRequest` is
  about which requests are looked at, and the other properties about relaxed CDs.)

Preservation:

- `cd_internal.cc:2738`: a CD that is rolled back before its first preservation
  stops in it when it re-executes, with an ERROR_MESSAGE; the comment above says
  "now we should actually start preserving instead of restoring".
  (Errors are found in computations, which follow a preservation.)
- `data_store.h:79`: a bounded write waits forever when what is left in the
  buffer and the new data exceed the buffer, while each alone fits.
- `Reallocate` keeps indexes modulo the old size; a parent that preserves after
  the creation of its child writes into the child's region
  (`cd_internal.cc:2518`); a reused child keeps its old `written_len_`.
- One name preserved twice restores the latest data for both; a copy followed by
  a reference of one name hides the copy; a re-execution adds its output entries
  again; the loop of `GetData` does not advance.
- What does hold, and `preserve` shows: the parent's data are safe in a shared
  file when the table of entries written behind them fills their last chunk.

Shape:

- `cd_handle.h:366`: the assertions of `SplitCD_3D` accept uneven sizes, such as
  125 tasks and 64 children. (`CallerAssumption`.)
- `cd_handle.h:310`, `962` say the default is the three-dimensional split;
  `cd_handle.cc:1144`, `1178` set `SplitCD_1D`.
- `cd_name_t.h:63` calls the name "A type to uniquely name a CD in the tree":
  siblings that split into different numbers of children give out the same rank
  in the level. `NamesAreUnique` is about CDs of one phase, whose siblings make
  the same call.
- A `Create` that finds a CD of its path takes it as it is, whatever number of
  children is asked for. (A name always comes with the same arguments.)

## Proofs

All theorems hold for any number of tasks and any bounds.

Event delivery, from `TreeAssumption`, `PathAssumption` and `MailboxBounds`, all
in `MailboxTheorems`:

- `TypeCorrect`, `CounterCoversEvents`, `HandledAssertion`, `DropLosesNothing`:
  `MSpec` implies `[]MTypeOK`, `[]EventsAreCounted`, `[]HandledTakenOff`,
  `[]DuplicateHasBroadcast`;
- `HandlersStayOnPath`: `MSpec => []HandlersAreOnPath`;
- `MailboxesKeepNotices`: `MSpec => NoticesAreKept`, the refinement of `ErrorNotice`;
- `WaitTypes`, `WaitKeepsCount`, `EscalationIsValid` (with `WaitBounds`): `WSpec`
  implies `[]WTypeOK`, `[]EventsAreCounted` and `[]EscalatesWithReason`.

None is inductive alone. `TInv` (`MailboxProofs`) adds to the types what each
stage of a call implies about its local variables: for instance, a task between
two epochs of a broadcast has its target in `todo`. `CInv` (`MailboxTheorems`) adds
the counting invariant, its bookkeeping of `handled` and the duplicate rule. The
argument splits what the counter covers into events on their way (`OnWay`: bits
and posts between epochs) and events held (`Held`: FIFO and handled count). A
step either moves one unit between the two, adds one on both sides, or takes off
what it handled. The lemmas state one step kind each; the finite-set facts come
from `FiniteSetTheorems`. The theorems about the counter are conditional on
`~lost`: disagreement 1 shows the condition is needed. `PathOK` (`NoticeProofs`)
needs no such condition: a call returns only with an empty FIFO, and a scan goes
upwards from the current CD. `WInv` rests on two observations: every step of the
loop but `AfterCheck` is a step of `Mailbox` or leaves it alone, and `AfterCheck`
only clears a bit and lowers a rollback point; once a task escalates, nothing
raises its rollback point or moves it.

The refinement needs `NInv` (`NoticeProofs`): `TInv`, `PathOK`, the duplicate rule,
and what a broadcast in progress has left to do. `NoticeSim` goes through the
actions: `Detect` and `Assert`, with the first epoch of a report, are a `Find`, and
each epoch of `SetRollbackPoint` a `Lower`; the second epoch of a broadcast
tells one task; a scan moves a report or a notice from a window to a FIFO, where
the mapping still finds it, or drops a duplicate whose twin the mapping finds; a
handler is a `Heed`, a Begin or a Complete a `Restart` or an `Agree`, and a
re-creation or a Destroy a `Leave`. That needs no
condition on `lost`: what a reset counter delays, it does not remove.

Phases, from `PhaseAssumption`, all in `PhaseTheorems` and for every set of
applications, whatever their depth, number of calls and number of errors
(`DebugAssumption`, about one path at which the code stops, is what makes the
model faithful; no proof uses it):

- `PhaseTypes`: `Spec => []PTypeOK`;
- `CurrentIsOnPath`, `FailedIsMarked`, `NeverPastFailure`: `SingleWords` and `Spec`
  imply `[]CurrentFollowsPath`, `[]FailedPhaseIsMarked`, `[]SeqNeverPassesFailure`;
- `HealthyIsExecuting`, `OrderlyNeverStops`, `OrderlyTasksRecover`: `SingleWords` and
  `Spec` imply `[]HealthyMeansExecuting`, `[]NoAssertionFails` and `OrderlyRecovery`.

`PhaseInv` is the types, with the order of sequential ids among siblings. `TaskInv`
adds that phases and paths of labels correspond one to one, that the CD path is a
path of the tree, and that the failed phase is marked and not past its id.
`OrderlyInv` is about the whole program: there are `ph`, the phase of every Begin
made so far, and `rp`, the Begin that the highest rollback of the recovery went
back to, such that `History(ph, rp)` holds. It says that the phases nest as the
calls do; which phase `prev_phase` can be, on which `MarkSeqID` depends; where
the ids of a phase start; that the Complete of the CD that failed is the last
call of the program so far; and that the marked phases are below that of `rp` and
include every phase from there to the one that failed. The last two make the end
of a recovery exact: `failed_phase` and `failed_seqID` are met at one Complete
only, and `FinishRecovery`, which goes down from the highest marked ancestor,
reaches every mark. Without loops a phase stands for one CD (`Once`). With
loops it does not, and `ZeroIds` takes its place: the levels that a rollback
undoes start at id 0, which is why an error may then cross one level only.
`FinishRecovery` and `Climbed` are recursive functions; that they are well defined
comes from the theorems of `WellFoundedInduction` as `LeastNumber`.

Shape, from `JobsAssumption` and `CallerAssumption` (the colours and numbers a
caller gives are a deal, and a cube of children fits into the cube of tasks):

- `Deal1D`, `Deal3D`: both splits fill the same number of places in every child,
  each with one task; `RankIsUnique` is the fact behind names;
- `ShapeTypes`, `ChildrenPartitionHolds`, `OneHeadHolds`, `NamesAreUniqueHolds`,
  `ReuseAgreesHolds`, `BlocksAreKeptHolds`: `Spec` implies `[]TypeOK`,
  `[]ChildrenPartition`, `[]OneHead`, `[]NamesAreUnique`, `[]ReuseAgrees`,
  `[]BlocksAreKept`.

`ShapeInv` is about every CD a task has ever made, on its path or in
`access_store_`: its types; the agreement of its tasks; that they are numbered
from 0; that it is a child of the CD one step up its path, created together with
all its siblings; and that CDs of one path with one rank are the same CD.
Agreement alone is not inductive: whether the tasks of a CD take the same branch
of the next Create depends on what they stored before. What `MPI_Comm_split` does
is a count of tasks (`CommSplitOfDeal`): a deal puts as many tasks before a task in
its colour as its number says. For `ChildrenPartition` the siblings matter: the
tasks of a CD all belong to the children of one deal. `BlocksAreKept` needs a second
invariant, `Blocks`: a CD made by 1D splits is a row of tasks, and one made by 3D
splits a cube that begins at a multiple of its side. The multiple is what makes
it inductive: a coordinate of a task is the side of a child times that of the
child, plus that of the task in it (`SplitCoordinates`), and the side of the child
divides that of the parent. `RootOfCube` is there because the code takes the side
from a rounded cube root.

How the proofs are laid out. A fact about sets or numbers whose own proof is
unlike the rest is a hypothesis of the lemmas that use it (`SetFacts`,
`CommSplitDeals`, `LeastNumber`), and is proved before the theorems, which do not
have it (`SetFactsHold`, `LeastNumberHolds`): no theorem is conditional on one. Lemmas
that serve one lemma only are its steps at level 0. A leaf without arithmetic
names Zenon, which decides it fastest.

Only model-checked: everything about `Rollback`, with the refinement
`CDsAreAtomic`, whose invariant would have to relate the tasks of every CD at
every pair of positions in a program; `MPIWrapper` and the data of
`Preserve`, which fold over sequences, and what a fold computes takes an induction
over data; `CountsTrackProgram` of `Preserve`, which folds nothing but holds only for
programs whose calls nest, which the module does not state; and liveness
(`ErrorReachesAll`, `WaitEnds`, `Termination`), which TLAPS does not do.

## Not modelled

- Entry search between tasks: `HandleEntrySearch` and `HandleEntrySend` are in
  the source, but nothing raises kEntrySearch. `CDEvent`: nothing uses it.
- The libc log and the libc plugins: `cd_malloc.cc` is commented out as a whole,
  and `CD_LIBC_LOGGING` is 0.
- The consumer thread of the data store takes no buffer, as nothing sets
  kEagerWriting; only its list of buffers is modelled. `ConsumeBuffer` waits
  before it tests its predicate, and `FreeData(false)` does not take the buffer
  off the list. kLocalDisk has a file handle of its own. `RestoreAll` reads into a
  fixed debug object.
- The tuned CD handle: only an interval of 1 works as the code stands.
- Of `Preserve`, two assertions in a re-execution: that preservation is switched
  on (`cd_internal.cc:2711`; an environment variable) and that a failure point is
  set (2721), which `PhaseTree` is about, with no map between the two modules.
- Error injection (random numbers), the profiler and runtime statistics (no
  decision depends on them), serialisation, recovery and regeneration objects
  (supplied by the user), the C interface (one-line calls), formatting, and the
  byte layout of logs, tables and files.
- The example applications under `src/`, which are most of its lines. The
  library itself is a quarter of them.
