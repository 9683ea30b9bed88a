------------------------------- MODULE Mailbox -------------------------------
(***************************************************************************)
(* Event delivery between the tasks of a job (cd_comm_internal.cc,         *)
(* event_handler.cc), at the grain of the one-sided MPI epochs.            *)
(*                                                                         *)
(* A task that finds an error reports kErrorOccurred to the head of a CD   *)
(* and sets rollback points; the head broadcasts kAllReexecute to every    *)
(* task of the CD, which sets its rollback point in turn.  A report        *)
(* takes two separate epochs: first the receiver's pending counter is      *)
(* incremented (pendingWindow_), then the event bit is OR-ed into its      *)
(* mailbox (mailbox_).  A receiver polls: CheckMailBox does nothing when   *)
(* the counter is 0; otherwise it copies and clears the bits of every CD   *)
(* of its path into a local FIFO (cd_event_), runs the handlers and takes  *)
(* what it handled off the counter.  Tasks are single threaded, so the     *)
(* local parts of a step are atomic and only epochs interleave.            *)
(***************************************************************************)
EXTENDS CDTree, Sequences

CONSTANTS
  MaxErrors,  \* bound: reports of kErrorOccurred in a behaviour
  MaxMoves    \* bound: Create/Begin/Complete/Destroy calls of each task

ASSUME MailboxBounds == MaxErrors \in Nat /\ MaxMoves \in [Task -> Nat]

VARIABLES
  pending,     \* *pendingFlag_ of each process; negative stands for the wrapped uint32
  errFlag,     \* <<c, s>>: kErrorOccurred of task s is set in the mailbox of c's head
  reexFlag,    \* <<c, t>>: kAllReexecute is set in task t's mailbox of c
  queue,       \* cd_event_: static, so one FIFO per process
  handled,     \* EventHandler::handled_event_count
  errOcc,      \* HeadCD::error_occurred
  rb,          \* *rollback_point_ of each process
  cur,         \* level of CDPath::GetCurrentCD()
  len,         \* level of CDPath::back(): cur, or cur + 1 when the leaf is suspended
  made,        \* access_store_: the levels a task has created before
  pc, at, lv, todo, fly, event_count,  \* control state of a call in progress,
                                      \* back to a default when it returns
  lost,        \* history: a re-creation has reset a counter that was not 0
  nerr, moves

posts == <<lost, nerr, moves>>
path  == <<cur, len, made>>
flags == <<errFlag, reexFlag>>
ctl   == <<pc, at, lv, todo, fly, event_count>>
mvars == <<pending, errFlag, reexFlag, queue, handled, errOcc, rb, cur, len, made,
           pc, at, lv, todo, fly, event_count, lost, nerr, moves>>

NoTask == -1
NoCd   == "none"

Handlers == [ev : {"ErrorOccurred", "AllReexecute"}, cd : Shared]

MInit ==
  /\ pending = [t \in Task |-> 0]
  /\ errFlag = {} /\ reexFlag = {}
  /\ queue = [t \in Task |-> <<>>]
  /\ handled = [t \in Task |-> 0]
  /\ errOcc = [c \in Shared |-> FALSE]
  /\ rb = [t \in Task |-> INVALID]
  /\ cur = [t \in Task |-> 0] /\ len = [t \in Task |-> 0] /\ made = [t \in Task |-> {0}]
  /\ pc = [t \in Task |-> "run"]
  /\ at = [t \in Task |-> NoCd]
  /\ lv = [t \in Task |-> -1]
  /\ todo = [t \in Task |-> {}]
  /\ fly = [t \in Task |-> NoTask]
  /\ event_count = [t \in Task |-> 0]
  /\ lost = [t \in Task |-> FALSE]
  /\ nerr = 0 /\ moves = [t \in Task |-> 0]

Lowest(S) == CHOOSE i \in S : \A j \in S : i <= j

----------------------------------------------------------------------------
(* Sending                                                                  *)

\* LocalSetMailBox(kErrorOccurred): a head that reports to itself.
LocalSetMailBox(t, c) ==
  /\ IsHead(t, c)
  /\ pending' = [pending EXCEPT ![t] = @ + 1]
  /\ queue' = [queue EXCEPT ![t] = Append(@, [ev |-> "ErrorOccurred", cd |-> c])]
  /\ errFlag' = errFlag \ {<<c, t>>}
  /\ errOcc' = [errOcc EXCEPT ![c] = TRUE]
  /\ pc' = [pc EXCEPT ![t] = "check"]
  /\ UNCHANGED <<reexFlag, handled, rb, path, at, fly, event_count>>

\* Mutant: the report is sent without counting it.
RemoteSetMailBoxUncounted(t, c) ==
  /\ ~IsHead(t, c)
  /\ fly' = [fly EXCEPT ![t] = HeadOf[c]]
  /\ at' = [at EXCEPT ![t] = c]
  /\ pc' = [pc EXCEPT ![t] = "post"]
  /\ UNCHANGED <<pending, flags, queue, handled, errOcc, rb, path, event_count>>

\* RemoteSetMailBox, first epoch: the head's pending counter.
RemoteSetMailBox(t, c) ==
  /\ ~IsHead(t, c)
  /\ pending' = [pending EXCEPT ![HeadOf[c]] = @ + 1]
  /\ fly' = [fly EXCEPT ![t] = HeadOf[c]]
  /\ at' = [at EXCEPT ![t] = c]
  /\ pc' = [pc EXCEPT ![t] = "post"]
  /\ UNCHANGED <<flags, queue, handled, errOcc, rb, path, event_count>>

\* RemoteSetMailBox, second epoch: the sender's slot of the head's mailbox.
RemoteSetFlag(t) ==
  /\ pc[t] = "post"
  /\ errFlag' = errFlag \cup {<<at[t], t>>}
  /\ fly' = [fly EXCEPT ![t] = NoTask]
  /\ at' = [at EXCEPT ![t] = NoCd]
  /\ pc' = [pc EXCEPT ![t] = "check"]
  /\ UNCHANGED <<pending, reexFlag, queue, handled, errOcc, rb, path, lv, todo,
                 event_count, posts>>

\* SetMailBox(kErrorOccurred) on a CD of the path.
SetMailBox(t, c) == LocalSetMailBox(t, c) \/ RemoteSetMailBox(t, c)

\* No other task shares the CD, or its head needs no report: no mailbox is written.
NoMailBox(t) ==
  /\ pc' = [pc EXCEPT ![t] = "check"]
  /\ UNCHANGED <<pending, flags, queue, handled, errOcc, rb, path, at, fly, event_count>>

\* What the call does next, before its CheckMailBox (pc "check"): SetRollbackPoint(l) for
\* the tasks S.
ThenSet(t, S, l) ==
  /\ todo' = [todo EXCEPT ![t] = S]
  /\ lv' = [lv EXCEPT ![t] = l]

\* An error is found.
Fails(t) ==
  /\ pc[t] = "run" /\ nerr < MaxErrors
  /\ nerr' = nerr + 1 /\ UNCHANGED <<lost, moves>>

\* Detect, for an error that rolls level l back.  A task of a shared CD sets the rollback
\* point of its head, too; one alone in its CD leaves a shared one above it to the head
\* there and sets its own level only.
Detect(t) ==
  /\ Fails(t)
  /\ \E l \in 0 .. cur[t] :
       LET c == GetCDLevel(t, cur[t])
           d == GetCDLevel(t, l)
       IN  \/ /\ d \in Shared
              /\ SetMailBox(t, d)
              /\ IF c \in Shared THEN ThenSet(t, {t, HeadOf[c]}, l)
                                 ELSE ThenSet(t, {t}, IF IsHead(t, d) THEN l ELSE cur[t])
           \/ d \notin Shared /\ NoMailBox(t) /\ ThenSet(t, {t}, l)

\* CD::Assert of the CD at level l.  A head asserts in its own CD without a report, any
\* other task of a shared CD with nothing but one.
Assert(t) ==
  /\ Fails(t)
  /\ \E l \in 0 .. cur[t] :
       LET d == GetCDLevel(t, l)
       IN  \/ /\ d \in Shared /\ (l = cur[t] => ~IsHead(t, d))
              /\ SetMailBox(t, d)
              /\ ThenSet(t, IF l = cur[t] THEN {} ELSE {t}, l)
           \/ /\ d \in Shared => l = cur[t] /\ IsHead(t, d)
              /\ NoMailBox(t) /\ ThenSet(t, {t}, l)

\* The minimum is kept.
LowerRollbackPoint(t, l) == rb' = [rb EXCEPT ![t] = MinOf(@, l)]

\* SetRollbackPoint: an epoch at the head (remote = true), then one at the task itself.
SetRollbackPoint(t) ==
  /\ pc[t] = "check"
  /\ \E u \in todo[t] :
       /\ u = t => todo[t] = {t}
       /\ LowerRollbackPoint(u, lv[t])
       /\ todo' = [todo EXCEPT ![t] = @ \ {u}]
  /\ UNCHANGED <<pending, flags, queue, handled, errOcc, path, pc, at, lv, fly, event_count,
                 posts>>

----------------------------------------------------------------------------
(* Receiving: CheckMailBox                                                  *)

\* Mutant: the scan starts at the leaf, although it may be suspended.
CheckMailBoxFromLeaf(t) ==
  /\ pc[t] \in {"run", "check"} /\ todo[t] = {}
  /\ event_count' = [event_count EXCEPT ![t] = pending[t]]
  /\ lv' = [lv EXCEPT ![t] = IF pending[t] # 0 THEN len[t] ELSE -1]
  /\ pc' = [pc EXCEPT ![t] = IF pending[t] # 0 THEN "scan"
                             ELSE IF queue[t] # <<>> THEN "drain" ELSE "run"]
  /\ UNCHANGED <<pending, flags, queue, handled, errOcc, rb, path, at, todo, fly, posts>>

\* CheckMailBox reads the counter.
CheckMailBox(t) ==
  /\ pc[t] \in {"run", "check"} /\ todo[t] = {}
  /\ event_count' = [event_count EXCEPT ![t] = pending[t]]
  /\ lv' = [lv EXCEPT ![t] = IF pending[t] # 0 THEN cur[t] ELSE -1]
  /\ pc' = [pc EXCEPT ![t] = IF pending[t] # 0 THEN "scan"
                             ELSE IF queue[t] # <<>> THEN "drain" ELSE "run"]
  /\ UNCHANGED <<pending, flags, queue, handled, errOcc, rb, path, at, todo, fly, posts>>

\* The slots of c's mailbox that are set for t: the senders for the head, t itself
\* for any other task.
GetEventFlag(t, c) ==
  IF IsHead(t, c) THEN {s \in Member[c] : <<c, s>> \in errFlag}
                  ELSE {s \in {t} : <<c, s>> \in reexFlag}

\* InternalCheckMailBox of the CD at level lv: a copy of its flags, under the lock.
InternalCheckMailBox(t) ==
  /\ pc[t] = "scan" /\ lv[t] >= 0
  /\ LET c == GetCDLevel(t, lv[t])
         snap == IF c \in Shared THEN GetEventFlag(t, c) ELSE {}
     IN  /\ at' = [at EXCEPT ![t] = IF snap = {} THEN NoCd ELSE c]
         /\ todo' = [todo EXCEPT ![t] = snap]
         /\ pc' = [pc EXCEPT ![t] = IF snap = {} THEN "scan" ELSE "read"]
  /\ lv' = [lv EXCEPT ![t] = @ - 1]
  /\ UNCHANGED <<pending, flags, queue, handled, errOcc, rb, path, fly, event_count, posts>>

\* ReadMailBox for one slot: push its handler and clear the bit.  The head pushes
\* one HandleErrorOccurred for all senders and counts the others as handled.
ReadMailBox(t) ==
  /\ pc[t] = "read"
  /\ LET c == at[t]
         s == Lowest(todo[t])
     IN  /\ IF IsHead(t, c)
            THEN /\ IF errOcc[c]
                    THEN /\ handled' = [handled EXCEPT ![t] = @ + 1]
                         /\ UNCHANGED <<queue, errOcc>>
                    ELSE /\ queue' = [queue EXCEPT ![t] =
                                        Append(@, [ev |-> "ErrorOccurred", cd |-> c])]
                         /\ errOcc' = [errOcc EXCEPT ![c] = TRUE]
                         /\ UNCHANGED handled
                 /\ errFlag' = errFlag \ {<<c, s>>}
                 /\ UNCHANGED reexFlag
            ELSE /\ queue' = [queue EXCEPT ![t] =
                                Append(@, [ev |-> "AllReexecute", cd |-> c])]
                 /\ reexFlag' = reexFlag \ {<<c, t>>}
                 /\ UNCHANGED <<handled, errOcc, errFlag>>
         /\ todo' = [todo EXCEPT ![t] = @ \ {s}]
         /\ pc' = [pc EXCEPT ![t] = IF todo[t] = {s} THEN "scan" ELSE "read"]
         /\ at' = [at EXCEPT ![t] = IF todo[t] = {s} THEN NoCd ELSE c]
  /\ UNCHANGED <<pending, rb, path, lv, fly, event_count, posts>>

\* The root has been read: handlers run only if some event was found.
ScanEnd(t) ==
  /\ pc[t] = "scan" /\ lv[t] < 0
  /\ pc' = [pc EXCEPT ![t] = IF queue[t] = <<>> THEN "run" ELSE "drain"]
  /\ event_count' = [event_count EXCEPT ![t] = IF queue[t] = <<>> THEN 0 ELSE @]
  /\ UNCHANGED <<pending, flags, queue, handled, errOcc, rb, path, at, lv, todo, fly, posts>>

----------------------------------------------------------------------------
(* Handling: InvokeAllErrorHandler                                          *)

\* The handler at the front is done: IncHandledEventCounter, pop_front.
PopHandled(t) ==
  /\ handled' = [handled EXCEPT ![t] = @ + 1]
  /\ queue' = [queue EXCEPT ![t] = Tail(@)]

HandleAllReexecute(t) ==
  /\ pc[t] = "drain" /\ queue[t] # <<>> /\ Head(queue[t]).ev = "AllReexecute"
  /\ LowerRollbackPoint(t, Level[Head(queue[t]).cd])
  /\ PopHandled(t)
  /\ UNCHANGED <<pending, flags, errOcc, path, ctl, posts>>

\* Mutant: the broadcast loop skips the first task of the CD.
HandleErrorOccurredSkipFirst(t) ==
  /\ pc[t] = "drain" /\ queue[t] # <<>> /\ Head(queue[t]).ev = "ErrorOccurred"
  /\ LET c == Head(queue[t]).cd
     IN  /\ pc' = [pc EXCEPT ![t] = "cast"]
         /\ at' = [at EXCEPT ![t] = c]
         /\ todo' = [todo EXCEPT ![t] = Member[c] \ {Lowest(Member[c])}]
  /\ UNCHANGED <<pending, flags, queue, handled, errOcc, rb, path, lv, fly, event_count, posts>>

\* HandleErrorOccurred for a CD the task is (still) in: broadcast.  For a CD below the
\* current one the rollback point is only set locally.
HandleErrorOccurred(t) ==
  /\ pc[t] = "drain" /\ queue[t] # <<>> /\ Head(queue[t]).ev = "ErrorOccurred"
  /\ LET c == Head(queue[t]).cd
     IN  IF Level[c] <= cur[t]
         THEN /\ pc' = [pc EXCEPT ![t] = "cast"]
              /\ at' = [at EXCEPT ![t] = c]
              /\ todo' = [todo EXCEPT ![t] = Member[c]]
              /\ UNCHANGED <<rb, handled, queue, errOcc>>
         ELSE /\ LowerRollbackPoint(t, Level[c])
              /\ PopHandled(t)
              /\ errOcc' = [errOcc EXCEPT ![c] = FALSE]
              /\ UNCHANGED <<pc, at, todo>>
  /\ UNCHANGED <<pending, flags, path, lv, fly, event_count, posts>>

\* SetMailBox(kAllReexecute, i) of the broadcast: LocalSetMailBox for the head itself,
\* the first of two epochs for another task.
Broadcast(t) ==
  /\ pc[t] = "cast" /\ todo[t] # {}
  /\ LET i == Lowest(todo[t])
     IN  /\ pending' = [pending EXCEPT ![i] = @ + 1]
         /\ IF i = t
            THEN /\ queue' = [queue EXCEPT ![t] =
                                Append(@, [ev |-> "AllReexecute", cd |-> at[t]])]
                 /\ todo' = [todo EXCEPT ![t] = @ \ {i}]
                 /\ UNCHANGED <<fly, pc>>
            ELSE /\ fly' = [fly EXCEPT ![t] = i]
                 /\ pc' = [pc EXCEPT ![t] = "castpost"]
                 /\ UNCHANGED <<queue, todo>>
  /\ UNCHANGED <<flags, handled, errOcc, rb, path, at, lv, event_count, posts>>

\* The second epoch: the receiver's slot.
BroadcastFlag(t) ==
  /\ pc[t] = "castpost"
  /\ reexFlag' = reexFlag \cup {<<at[t], fly[t]>>}
  /\ todo' = [todo EXCEPT ![t] = @ \ {fly[t]}]
  /\ fly' = [fly EXCEPT ![t] = NoTask]
  /\ pc' = [pc EXCEPT ![t] = "cast"]
  /\ UNCHANGED <<pending, errFlag, queue, handled, errOcc, rb, path, at, lv, event_count,
                 posts>>

\* Mutant: error_occurred stays set after the broadcast.
BroadcastEndKeepsFlag(t) ==
  /\ pc[t] = "cast" /\ todo[t] = {}
  /\ PopHandled(t)
  /\ at' = [at EXCEPT ![t] = NoCd]
  /\ pc' = [pc EXCEPT ![t] = "drain"]
  /\ UNCHANGED <<pending, flags, errOcc, rb, path, lv, todo, fly, event_count, posts>>

\* The end of HandleErrorOccurred.
BroadcastEnd(t) ==
  /\ pc[t] = "cast" /\ todo[t] = {}
  /\ PopHandled(t)
  /\ errOcc' = [errOcc EXCEPT ![at[t]] = FALSE]
  /\ at' = [at EXCEPT ![t] = NoCd]
  /\ pc' = [pc EXCEPT ![t] = "drain"]
  /\ UNCHANGED <<pending, flags, rb, path, lv, todo, fly, event_count, posts>>

\* Mutant: the counter is decremented by the value it had when it was read.
DecPendingCounterAsRead(t) ==
  /\ pc[t] = "drain" /\ queue[t] = <<>>
  /\ pending' = [pending EXCEPT ![t] = @ - event_count[t]]
  /\ handled' = [handled EXCEPT ![t] = 0]
  /\ event_count' = [event_count EXCEPT ![t] = 0]
  /\ pc' = [pc EXCEPT ![t] = "run"]
  /\ UNCHANGED <<flags, queue, errOcc, rb, path, at, lv, todo, fly, posts>>

\* Mutant: handled_event_count is not reset.
DecPendingCounterNoReset(t) ==
  /\ pc[t] = "drain" /\ queue[t] = <<>>
  /\ pending' = [pending EXCEPT ![t] = @ - handled[t]]
  /\ event_count' = [event_count EXCEPT ![t] = 0]
  /\ pc' = [pc EXCEPT ![t] = "run"]
  /\ UNCHANGED <<flags, queue, handled, errOcc, rb, path, at, lv, todo, fly, posts>>

\* The FIFO is empty: DecPendingCounter, unless the handlers were invoked with a
\* counter that read 0.
DecPendingCounter(t) ==
  /\ pc[t] = "drain" /\ queue[t] = <<>>
  /\ IF event_count[t] = 0
     THEN UNCHANGED <<pending, handled>>
     ELSE /\ pending' = [pending EXCEPT ![t] = @ - handled[t]]
          /\ handled' = [handled EXCEPT ![t] = 0]
  /\ event_count' = [event_count EXCEPT ![t] = 0]
  /\ pc' = [pc EXCEPT ![t] = "run"]
  /\ UNCHANGED <<flags, queue, errOcc, rb, path, at, lv, todo, fly, posts>>

----------------------------------------------------------------------------
(* What the operations of a CD do to the mailbox state.  Their collective   *)
(* decisions, and the rendezvous of SyncCDs, are the subject of Rollback.   *)

Move(t) ==
  /\ pc[t] = "run" /\ moves[t] < MaxMoves[t]
  /\ moves' = [moves EXCEPT ![t] = @ + 1]
  /\ UNCHANGED <<nerr, ctl, errOcc>>

\* The flags a task owns in the mailbox of c.
OwnErrFlags(t, c)  == {p \in errFlag : p[1] = c /\ IsHead(t, c)}
OwnReexFlags(t, c) == {p \in reexFlag : p = <<c, t>>}

\* Create of a CD this task has not created before: new windows, flags 0.
Create(t) ==
  /\ Move(t)
  /\ len[t] = cur[t] /\ len[t] < MaxLevel /\ (len[t] + 1) \notin made[t]
  /\ len' = [len EXCEPT ![t] = @ + 1]
  /\ made' = [made EXCEPT ![t] = @ \cup {len[t] + 1}]
  /\ UNCHANGED <<pending, flags, queue, handled, rb, cur, lost>>

\* Create of a CD found in access_store_: CD::Initialize calls InitializeMailBox,
\* which resets the counter and the rollback point of the whole process.
Recreate(t) ==
  /\ Move(t)
  /\ len[t] = cur[t] /\ len[t] < MaxLevel /\ (len[t] + 1) \in made[t]
  /\ LET c == GetCDLevel(t, len[t] + 1)
     IN  /\ errFlag' = errFlag \ OwnErrFlags(t, c)
         /\ reexFlag' = reexFlag \ OwnReexFlags(t, c)
  /\ pending' = [pending EXCEPT ![t] = 0]
  /\ rb' = [rb EXCEPT ![t] = INVALID]
  /\ len' = [len EXCEPT ![t] = @ + 1]
  /\ lost' = [lost EXCEPT ![t] = @ \/ pending[t] # 0]
  /\ UNCHANGED <<queue, handled, cur, made>>

\* SyncCDs(c): a task whose rollback point is r takes over a lower one of a task of c.
SyncCDs(t, c, r) ==
  \E q \in {r} \cup {MinOf(r, rb[u]) : u \in {s \in Member[c] : c \in Shared}} :
     rb' = [rb EXCEPT ![t] = q]

\* Begin: the suspended CD becomes the current one.  Called with collective = true
\* or to re-execute it also resets the rollback point, before SyncCDs.
Begin(t) ==
  /\ Move(t)
  /\ len[t] = cur[t] + 1
  /\ cur' = [cur EXCEPT ![t] = @ + 1]
  /\ \E r \in {rb[t], INVALID} : SyncCDs(t, GetCDLevel(t, len[t]), r)
  /\ UNCHANGED <<pending, flags, queue, handled, len, made, lost>>

\* Mutant: the root is completed like any other CD, and nothing is left above it.
CompleteAnyLevel(t) ==
  /\ Move(t)
  /\ len[t] = cur[t]
  /\ cur' = [cur EXCEPT ![t] = @ - 1]
  /\ SyncCDs(t, GetCDLevel(t, len[t]), rb[t])
  /\ UNCHANGED <<pending, flags, queue, handled, len, made, lost>>

\* Complete: the current CD is suspended, after SyncCDs.
Complete(t) ==
  /\ Move(t)
  /\ len[t] = cur[t] /\ cur[t] > 0
  /\ cur' = [cur EXCEPT ![t] = @ - 1]
  /\ SyncCDs(t, GetCDLevel(t, len[t]), rb[t])
  /\ UNCHANGED <<pending, flags, queue, handled, len, made, lost>>

\* Destroy: FinalizeMailBox counts and clears what is left in the mailbox.
Destroy(t) ==
  /\ Move(t)
  /\ len[t] = cur[t] + 1
  /\ LET c == GetCDLevel(t, len[t])
     IN  /\ errFlag' = errFlag \ OwnErrFlags(t, c)
         /\ reexFlag' = reexFlag \ OwnReexFlags(t, c)
         /\ pending' = [pending EXCEPT ![t] = @ - handled[t]
                            - Cardinality(OwnErrFlags(t, c))
                            - Cardinality(OwnReexFlags(t, c))]
  /\ handled' = [handled EXCEPT ![t] = 0]
  /\ len' = [len EXCEPT ![t] = @ - 1]
  /\ UNCHANGED <<queue, rb, cur, made, lost>>

----------------------------------------------------------------------------

\* The calls in progress advance.
Progress(t) ==
  \/ RemoteSetFlag(t) \/ SetRollbackPoint(t)
  \/ InternalCheckMailBox(t) \/ ReadMailBox(t) \/ ScanEnd(t)
  \/ HandleAllReexecute(t) \/ HandleErrorOccurred(t)
  \/ Broadcast(t) \/ BroadcastFlag(t) \/ BroadcastEnd(t)
  \/ DecPendingCounter(t)

Calls(t) ==
  \/ Detect(t) \/ Assert(t) \/ CheckMailBox(t)
  \/ Create(t) \/ Recreate(t) \/ Begin(t) \/ Complete(t) \/ Destroy(t)

MNext == \E t \in Task : Progress(t) \/ Calls(t)

MSpec == MInit /\ [][MNext]_mvars

\* Every task that is running finishes its call and polls again: Begin, Complete,
\* Detect, Create and the wait loops of the MPI wrappers all call CheckMailBox.
MFairSpec == MSpec /\ \A t \in Task : WF_mvars(Progress(t) \/ CheckMailBox(t))
----------------------------------------------------------------------------
(* Properties                                                               *)

MTypeOK ==
  /\ pending \in [Task -> Int]
  /\ errFlag \subseteq Shared \X Task
  /\ reexFlag \subseteq Shared \X Task
  /\ queue \in [Task -> Seq(Handlers)]
  /\ handled \in [Task -> Nat]
  /\ errOcc \in [Shared -> BOOLEAN]
  /\ rb \in [Task -> RollbackPoints]
  /\ cur \in [Task -> Levels] /\ len \in [Task -> Levels]
  /\ made \in [Task -> SUBSET Levels]
  /\ pc \in [Task -> {"run", "post", "check", "scan", "read", "drain", "cast", "castpost"}]
  /\ at \in [Task -> Cd \cup {NoCd}]
  /\ lv \in [Task -> Int]
  /\ todo \in [Task -> SUBSET Task]
  /\ fly \in [Task -> Task \cup {NoTask}]
  /\ event_count \in [Task -> Int]
  /\ lost \in [Task -> BOOLEAN]
  /\ nerr \in Nat /\ moves \in [Task -> Nat]

\* What is on its way to t: bits set for it, and posts between their two epochs.
ErrFor(t)  == {p \in errFlag : HeadOf[p[1]] = t}
ReexFor(t) == {p \in reexFlag : p[2] = t}
FlyTo(t)   == {s \in Task : fly[s] = t}

\* The pending counter of a process never falls below the events it stands for:
\* posts between their two epochs, bits set in its mailboxes, handlers in its FIFO
\* and handled events not yet taken off.  (It may be larger: two reports of one task
\* merge into one bit.)  This is what lets CheckMailBox skip every mailbox when the
\* counter reads 0 without missing an event.  Only a re-creation that resets the
\* counter with events pending breaks it; module Rollback shows what follows.
EventsAreCounted ==
  \A t \in Task :
    ~lost[t] =>
      pending[t] >= Cardinality(ErrFor(t)) + Cardinality(ReexFor(t))
                    + Cardinality(FlyTo(t)) + Len(queue[t]) + handled[t]

\* assert(EventHandler::handled_event_count == 0) in CheckMailBox: whatever a call
\* handled has been taken off the counter when the call returns.
HandledTakenOff ==
  \A t \in Task : pc[t] \in {"run", "check"} /\ ~lost[t] => handled[t] = 0

\* error_occurred lets the head drop a report as a duplicate: only when a
\* HandleErrorOccurred of that CD is still to run, so the drop loses nothing.
DuplicateHasBroadcast ==
  \A c \in Shared : errOcc[c] =>
    \E i \in 1 .. Len(queue[HeadOf[c]]) :
       queue[HeadOf[c]][i] = [ev |-> "ErrorOccurred", cd |-> c]

\* "Invalid rollback level %u. It cannot be larger than current level %u": no handler
\* of a CD below the current one is ever in the FIFO.
HandlersAreOnPath ==
  \A t \in Task : \A i \in 1 .. Len(queue[t]) : Level[queue[t][i].cd] <= cur[t]

\* A reported error reaches every task of the CD: its rollback point is lowered to
\* that CD, unless the head or the task leaves the CD, or has its counter reset, first.
ErrorReachesAll ==
  \A c \in Shared : \A t \in Member[c] :
    (\E s \in Member[c] : <<c, s>> \in errFlag) ~>
      \/ rb[t] <= Level[c]
      \/ \E u \in {t, HeadOf[c]} : cur[u] < Level[c] \/ lost[u]
=============================================================================
