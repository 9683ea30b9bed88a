---------------------------- MODULE NoticeProofs ----------------------------
(***************************************************************************)
(* What one step does to the handlers a process has queued: they belong to *)
(* CDs it is still in, and every step of the mailboxes is a step of        *)
(* ErrorNotice or none.  MailboxTheorems has the theorems that follow, for *)
(* every tree of CDs and any number of tasks, errors and calls.            *)
(***************************************************************************)
EXTENDS MailboxNotice, MailboxProofs

\* Every handler of the FIFO q is for a CD at level l or above.
Below(q, l) == \A i \in 1 .. Len(q) : Level[q[i].cd] <= l

\* Why that is so: a call returns only when the FIFO is empty, so that no handler is left
\* when a task leaves its CD, and a scan of the mailboxes stays at or above the current CD.
PathOK(t) ==
  /\ Below(queue[t], cur[t])
  /\ pc[t] \in {"run", "post"} => queue[t] = <<>>
  /\ pc[t] = "scan" => lv[t] <= cur[t]
  /\ pc[t] = "read" => lv[t] <= cur[t] /\ Level[at[t]] <= cur[t]

PathState == \A t \in Task : PathOK(t)

----------------------------------------------------------------------------
(* Facts about the FIFO and the path                                        *)

\* An empty FIFO holds no handler.
LEMMA BelowEmpty == \A l : Below(<<>>, l)
<1>1. Len(<<>>) = 0
  BY Zenon
<1>. QED
  BY <1>1 DEF Below

\* Pushing a handler of a CD of the path.
LEMMA BelowAppend ==
  ASSUME NEW q \in Seq(Handlers), NEW h \in Handlers, NEW l, Below(q, l), Level[h.cd] <= l
  PROVE  Below(Append(q, h), l)
<1>1. Len(Append(q, h)) = Len(q) + 1 /\ Len(q) \in Nat
  OBVIOUS
<1>2. ASSUME NEW i \in 1 .. Len(q) PROVE Append(q, h)[i] = q[i]
  BY <1>2
<1>3. Append(q, h)[Len(q) + 1] = h
  OBVIOUS
<1>4. ASSUME NEW i \in 1 .. Len(Append(q, h)) PROVE Level[Append(q, h)[i].cd] <= l
  <2>1. i \in 1 .. Len(q) \/ i = Len(q) + 1
    BY <1>1, <1>4
  <2>. QED
    BY <1>2, <1>3, <2>1, Zenon DEF Below
<1>. QED
  BY <1>4, Zenon DEF Below

\* Taking the handler at the front off.
LEMMA BelowTail ==
  ASSUME NEW q \in Seq(Handlers), q # <<>>, NEW l, Below(q, l)
  PROVE  Below(Tail(q), l)
<1>1. Len(Tail(q)) = Len(q) - 1 /\ Len(q) \in Nat /\ Len(q) > 0
  OBVIOUS
<1>2. ASSUME NEW i \in 1 .. Len(Tail(q)) PROVE Tail(q)[i] = q[i + 1]
  BY <1>2
<1>3. ASSUME NEW i \in 1 .. Len(Tail(q)) PROVE Level[Tail(q)[i].cd] <= l
  <2>1. i + 1 \in 1 .. Len(q)
    BY <1>1, <1>3
  <2>. QED
    BY <1>2, <2>1, Zenon DEF Below
<1>. QED
  BY <1>3, Zenon DEF Below

\* The handler at the front is for a CD of the path.
LEMMA BelowHead ==
  ASSUME NEW q \in Seq(Handlers), q # <<>>, NEW l, Below(q, l)
  PROVE  Level[Head(q).cd] <= l /\ Head(q) \in Handlers
<1>1. Len(q) \in Nat /\ Len(q) > 0 /\ Head(q) = q[1] /\ Head(q) \in Handlers
  OBVIOUS
<1>. QED
  BY <1>1 DEF Below

\* A task that is not inside a call, and whose FIFO is empty.
LEMMA Idle ==
  ASSUME NEW t \in Task, pc'[t] \in {"run", "post", "check", "drain"}, queue'[t] = <<>>
  PROVE  PathOK(t)'
BY BelowEmpty, Zenon DEF PathOK

----------------------------------------------------------------------------
(* The steps                                                                *)

\* No step of a task touches the FIFO, the path or the call of another task.
LEMMA OwnStep ==
  ASSUME TInv, NEW t \in Task, Progress(t) \/ Calls(t), NEW u \in Task, u # t, PathOK(u)
  PROVE  PathOK(u)'
<1>0. /\ queue \in [Task -> Seq(Handlers)] /\ cur \in [Task -> Levels] /\ lv \in [Task -> Int]
      /\ at \in [Task -> Cd \cup {NoCd}]
      /\ pc \in [Task -> {"run", "post", "check", "scan", "read", "drain", "cast", "castpost"}]
  BY Zenon DEF TInv, MTypeOK
<1>1. SUFFICES /\ queue'[u] = queue[u] /\ cur'[u] = cur[u] /\ lv'[u] = lv[u]
               /\ at'[u] = at[u] /\ pc'[u] = pc[u]
  BY Zenon DEF PathOK, Below
<1>2. CASE RemoteSetFlag(t) \/ InternalCheckMailBox(t) \/ ScanEnd(t)
  BY <1>0, <1>2, Zenon DEF RemoteSetFlag, InternalCheckMailBox, ScanEnd, path
<1>3. CASE ReadMailBox(t)
  <2>1. queue'[u] = queue[u]
    BY <1>0, <1>3, Zenon DEF ReadMailBox
  <2>. QED
    BY <1>0, <1>3, <2>1, Zenon DEF ReadMailBox, path
<1>4. CASE HandleAllReexecute(t) \/ HandleErrorOccurred(t)
  BY <1>0, <1>4, Zenon DEF HandleAllReexecute, HandleErrorOccurred, PopHandled, path, ctl
<1>5. CASE Broadcast(t)
  BY <1>0, <1>5, Zenon DEF Broadcast, path
<1>6. CASE BroadcastFlag(t) \/ BroadcastEnd(t) \/ DecPendingCounter(t)
  BY <1>0, <1>6, Zenon DEF BroadcastFlag, BroadcastEnd, DecPendingCounter, PopHandled, path
<1>7. CASE Detect(t) \/ Assert(t)
  <2>1. OneReport(t) /\ \E S \in SUBSET Heads(t), l \in Levels : ThenSet(t, S, l)
    BY <1>7, FindsError, Zenon DEF TInv
  <2>2. lv'[u] = lv[u]
    BY <1>0, <2>1, Zenon DEF ThenSet
  <2>. QED
    BY <1>0, <2>1, <2>2, ZenonT(30) DEF OneReport, LocalSetMailBox, RemoteSetMailBox, NoMailBox, path
<1>8. CASE CheckMailBox(t) \/ SetRollbackPoint(t)
  BY <1>0, <1>8, Zenon DEF CheckMailBox, SetRollbackPoint, path
<1>9. CASE Create(t) \/ Recreate(t) \/ Begin(t) \/ Complete(t) \/ Destroy(t)
  BY <1>0, <1>9, Zenon DEF Create, Recreate, Begin, Complete, Destroy, Move, ctl
<1>. QED
  BY <1>2, <1>3, <1>4, <1>5, <1>6, <1>7, <1>8, <1>9, Zenon DEF Progress, Calls

\* The types a step of t needs of its own state.
LEMMA OwnTypes ==
  ASSUME TInv, NEW t \in Task
  PROVE  /\ queue[t] \in Seq(Handlers) /\ queue \in [Task -> Seq(Handlers)]
         /\ cur[t] \in Levels /\ cur[t] \in Int /\ cur \in [Task -> Levels]
         /\ lv[t] \in Int /\ lv \in [Task -> Int]
         /\ at \in [Task -> Cd \cup {NoCd}]
         /\ pc \in [Task -> {"run", "post", "check", "scan", "read", "drain", "cast", "castpost"}]
         /\ pc[t] \in {"run", "post", "check", "scan", "read", "drain", "cast", "castpost"}
<1>1. /\ queue \in [Task -> Seq(Handlers)] /\ cur \in [Task -> Levels] /\ lv \in [Task -> Int]
      /\ at \in [Task -> Cd \cup {NoCd}]
      /\ pc \in [Task -> {"run", "post", "check", "scan", "read", "drain", "cast", "castpost"}]
  BY Zenon DEF TInv, MTypeOK
<1>2. cur[t] \in Levels /\ Levels \subseteq Int
  BY <1>1, TreeAssumption DEF Levels
<1>. QED
  BY <1>1, <1>2, Zenon

\* A call in progress keeps PathOK of its task: it queues handlers only of CDs it found
\* while it scanned upwards from the current CD, or of the CD it broadcasts for, and it
\* returns with an empty FIFO.
LEMMA ProgressOnPath ==
  ASSUME TInv, NEW t \in Task, Progress(t), PathOK(t)
  PROVE  PathOK(t)'
<1>0. CallOK(t)
  BY Zenon DEF TInv, CallState
<1>t. /\ queue[t] \in Seq(Handlers) /\ queue \in [Task -> Seq(Handlers)]
      /\ cur[t] \in Levels /\ cur[t] \in Int /\ lv[t] \in Int /\ lv \in [Task -> Int]
      /\ at \in [Task -> Cd \cup {NoCd}]
      /\ pc \in [Task -> {"run", "post", "check", "scan", "read", "drain", "cast", "castpost"}]
  BY OwnTypes, Zenon
<1>1. CASE RemoteSetFlag(t)
  <2>1. queue'[t] = <<>> /\ pc'[t] = "check"
    BY <1>t, <1>1, Zenon DEF RemoteSetFlag, PathOK
  <2>. QED
    BY <2>1, Idle, Zenon
<1>2. CASE InternalCheckMailBox(t)
  <2> DEFINE c == GetCDLevel(t, lv[t])
             snap == IF c \in Shared THEN GetEventFlag(t, c) ELSE {}
  <2>1. lv[t] \in Levels /\ lv[t] <= cur[t]
    <3>1. pc[t] = "scan" /\ lv[t] >= 0
      BY <1>2, Zenon DEF InternalCheckMailBox
    <3>2. lv[t] <= cur[t]
      BY <3>1, Zenon DEF PathOK
    <3>. QED
      BY <1>t, <3>1, <3>2, TreeAssumption DEF Levels
  <2>2. Level[c] = lv[t]
    BY <2>1, LevelIsOwn, Zenon
  <2> HIDE DEF c, snap
  <2>3. /\ at' = [at EXCEPT ![t] = IF snap = {} THEN NoCd ELSE c]
        /\ pc' = [pc EXCEPT ![t] = IF snap = {} THEN "scan" ELSE "read"]
        /\ lv' = [lv EXCEPT ![t] = @ - 1] /\ UNCHANGED <<queue, cur>>
    BY <1>2, Zenon DEF InternalCheckMailBox, path, c, snap
  <2>4. /\ pc'[t] = "scan" \/ (pc'[t] = "read" /\ at'[t] = c)
        /\ lv'[t] = lv[t] - 1
    BY <1>t, <2>3, Zenon
  <2>. QED
    BY <1>t, <2>1, <2>2, <2>3, <2>4 DEF PathOK
<1>3. CASE ReadMailBox(t)
  <2>1. /\ pc[t] = "read" /\ lv[t] <= cur[t] /\ Level[at[t]] <= cur[t] /\ at[t] \in Shared
        /\ Below(queue[t], cur[t])
    BY <1>0, <1>3, Zenon DEF ReadMailBox, PathOK, CallOK
  <2>2. /\ cur' = cur /\ lv' = lv
        /\ pc'[t] = "scan" \/ (pc'[t] = "read" /\ at'[t] = at[t])
    BY <1>t, <1>3, Zenon DEF ReadMailBox, path
  <2>3. \/ queue'[t] = queue[t]
        \/ \E h \in Handlers : h.cd = at[t] /\ queue'[t] = Append(queue[t], h)
    <3>1. /\ [ev |-> "ErrorOccurred", cd |-> at[t]] \in Handlers
          /\ [ev |-> "AllReexecute", cd |-> at[t]] \in Handlers
      BY <2>1, Zenon DEF Handlers
    <3>2. \/ queue' = queue
          \/ queue' = [queue EXCEPT ![t] = Append(@, [ev |-> "ErrorOccurred", cd |-> at[t]])]
          \/ queue' = [queue EXCEPT ![t] = Append(@, [ev |-> "AllReexecute", cd |-> at[t]])]
      BY <1>3, Zenon DEF ReadMailBox
    <3>. QED
      BY <1>t, <3>1, <3>2, Zenon
  <2>4. Below(queue'[t], cur[t])
    BY <1>t, <2>1, <2>3, BelowAppend, Zenon
  <2>. QED
    BY <2>1, <2>2, <2>4, Zenon DEF PathOK
<1>4. CASE ScanEnd(t)
  <2>1. /\ queue' = queue /\ cur' = cur
        /\ pc'[t] = "drain" \/ (pc'[t] = "run" /\ queue[t] = <<>>)
    BY <1>t, <1>4, Zenon DEF ScanEnd, path
  <2>. QED
    BY <2>1, Zenon DEF PathOK
<1>5. CASE HandleAllReexecute(t)
  <2>1. /\ queue[t] # <<>> /\ queue'[t] = Tail(queue[t]) /\ cur' = cur /\ pc'[t] = "drain"
    BY <1>t, <1>5, Zenon DEF HandleAllReexecute, PopHandled, path, ctl
  <2>2. Below(queue'[t], cur[t])
    BY <1>t, <2>1, BelowTail, Zenon DEF PathOK
  <2>. QED
    BY <2>1, <2>2, Zenon DEF PathOK
<1>6. CASE HandleErrorOccurred(t)
  <2>1. /\ queue[t] # <<>> /\ cur' = cur /\ pc'[t] \in {"drain", "cast"}
        /\ queue'[t] = queue[t] \/ queue'[t] = Tail(queue[t])
    BY <1>t, <1>6, Zenon DEF HandleErrorOccurred, PopHandled, path
  <2>2. Below(queue'[t], cur[t])
    BY <1>t, <2>1, BelowTail, Zenon DEF PathOK
  <2>. QED
    BY <2>1, <2>2, Zenon DEF PathOK
<1>7. CASE Broadcast(t)
  <2>0. pc[t] = "cast"
    BY <1>7, Zenon DEF Broadcast
  <2>1. at[t] \in Shared /\ queue[t] # <<>> /\ Head(queue[t]).cd = at[t]
    <3>1. at[t] \in Shared /\ queue[t] # <<>>
      BY <1>0, <2>0, Zenon DEF CallOK
    <3>2. Head(queue[t]) = [ev |-> "ErrorOccurred", cd |-> at[t]]
      BY <1>0, <2>0, Zenon DEF CallOK
    <3>. QED
      BY <3>1, <3>2
  <2>2. Level[at[t]] <= cur[t]
    BY <1>t, <2>1, BelowHead, Zenon DEF PathOK
  <2>3. [ev |-> "AllReexecute", cd |-> at[t]] \in Handlers
    BY <2>1, Zenon DEF Handlers
  <2>4. /\ cur' = cur /\ pc'[t] \in {"cast", "castpost"}
        /\ \/ queue'[t] = queue[t]
           \/ queue'[t] = Append(queue[t], [ev |-> "AllReexecute", cd |-> at[t]])
    BY <1>t, <1>7, Zenon DEF Broadcast, path
  <2>5. Below(queue'[t], cur[t])
    BY <1>t, <2>2, <2>3, <2>4, BelowAppend, Zenon DEF PathOK
  <2>. QED
    BY <2>4, <2>5, Zenon DEF PathOK
<1>8. CASE BroadcastFlag(t)
  <2>1. queue' = queue /\ cur' = cur /\ pc'[t] = "cast"
    BY <1>t, <1>8, Zenon DEF BroadcastFlag, path
  <2>. QED
    BY <2>1, Zenon DEF PathOK
<1>9. CASE BroadcastEnd(t)
  <2>1. /\ queue[t] # <<>> /\ queue'[t] = Tail(queue[t]) /\ cur' = cur /\ pc'[t] = "drain"
    BY <1>0, <1>t, <1>9, Zenon DEF BroadcastEnd, PopHandled, path, CallOK
  <2>2. Below(queue'[t], cur[t])
    BY <1>t, <2>1, BelowTail, Zenon DEF PathOK
  <2>. QED
    BY <2>1, <2>2, Zenon DEF PathOK
<1>10. CASE DecPendingCounter(t)
  <2>1. queue'[t] = <<>> /\ pc'[t] = "run"
    BY <1>t, <1>10, Zenon DEF DecPendingCounter
  <2>. QED
    BY <2>1, Idle, Zenon
<1>11. CASE SetRollbackPoint(t)
  <2>1. queue' = queue /\ cur' = cur /\ pc'[t] = "check"
    BY <1>11, Zenon DEF SetRollbackPoint, path
  <2>. QED
    BY <2>1, Zenon DEF PathOK
<1>. QED
  BY <1>1, <1>2, <1>3, <1>4, <1>5, <1>6, <1>7, <1>8, <1>9, <1>10, <1>11, Zenon DEF Progress

\* A call starts with an empty FIFO, so that Complete and Destroy leave no handler behind.
LEMMA CallsOnPath ==
  ASSUME TInv, NEW t \in Task, Calls(t), PathOK(t)
  PROVE  PathOK(t)'
<1>t. /\ queue[t] \in Seq(Handlers) /\ queue \in [Task -> Seq(Handlers)]
      /\ cur[t] \in Levels /\ cur[t] \in Int /\ lv[t] \in Int /\ lv \in [Task -> Int]
      /\ at \in [Task -> Cd \cup {NoCd}]
      /\ pc \in [Task -> {"run", "post", "check", "scan", "read", "drain", "cast", "castpost"}]
  BY OwnTypes, Zenon
<1>1. CASE Detect(t) \/ Assert(t)
  <2>1. Fails(t) /\ OneReport(t)
    BY <1>1, FindsError, Zenon DEF TInv
  <2>2. queue[t] = <<>>
    BY <2>1, Zenon DEF Fails, PathOK
  <2>3. ASSUME NEW c \in Shared, Level[c] <= cur[t], LocalSetMailBox(t, c) PROVE PathOK(t)'
    <3>1. [ev |-> "ErrorOccurred", cd |-> c] \in Handlers
      BY Zenon DEF Handlers
    <3>2. /\ cur' = cur /\ pc'[t] = "check"
          /\ queue'[t] = Append(queue[t], [ev |-> "ErrorOccurred", cd |-> c])
      BY <1>t, <2>3, Zenon DEF LocalSetMailBox, path
    <3>3. Below(queue'[t], cur[t])
      BY <1>t, <2>3, <3>1, <3>2, BelowAppend, Zenon DEF PathOK
    <3>. QED
      BY <3>2, <3>3, Zenon DEF PathOK
  <2>4. ASSUME NEW c \in Shared, RemoteSetMailBox(t, c) PROVE PathOK(t)'
    <3>1. queue'[t] = <<>> /\ pc'[t] = "post"
      BY <1>t, <2>2, <2>4, Zenon DEF RemoteSetMailBox
    <3>. QED
      BY <3>1, Idle, Zenon
  <2>5. CASE NoMailBox(t)
    <3>1. queue'[t] = <<>> /\ pc'[t] = "check"
      BY <1>t, <2>2, <2>5, Zenon DEF NoMailBox
    <3>. QED
      BY <3>1, Idle, Zenon
  <2>. QED
    BY <2>1, <2>3, <2>4, <2>5, Zenon DEF OneReport
<1>2. CASE CheckMailBox(t)
  <2>1. /\ queue' = queue /\ cur' = cur
        /\ \/ pc'[t] = "scan" /\ lv'[t] = cur[t]
           \/ pc'[t] = "drain"
           \/ pc'[t] = "run" /\ queue[t] = <<>>
    BY <1>t, <1>2, Zenon DEF CheckMailBox, path
  <2>2. Below(queue'[t], cur'[t])
    BY <2>1, Zenon DEF PathOK
  <2>3. pc'[t] = "scan" => lv'[t] <= cur'[t]
    BY <1>t, <2>1
  <2>. QED
    BY <2>1, <2>2, <2>3, Zenon DEF PathOK
<1>3. CASE Create(t) \/ Recreate(t) \/ Begin(t) \/ Complete(t) \/ Destroy(t)
  <2>1. queue'[t] = <<>> /\ pc'[t] = "run"
    BY <1>t, <1>3, Zenon DEF Create, Recreate, Begin, Complete, Destroy, Move, ctl, PathOK
  <2>. QED
    BY <2>1, Idle, Zenon
<1>. QED
  BY <1>1, <1>2, <1>3, Zenon DEF Calls

----------------------------------------------------------------------------
(* The mailboxes implement ErrorNotice: facts about the FIFO                *)

\* Pushing a handler.
LEMMA HoldsAppend ==
  ASSUME NEW q \in Seq(Handlers), NEW h, NEW ev, NEW c
  PROVE  Holds(Append(q, h), ev, c) <=> Holds(q, ev, c) \/ h = [ev |-> ev, cd |-> c]
<1>1. Len(Append(q, h)) = Len(q) + 1 /\ Len(q) \in Nat /\ Append(q, h)[Len(q) + 1] = h
      /\ \A i \in 1 .. Len(q) : Append(q, h)[i] = q[i]
  OBVIOUS
<1>2. \A i \in 1 .. Len(q) + 1 : i \in 1 .. Len(q) \/ i = Len(q) + 1
  BY <1>1
<1>3. \A i \in 1 .. Len(q) : i \in 1 .. Len(q) + 1
  BY <1>1
<1>4. Len(q) + 1 \in 1 .. Len(q) + 1
  BY <1>1
<1>. QED
  BY <1>1, <1>2, <1>3, <1>4, Zenon DEF Holds

\* Taking the handler at the front off.
LEMMA HoldsTail ==
  ASSUME NEW q \in Seq(Handlers), q # <<>>, NEW ev, NEW c
  PROVE  Holds(q, ev, c) <=> Holds(Tail(q), ev, c) \/ Head(q) = [ev |-> ev, cd |-> c]
<1>1. /\ Len(Tail(q)) = Len(q) - 1 /\ Len(q) \in Nat /\ Len(q) > 0 /\ Head(q) = q[1]
      /\ \A i \in 1 .. Len(q) - 1 : Tail(q)[i] = q[i + 1]
  OBVIOUS
<1>2. ASSUME NEW i \in 1 .. Len(q)
      PROVE  i = 1 \/ (i - 1 \in 1 .. Len(q) - 1 /\ i - 1 + 1 = i)
  BY <1>1
<1>3. ASSUME NEW i \in 1 .. Len(q) - 1
      PROVE  i + 1 \in 1 .. Len(q)
  BY <1>1
<1>4. 1 \in 1 .. Len(q)
  BY <1>1
<1>5. ASSUME Holds(q, ev, c) PROVE Holds(Tail(q), ev, c) \/ Head(q) = [ev |-> ev, cd |-> c]
  <2>1. PICK i \in 1 .. Len(q) : q[i] = [ev |-> ev, cd |-> c]
    BY <1>5, Zenon DEF Holds
  <2>2. CASE i = 1
    BY <1>1, <2>1, <2>2, Zenon
  <2>3. CASE i - 1 \in 1 .. Len(q) - 1 /\ i - 1 + 1 = i
    <3>1. Tail(q)[i - 1] = [ev |-> ev, cd |-> c]
      BY <1>1, <2>1, <2>3, Zenon
    <3>. QED
      BY <1>1, <2>3, <3>1, Zenon DEF Holds
  <2>. QED
    BY <1>2, <2>2, <2>3, Zenon
<1>. QED
  BY <1>1, <1>3, <1>4, <1>5, Zenon DEF Holds

\* An empty FIFO.
LEMMA HoldsNothing == \A ev, c : ~Holds(<<>>, ev, c)
<1>1. Len(<<>>) = 0
  BY Zenon
<1>. QED
  BY <1>1 DEF Holds

\* Handlers are told apart by their event and their CD.
LEMMA SameHandler ==
  /\ \A c, d : [ev |-> "ErrorOccurred", cd |-> c] # [ev |-> "AllReexecute", cd |-> d]
  /\ \A ev, c, d : [ev |-> ev, cd |-> c] = [ev |-> ev, cd |-> d] => c = d
<1>1. "ErrorOccurred" # "AllReexecute"
  BY Zenon
<1>2. \A e, f, c, d : [ev |-> e, cd |-> c] = [ev |-> f, cd |-> d] => e = f /\ c = d
  BY Zenon
<1>. QED
  BY <1>1, <1>2, Zenon

----------------------------------------------------------------------------
(* Where a report can be                                                    *)

\* Only the head of a CD has a handler for the reports of the CD, and while it tells the
\* tasks, those left are tasks of the CD.
NoticeOK(t) ==
  /\ \A c \in Shared : Holds(queue[t], "ErrorOccurred", c) => HeadOf[c] = t
  /\ pc[t] \in {"cast", "castpost"} => todo[t] \subseteq Member[at[t]]
  /\ pc[t] = "castpost" => fly[t] \in todo[t]

NInv == TInv /\ PathState /\ DuplicateHasBroadcast /\ \A t \in Task : NoticeOK(t)

\* A step of task t leaves the calls and FIFOs of the others alone.
Own(t) ==
  \A u \in Task : u # t =>
    /\ queue'[u] = queue[u] /\ pc'[u] = pc[u] /\ at'[u] = at[u] /\ todo'[u] = todo[u]
    /\ fly'[u] = fly[u] /\ lv'[u] = lv[u]

\* Every step of a task does.
LEMMA StepIsOwn ==
  ASSUME TInv, NEW t \in Task, Progress(t) \/ Calls(t)
  PROVE  Own(t)
<1>0. /\ queue \in [Task -> Seq(Handlers)] /\ at \in [Task -> Cd \cup {NoCd}]
      /\ pc \in [Task -> {"run", "post", "check", "scan", "read", "drain", "cast", "castpost"}]
      /\ todo \in [Task -> SUBSET Task] /\ fly \in [Task -> Task \cup {NoTask}]
      /\ lv \in [Task -> Int]
  BY Zenon DEF TInv, MTypeOK
<1>1. SUFFICES ASSUME NEW u \in Task, u # t
               PROVE  /\ queue'[u] = queue[u] /\ pc'[u] = pc[u] /\ at'[u] = at[u]
                      /\ todo'[u] = todo[u] /\ fly'[u] = fly[u] /\ lv'[u] = lv[u]
  BY Zenon DEF Own
<1>2. CASE RemoteSetFlag(t) \/ InternalCheckMailBox(t) \/ ScanEnd(t)
  BY <1>0, <1>1, <1>2 DEF RemoteSetFlag, InternalCheckMailBox, ScanEnd
<1>3. CASE ReadMailBox(t)
  <2>1. queue'[u] = queue[u]
    BY <1>0, <1>1, <1>3, Zenon DEF ReadMailBox
  <2>. QED
    BY <1>0, <1>1, <1>3, <2>1, Zenon DEF ReadMailBox
<1>4. CASE HandleAllReexecute(t) \/ HandleErrorOccurred(t)
  BY <1>0, <1>1, <1>4, ZenonT(30) DEF HandleAllReexecute, HandleErrorOccurred, PopHandled, ctl
<1>5. CASE Broadcast(t)
  BY <1>0, <1>1, <1>5, Zenon DEF Broadcast
<1>6. CASE BroadcastFlag(t) \/ BroadcastEnd(t) \/ DecPendingCounter(t)
  BY <1>0, <1>1, <1>6, Zenon DEF BroadcastFlag, BroadcastEnd, DecPendingCounter, PopHandled
<1>7. CASE Detect(t) \/ Assert(t)
  <2>0. OneReport(t) /\ \E S \in SUBSET Heads(t), l \in Levels : ThenSet(t, S, l)
    BY <1>7, FindsError, Zenon DEF TInv
  <2>1. todo'[u] = todo[u] /\ lv'[u] = lv[u]
    BY <1>0, <1>1, <2>0, Zenon DEF ThenSet
  <2>2. ASSUME NEW c \in Shared, LocalSetMailBox(t, c)
        PROVE  queue'[u] = queue[u] /\ pc'[u] = pc[u] /\ at'[u] = at[u] /\ fly'[u] = fly[u]
    <3>1. /\ queue' = [queue EXCEPT ![t] = Append(@, [ev |-> "ErrorOccurred", cd |-> c])]
          /\ pc' = [pc EXCEPT ![t] = "check"] /\ UNCHANGED <<at, fly>>
      BY <2>2, Zenon DEF LocalSetMailBox
    <3>. QED
      BY <1>0, <1>1, <3>1, Zenon
  <2>3. ASSUME NEW c \in Shared, RemoteSetMailBox(t, c)
        PROVE  queue'[u] = queue[u] /\ pc'[u] = pc[u] /\ at'[u] = at[u] /\ fly'[u] = fly[u]
    BY <1>0, <1>1, <2>3, Zenon DEF RemoteSetMailBox
  <2>4. CASE NoMailBox(t)
    BY <1>0, <1>1, <2>1, <2>4, Zenon DEF NoMailBox
  <2>. QED
    BY <2>0, <2>1, <2>2, <2>3, <2>4, Zenon DEF OneReport
<1>8. CASE CheckMailBox(t) \/ SetRollbackPoint(t)
  BY <1>0, <1>1, <1>8, Zenon DEF CheckMailBox, SetRollbackPoint
<1>9. CASE Create(t) \/ Recreate(t) \/ Begin(t) \/ Complete(t) \/ Destroy(t)
  BY <1>0, <1>1, <1>9, Zenon DEF Create, Recreate, Begin, Complete, Destroy, Move, ctl
<1>. QED
  BY <1>2, <1>3, <1>4, <1>5, <1>6, <1>7, <1>8, <1>9, Zenon DEF Progress, Calls

----------------------------------------------------------------------------
(* What a step of a task does to the reports and the notices                *)

\* Where a task neither posts a report nor tells the tasks of a CD.
Quiet == {"run", "check", "scan", "read", "drain"}

Still(t) == queue'[t] = queue[t] /\ errFlag' = errFlag /\ reexFlag' = reexFlag
Idles(t) == pc[t] \in Quiet /\ pc'[t] \in Quiet

\* Nothing, but for the rollback point, which Begin may reset.
QuietStep(t) ==
  Idles(t) /\ Still(t) /\ rb' \in {rb, [rb EXCEPT ![t] = INVALID]}

\* The second epoch of a report.
LandStep(t) ==
  /\ pc[t] = "post" /\ pc'[t] \in Quiet /\ queue'[t] = queue[t] /\ rb' = rb
  /\ errFlag' = errFlag \cup {<<at[t], t>>} /\ reexFlag' = reexFlag

\* A head reads a report from its mailbox.
ReadReport(t, c) ==
  /\ Idles(t) /\ HeadOf[c] = t /\ reexFlag' = reexFlag /\ rb' = rb
  /\ \E s \in Task : <<c, s>> \in errFlag /\ errFlag' = errFlag \ {<<c, s>>}
  /\ \/ errOcc[c] /\ queue'[t] = queue[t]
     \/ queue'[t] = Append(queue[t], [ev |-> "ErrorOccurred", cd |-> c])

\* A task reads a notice from its mailbox.
ReadNotice(t, c) ==
  /\ Idles(t) /\ errFlag' = errFlag /\ rb' = rb
  /\ <<c, t>> \in reexFlag /\ reexFlag' = reexFlag \ {<<c, t>>}
  /\ queue'[t] = Append(queue[t], [ev |-> "AllReexecute", cd |-> c])

\* HandleAllReexecute.
HeedStep(t, c) ==
  /\ Idles(t) /\ errFlag' = errFlag /\ reexFlag' = reexFlag
  /\ queue[t] # <<>> /\ Head(queue[t]) = [ev |-> "AllReexecute", cd |-> c]
  /\ queue'[t] = Tail(queue[t]) /\ rb' = [rb EXCEPT ![t] = MinOf(@, Level[c])]

\* HandleErrorOccurred starts.
CastStep(t, c) ==
  /\ pc[t] = "drain" /\ pc'[t] = "cast" /\ Still(t) /\ rb' = rb
  /\ queue[t] # <<>> /\ Head(queue[t]) = [ev |-> "ErrorOccurred", cd |-> c]
  /\ at'[t] = c /\ todo'[t] = Member[c]

\* It tells the head itself, posts to another task, and tells that one.
TellSelf(t) ==
  /\ pc[t] = "cast" /\ pc'[t] = "cast" /\ errFlag' = errFlag /\ reexFlag' = reexFlag /\ rb' = rb
  /\ queue'[t] = Append(queue[t], [ev |-> "AllReexecute", cd |-> at[t]])
  /\ at'[t] = at[t] /\ t \in todo[t] /\ todo'[t] = todo[t] \ {t}

PostStep(t) ==
  /\ pc[t] = "cast" /\ pc'[t] = "castpost" /\ Still(t) /\ rb' = rb
  /\ at'[t] = at[t] /\ todo'[t] = todo[t] /\ fly'[t] \in todo[t]

TellStep(t) ==
  /\ pc[t] = "castpost" /\ pc'[t] = "cast" /\ queue'[t] = queue[t] /\ errFlag' = errFlag /\ rb' = rb
  /\ reexFlag' = reexFlag \cup {<<at[t], fly[t]>>}
  /\ at'[t] = at[t] /\ todo'[t] = todo[t] \ {fly[t]}

\* HandleErrorOccurred is over.
EndStep(t) ==
  /\ pc[t] = "cast" /\ pc'[t] = "drain" /\ todo[t] = {} /\ queue'[t] = Tail(queue[t])
  /\ errFlag' = errFlag /\ reexFlag' = reexFlag /\ rb' = rb

\* SyncCDs takes over the rollback point of a task of the CD.
AgreeStep(t, c) ==
  /\ Idles(t) /\ Still(t) /\ t \in Member[c]
  /\ \E u \in Member[c] : rb' \in {[rb EXCEPT ![t] = MinOf(@, rb[u])], [rb EXCEPT ![t] = rb[u]]}

\* A rollback point is set for an error that the task has found.
LowerStep(t) ==
  /\ Idles(t) /\ Still(t) /\ lv[t] \in Levels
  /\ \E u \in Task : /\ <<u, lv[t]>> \in Marked(t)
                     /\ Marked(t)' = Marked(t) \ {<<u, lv[t]>>}
                     /\ rb' = [rb EXCEPT ![u] = MinOf(@, lv[t])]

\* A report of a head to itself, and the first epoch of one to another task.
LocalReport(t, c) ==
  /\ Idles(t) /\ HeadOf[c] = t /\ reexFlag' = reexFlag /\ rb' = rb
  /\ queue'[t] = Append(queue[t], [ev |-> "ErrorOccurred", cd |-> c])
  /\ errFlag' = errFlag \ {<<c, t>>}

RemoteReport(t, c) ==
  pc[t] \in Quiet /\ pc'[t] = "post" /\ at'[t] = c /\ Still(t) /\ rb' = rb

\* A task finds an error: a report to a CD of its own or none, and what it leaves to be set.
FindStep(t) ==
  /\ \/ Idles(t) /\ Still(t) /\ rb' = rb
     \/ \E c \in Shared : t \in Member[c] /\ (LocalReport(t, c) \/ RemoteReport(t, c))
  /\ Marked(t) = {}
  /\ \E S \in SUBSET Heads(t), l \in Levels : Marked(t)' = S \X {l}

\* Destroy and the re-creation of a CD.
LeaveStep(t, c) ==
  /\ Idles(t) /\ queue[t] = <<>> /\ queue'[t] = <<>> /\ t \in Member[c]
  /\ errFlag' = errFlag \ OwnErrFlags(t, c) /\ reexFlag' = reexFlag \ OwnReexFlags(t, c)
  /\ rb' \in {rb, [rb EXCEPT ![t] = INVALID]}

\* The types of the state of a task.
LEMMA NoticeTypes ==
  ASSUME NInv, NEW t \in Task
  PROVE  /\ queue[t] \in Seq(Handlers) /\ queue \in [Task -> Seq(Handlers)]
         /\ at \in [Task -> Cd \cup {NoCd}]
         /\ pc \in [Task -> {"run", "post", "check", "scan", "read", "drain", "cast", "castpost"}]
         /\ todo \in [Task -> SUBSET Task] /\ todo[t] \subseteq Task
         /\ fly \in [Task -> Task \cup {NoTask}] /\ rb \in [Task -> RollbackPoints]
         /\ lv \in [Task -> Int]
         /\ errFlag \subseteq Shared \X Task /\ reexFlag \subseteq Shared \X Task
         /\ CallOK(t) /\ PathOK(t) /\ NoticeOK(t)
<1>1. /\ queue \in [Task -> Seq(Handlers)] /\ at \in [Task -> Cd \cup {NoCd}]
      /\ pc \in [Task -> {"run", "post", "check", "scan", "read", "drain", "cast", "castpost"}]
      /\ todo \in [Task -> SUBSET Task]
      /\ fly \in [Task -> Task \cup {NoTask}] /\ rb \in [Task -> RollbackPoints]
      /\ lv \in [Task -> Int]
      /\ errFlag \subseteq Shared \X Task /\ reexFlag \subseteq Shared \X Task
  BY Zenon DEF NInv, TInv, MTypeOK
<1>2. CallOK(t) /\ PathOK(t) /\ NoticeOK(t)
  BY Zenon DEF NInv, TInv, CallState, PathState
<1>. QED
  BY <1>1, <1>2, Zenon

\* A failed Detect or Assert.
LEMMA FindEffect ==
  ASSUME NInv, NEW t \in Task, Detect(t) \/ Assert(t)
  PROVE  FindStep(t)
<1>t. /\ queue[t] \in Seq(Handlers) /\ queue \in [Task -> Seq(Handlers)]
      /\ at \in [Task -> Cd \cup {NoCd}] /\ lv \in [Task -> Int] /\ todo \in [Task -> SUBSET Task]
      /\ pc \in [Task -> {"run", "post", "check", "scan", "read", "drain", "cast", "castpost"}]
  BY NoticeTypes, Zenon
<1>1. /\ Fails(t) /\ OneReport(t)
      /\ \E S \in SUBSET Heads(t), l \in Levels : ThenSet(t, S, l)
  BY FindsError, Zenon DEF NInv, TInv
<1>2. pc[t] = "run"
  BY <1>1, Zenon DEF Fails
<1>3. ASSUME NEW c \in Shared, LocalSetMailBox(t, c) PROVE LocalReport(t, c)
  <2>1. /\ HeadOf[c] = t /\ errFlag' = errFlag \ {<<c, t>>} /\ reexFlag' = reexFlag /\ rb' = rb
        /\ queue' = [queue EXCEPT ![t] = Append(@, [ev |-> "ErrorOccurred", cd |-> c])]
        /\ pc' = [pc EXCEPT ![t] = "check"]
    BY <1>3, Zenon DEF LocalSetMailBox, IsHead
  <2>2. /\ queue'[t] = Append(queue[t], [ev |-> "ErrorOccurred", cd |-> c])
        /\ pc'[t] = "check"
    BY <1>t, <2>1, Zenon
  <2>. QED
    BY <1>2, <2>1, <2>2, Zenon DEF LocalReport, Idles, Quiet
<1>4. ASSUME NEW c \in Shared, RemoteSetMailBox(t, c) PROVE RemoteReport(t, c)
  <2>1. pc'[t] = "post" /\ at'[t] = c /\ UNCHANGED flags /\ queue' = queue /\ rb' = rb
    BY <1>t, <1>4, Zenon DEF RemoteSetMailBox
  <2>. QED
    BY <1>2, <2>1, Zenon DEF RemoteReport, Still, Quiet, flags
<1>5. ASSUME NoMailBox(t) PROVE Idles(t) /\ Still(t) /\ rb' = rb
  <2>1. pc'[t] = "check" /\ UNCHANGED flags /\ queue' = queue /\ rb' = rb
    BY <1>t, <1>5, Zenon DEF NoMailBox
  <2>. QED
    BY <1>2, <2>1, Zenon DEF Still, Idles, Quiet, flags
<1>6. /\ \/ Idles(t) /\ Still(t) /\ rb' = rb
         \/ \E c \in Shared : t \in Member[c] /\ (LocalReport(t, c) \/ RemoteReport(t, c))
      /\ pc'[t] \in {"post", "check"}
  <2>1. pc'[t] \in {"post", "check"}
    BY <1>t, <1>1, Zenon DEF OneReport, LocalSetMailBox, RemoteSetMailBox, NoMailBox
  <2>. QED
    BY <1>1, <1>3, <1>4, <1>5, <2>1, Zenon DEF OneReport
<1>7. PICK S \in SUBSET Heads(t), l \in Levels : ThenSet(t, S, l)
  BY <1>1, Zenon
<1>8. todo'[t] = S /\ lv'[t] = l
  BY <1>t, <1>7, Zenon DEF ThenSet
<1>9. Marked(t) = {} /\ Marked(t)' = S \X {l}
  BY <1>2, <1>6, <1>8, Zenon DEF Marked
<1>. QED
  BY <1>6, <1>9, Zenon DEF FindStep

\* What it leaves to be set is set, one rollback point after the other.
LEMMA LowerEffect ==
  ASSUME NInv, NEW t \in Task, SetRollbackPoint(t)
  PROVE  LowerStep(t)
<1>t. todo \in [Task -> SUBSET Task] /\ todo[t] \subseteq Task /\ CallOK(t)
  BY NoticeTypes, Zenon
<1>1. pc[t] = "check" /\ pc' = pc /\ queue' = queue /\ UNCHANGED flags /\ lv' = lv
  BY Zenon DEF SetRollbackPoint
<1>2. PICK u \in todo[t] : /\ rb' = [rb EXCEPT ![u] = MinOf(@, lv[t])]
                           /\ todo' = [todo EXCEPT ![t] = @ \ {u}]
  BY Zenon DEF SetRollbackPoint, LowerRollbackPoint
<1>3. lv[t] \in Levels
  BY <1>t, <1>1, Zenon DEF CallOK
<1>4. todo'[t] = todo[t] \ {u} /\ u \in Task
  BY <1>t, <1>2, Zenon
<1>5. Marked(t) = todo[t] \X {lv[t]} /\ Marked(t)' = (todo[t] \ {u}) \X {lv[t]}
  BY <1>1, <1>4, Zenon DEF Marked
<1>6. <<u, lv[t]>> \in Marked(t) /\ Marked(t)' = Marked(t) \ {<<u, lv[t]>>}
  BY <1>2, <1>5
<1>7. Idles(t) /\ Still(t)
  BY <1>1, Zenon DEF Idles, Still, Quiet, flags
<1>. QED
  BY <1>2, <1>3, <1>4, <1>6, <1>7, Zenon DEF LowerStep

\* Every other step leaves what is to be set alone: CheckMailBox starts when nothing is left.
LEMMA MarksKept ==
  ASSUME NInv, NEW t \in Task, Progress(t) \/ Calls(t)
  PROVE  Detect(t) \/ Assert(t) \/ SetRollbackPoint(t) \/ Marked(t)' = Marked(t)
<1>t. pc \in [Task -> {"run", "post", "check", "scan", "read", "drain", "cast", "castpost"}]
  BY NoticeTypes, Zenon
<1>m. /\ \A S, l : S = {} => S \X {l} = {}
      /\ pc[t] \notin {"post", "check"} => Marked(t) = {}
      /\ pc'[t] \notin {"post", "check"} => Marked(t)' = {}
  BY Zenon DEF Marked
<1>1. CASE RemoteSetFlag(t)
  <2>1. pc[t] = "post" /\ pc'[t] = "check" /\ todo' = todo /\ lv' = lv
    BY <1>t, <1>1, Zenon DEF RemoteSetFlag
  <2>. QED
    BY <2>1, Zenon DEF Marked
<1>2. CASE CheckMailBox(t)
  <2>1. /\ todo[t] = {} /\ pc'[t] \in {"scan", "drain", "run"}
    BY <1>t, <1>2, Zenon DEF CheckMailBox
  <2>2. Marked(t) = {}
    BY <1>m, <2>1, Zenon DEF Marked
  <2>. QED
    BY <1>m, <2>1, <2>2, Zenon
<1>3. CASE InternalCheckMailBox(t) \/ ScanEnd(t) \/ HandleAllReexecute(t) \/ HandleErrorOccurred(t)
  <2>1. pc[t] \in {"scan", "drain"} /\ pc'[t] \notin {"post", "check"}
    BY <1>t, <1>3, Zenon DEF InternalCheckMailBox, ScanEnd, HandleAllReexecute, HandleErrorOccurred,
                             PopHandled, ctl
  <2>. QED
    BY <1>m, <2>1, Zenon
<1>4. CASE ReadMailBox(t)
  <2>1. pc[t] = "read" /\ pc' = [pc EXCEPT ![t] = IF todo[t] = {Lowest(todo[t])} THEN "scan" ELSE "read"]
    BY <1>4, Zenon DEF ReadMailBox
  <2>. QED
    BY <1>t, <1>m, <2>1, Zenon
<1>5. CASE Broadcast(t) \/ BroadcastFlag(t) \/ BroadcastEnd(t) \/ DecPendingCounter(t)
  <2>1. pc[t] \in {"cast", "castpost", "drain"} /\ pc'[t] \in {"cast", "castpost", "drain", "run"}
    BY <1>t, <1>5, Zenon DEF Broadcast, BroadcastFlag, BroadcastEnd, DecPendingCounter, PopHandled
  <2>. QED
    BY <1>m, <2>1, Zenon
<1>6. CASE Create(t) \/ Recreate(t) \/ Begin(t) \/ Complete(t) \/ Destroy(t)
  <2>1. pc[t] = "run" /\ pc' = pc
    BY <1>6, Zenon DEF Create, Recreate, Begin, Complete, Destroy, Move, ctl
  <2>. QED
    BY <1>m, <2>1, Zenon
<1>. QED
  BY <1>1, <1>2, <1>3, <1>4, <1>5, <1>6, Zenon DEF Progress, Calls

\* The other steps of a call in progress.
LEMMA ProgressEffect ==
  ASSUME SetFacts, NInv, NEW t \in Task, Progress(t)
  PROVE  \/ SetRollbackPoint(t)
         \/ QuietStep(t) \/ LandStep(t) \/ TellSelf(t) \/ PostStep(t) \/ TellStep(t) \/ EndStep(t)
         \/ \E c \in Shared : ReadReport(t, c) \/ ReadNotice(t, c) \/ HeedStep(t, c) \/ CastStep(t, c)
<1>t. /\ queue[t] \in Seq(Handlers) /\ queue \in [Task -> Seq(Handlers)]
      /\ at \in [Task -> Cd \cup {NoCd}]
      /\ pc \in [Task -> {"run", "post", "check", "scan", "read", "drain", "cast", "castpost"}]
      /\ todo \in [Task -> SUBSET Task] /\ todo[t] \subseteq Task
      /\ fly \in [Task -> Task \cup {NoTask}] /\ rb \in [Task -> RollbackPoints]
  BY NoticeTypes, Zenon
<1>c. CallOK(t) /\ PathOK(t)
  BY NoticeTypes, Zenon
<1>1. CASE RemoteSetFlag(t)
  <2>1. LandStep(t)
    BY <1>t, <1>1, Zenon DEF RemoteSetFlag, LandStep, Quiet
  <2>. QED
    BY <2>1, Zenon
<1>2. CASE InternalCheckMailBox(t)
  <2>1. pc[t] = "scan" /\ pc'[t] \in {"scan", "read"} /\ queue' = queue /\ UNCHANGED flags /\ rb' = rb
    BY <1>t, <1>2, Zenon DEF InternalCheckMailBox
  <2>2. QuietStep(t)
    BY <2>1, Zenon DEF QuietStep, Still, Idles, Quiet, flags
  <2>. QED
    BY <2>2, Zenon
<1>3. CASE ReadMailBox(t)
  <2> DEFINE c == at[t]
             s == Lowest(todo[t])
  <2>1. pc[t] = "read" /\ c \in Shared /\ s \in todo[t] /\ s \in Task
    <3>1. pc[t] = "read" /\ c \in Shared /\ todo[t] # {}
      BY <1>c, <1>3, Zenon DEF ReadMailBox, CallOK
    <3>. QED
      BY <1>t, <3>1, LowestInSet, Zenon
  <2>2. pc'[t] \in Quiet /\ pc[t] \in Quiet /\ rb' = rb
    <3>1. pc' = [pc EXCEPT ![t] = IF todo[t] = {s} THEN "scan" ELSE "read"] /\ rb' = rb
      BY <1>3, Zenon DEF ReadMailBox
    <3>. QED
      BY <1>t, <2>1, <3>1, Zenon DEF Quiet
  <2>3. CASE IsHead(t, c)
    <3>1. <<c, s>> \in errFlag
      BY <1>c, <2>1, <2>3, Zenon DEF CallOK
    <3>2. /\ errFlag' = errFlag \ {<<c, s>>} /\ reexFlag' = reexFlag
          /\ \/ errOcc[c] /\ queue' = queue
             \/ queue' = [queue EXCEPT ![t] = Append(@, [ev |-> "ErrorOccurred", cd |-> c])]
      BY <1>3, <2>3, Zenon DEF ReadMailBox
    <3>3. \/ errOcc[c] /\ queue'[t] = queue[t]
          \/ queue'[t] = Append(queue[t], [ev |-> "ErrorOccurred", cd |-> c])
      BY <1>t, <3>2, Zenon
    <3>4. HeadOf[c] = t
      BY <2>3, Zenon DEF IsHead
    <3> HIDE DEF c, s
    <3>5. ReadReport(t, c)
      BY <2>1, <2>2, <3>1, <3>2, <3>3, <3>4, Zenon DEF ReadReport, Idles
    <3>. QED
      BY <2>1, <3>5, Zenon
  <2>4. CASE ~IsHead(t, c)
    <3>1. <<c, t>> \in reexFlag
      BY <1>c, <2>1, <2>4, Zenon DEF CallOK
    <3>2. /\ errFlag' = errFlag /\ reexFlag' = reexFlag \ {<<c, t>>}
          /\ queue' = [queue EXCEPT ![t] = Append(@, [ev |-> "AllReexecute", cd |-> c])]
      BY <1>3, <2>4, Zenon DEF ReadMailBox
    <3>3. queue'[t] = Append(queue[t], [ev |-> "AllReexecute", cd |-> c])
      BY <1>t, <3>2, Zenon
    <3> HIDE DEF c, s
    <3>4. ReadNotice(t, c)
      BY <2>2, <3>1, <3>2, <3>3, Zenon DEF ReadNotice, Idles
    <3>. QED
      BY <2>1, <3>4, Zenon
  <2>. QED
    BY <2>3, <2>4, Zenon
<1>4. CASE ScanEnd(t) \/ DecPendingCounter(t)
  <2>1. pc[t] \in {"scan", "drain"} /\ pc'[t] \in {"run", "drain"} /\ queue' = queue
        /\ UNCHANGED flags /\ rb' = rb
    BY <1>t, <1>4, Zenon DEF ScanEnd, DecPendingCounter
  <2>2. QuietStep(t)
    BY <2>1, Zenon DEF QuietStep, Still, Idles, Quiet, flags
  <2>. QED
    BY <2>2, Zenon
<1>5. CASE HandleAllReexecute(t)
  <2>1. /\ pc[t] = "drain" /\ queue[t] # <<>> /\ Head(queue[t]).ev = "AllReexecute" /\ pc' = pc
        /\ rb' = [rb EXCEPT ![t] = MinOf(@, Level[Head(queue[t]).cd])]
        /\ queue' = [queue EXCEPT ![t] = Tail(@)] /\ UNCHANGED flags
    BY <1>5, Zenon DEF HandleAllReexecute, LowerRollbackPoint, PopHandled, ctl
  <2>2. Head(queue[t]) \in Handlers
    BY <1>t, <2>1
  <2>3. /\ Head(queue[t]).cd \in Shared
        /\ Head(queue[t]) = [ev |-> "AllReexecute", cd |-> Head(queue[t]).cd]
    BY <2>1, <2>2, Zenon DEF Handlers
  <2>4. queue'[t] = Tail(queue[t])
    BY <1>t, <2>1, Zenon
  <2>5. HeedStep(t, Head(queue[t]).cd)
    BY <2>1, <2>3, <2>4, Zenon DEF HeedStep, Idles, Quiet, flags
  <2>. QED
    BY <2>3, <2>5, Zenon
<1>6. CASE HandleErrorOccurred(t)
  <2> DEFINE c == Head(queue[t]).cd
  <2>1. pc[t] = "drain" /\ queue[t] # <<>> /\ Head(queue[t]).ev = "ErrorOccurred" /\ UNCHANGED flags
    BY <1>6, Zenon DEF HandleErrorOccurred
  <2>2. Level[c] <= cur[t] /\ Head(queue[t]) \in Handlers
    BY <1>t, <1>c, <2>1, BelowHead, Zenon DEF PathOK
  <2>3. c \in Shared /\ Head(queue[t]) = [ev |-> "ErrorOccurred", cd |-> c]
    BY <2>1, <2>2, Zenon DEF Handlers
  <2>4. /\ pc' = [pc EXCEPT ![t] = "cast"] /\ at' = [at EXCEPT ![t] = c]
        /\ todo' = [todo EXCEPT ![t] = Member[c]] /\ rb' = rb /\ queue' = queue
    BY <1>6, <2>2, Zenon DEF HandleErrorOccurred
  <2> HIDE DEF c
  <2>5. pc'[t] = "cast" /\ at'[t] = c /\ todo'[t] = Member[c] /\ queue'[t] = queue[t]
    BY <1>t, <2>4, Zenon
  <2>6. CastStep(t, c)
    BY <2>1, <2>3, <2>4, <2>5, Zenon DEF CastStep, Still, flags
  <2>. QED
    BY <2>3, <2>6, Zenon
<1>7. CASE Broadcast(t)
  <2> DEFINE i == Lowest(todo[t])
  <2>1. pc[t] = "cast" /\ todo[t] # {} /\ UNCHANGED flags /\ rb' = rb /\ at' = at
    BY <1>7, Zenon DEF Broadcast
  <2>2. i \in todo[t] /\ i \in Task
    BY <1>t, <2>1, LowestInSet, Zenon
  <2>3. CASE i = t
    <3>1. /\ queue' = [queue EXCEPT ![t] = Append(@, [ev |-> "AllReexecute", cd |-> at[t]])]
          /\ todo' = [todo EXCEPT ![t] = @ \ {i}] /\ pc' = pc
      BY <1>7, <2>3, Zenon DEF Broadcast
    <3>2. /\ queue'[t] = Append(queue[t], [ev |-> "AllReexecute", cd |-> at[t]])
          /\ todo'[t] = todo[t] \ {t}
      BY <1>t, <2>3, <3>1, Zenon
    <3>3. t \in todo[t]
      BY <2>2, <2>3, Zenon
    <3>4. TellSelf(t)
      BY <2>1, <3>1, <3>2, <3>3, Zenon DEF TellSelf, flags
    <3>. QED
      BY <3>4, Zenon
  <2>4. CASE i # t
    <3>1. /\ fly' = [fly EXCEPT ![t] = i] /\ pc' = [pc EXCEPT ![t] = "castpost"]
          /\ queue' = queue /\ todo' = todo
      BY <1>7, <2>4, Zenon DEF Broadcast
    <3>2. fly'[t] = i /\ pc'[t] = "castpost"
      BY <1>t, <3>1, Zenon
    <3>3. PostStep(t)
      BY <2>1, <2>2, <3>1, <3>2, Zenon DEF PostStep, Still, flags
    <3>. QED
      BY <3>3, Zenon
  <2>. QED
    BY <2>3, <2>4, Zenon
<1>8. CASE BroadcastFlag(t)
  <2>1. TellStep(t)
    BY <1>t, <1>8, Zenon DEF BroadcastFlag, TellStep
  <2>. QED
    BY <2>1, Zenon
<1>9. CASE BroadcastEnd(t)
  <2>1. EndStep(t)
    BY <1>t, <1>9, Zenon DEF BroadcastEnd, EndStep, PopHandled, flags
  <2>. QED
    BY <2>1, Zenon
<1>. QED
  BY <1>1, <1>2, <1>3, <1>4, <1>5, <1>6, <1>7, <1>8, <1>9, Zenon DEF Progress

\* The other steps that start a call.
LEMMA CallsEffect ==
  ASSUME NInv, NEW t \in Task, Calls(t)
  PROVE  \/ Detect(t) \/ Assert(t) \/ QuietStep(t)
         \/ \E c \in Shared : AgreeStep(t, c)
         \/ \E c \in Cd : LeaveStep(t, c)
<1>t. /\ queue[t] \in Seq(Handlers) /\ queue \in [Task -> Seq(Handlers)]
      /\ at \in [Task -> Cd \cup {NoCd}]
      /\ pc \in [Task -> {"run", "post", "check", "scan", "read", "drain", "cast", "castpost"}]
      /\ rb \in [Task -> RollbackPoints]
      /\ pc[t] = "run" => queue[t] = <<>>
  BY NoticeTypes, Zenon DEF PathOK
<1>1. CASE CheckMailBox(t)
  <2>1. /\ pc[t] \in {"run", "check"} /\ pc'[t] \in {"scan", "drain", "run"}
        /\ queue' = queue /\ UNCHANGED flags /\ rb' = rb
    BY <1>t, <1>1, Zenon DEF CheckMailBox
  <2>2. QuietStep(t)
    BY <2>1, Zenon DEF QuietStep, Still, Idles, Quiet, flags
  <2>. QED
    BY <2>2, Zenon
<1>2. CASE Create(t)
  <2>1. pc[t] = "run" /\ pc' = pc /\ queue' = queue /\ UNCHANGED flags /\ rb' = rb
    BY <1>2, Zenon DEF Create, Move, ctl
  <2>2. QuietStep(t)
    BY <2>1, Zenon DEF QuietStep, Still, Idles, Quiet, flags
  <2>. QED
    BY <2>2, Zenon
<1>3. CASE Begin(t) \/ Complete(t)
  <2> DEFINE c == GetCDLevel(t, len[t])
  <2>1. pc[t] = "run" /\ pc' = pc /\ queue' = queue /\ UNCHANGED flags
    BY <1>3, Zenon DEF Begin, Complete, Move, ctl
  <2>2. Idles(t) /\ Still(t)
    BY <2>1, Zenon DEF Still, Idles, Quiet, flags
  <2>3. PICK r \in {rb[t], INVALID} : SyncCDs(t, c, r)
    BY <1>3, Zenon DEF Begin, Complete
  <2>4. c \in Cd /\ t \in Member[c]
    <3>1. len[t] \in Levels
      BY Zenon DEF NInv, TInv, MTypeOK
    <3>. QED
      BY <3>1, LevelIsOwn, Zenon
  <2> HIDE DEF c
  <2>5. CASE rb' \in {rb, [rb EXCEPT ![t] = INVALID]}
    BY <2>2, <2>5, Zenon DEF QuietStep
  <2>6. ASSUME c \in Shared,
               \E u \in Member[c] : rb' \in {[rb EXCEPT ![t] = MinOf(@, rb[u])], [rb EXCEPT ![t] = rb[u]]}
        PROVE  AgreeStep(t, c)
    BY <2>2, <2>4, <2>6, Zenon DEF AgreeStep
  <2>7. \/ rb' \in {rb, [rb EXCEPT ![t] = INVALID]}
        \/ /\ c \in Shared
           /\ \E u \in Member[c] : rb' \in {[rb EXCEPT ![t] = MinOf(@, rb[u])], [rb EXCEPT ![t] = rb[u]]}
    BY <1>t, <2>3, SyncTakes, Zenon
  <2>. QED
    BY <2>5, <2>6, <2>7, Zenon
<1>4. ASSUME NEW l \in Levels, Recreate(t) \/ Destroy(t),
             errFlag' = errFlag \ OwnErrFlags(t, GetCDLevel(t, l)),
             reexFlag' = reexFlag \ OwnReexFlags(t, GetCDLevel(t, l))
      PROVE  \E c \in Cd : LeaveStep(t, c)
  <2>1. /\ pc[t] = "run" /\ pc' = pc /\ queue' = queue
        /\ rb' \in {rb, [rb EXCEPT ![t] = INVALID]}
    BY <1>4, Zenon DEF Recreate, Destroy, Move, ctl
  <2>2. GetCDLevel(t, l) \in Cd /\ t \in Member[GetCDLevel(t, l)]
    BY LevelIsOwn, Zenon
  <2>3. LeaveStep(t, GetCDLevel(t, l))
    BY <1>t, <1>4, <2>1, <2>2, Zenon DEF LeaveStep, Idles, Quiet
  <2>. QED
    BY <2>2, <2>3, Zenon
<1>5. CASE Recreate(t)
  <2>1. len[t] + 1 \in Levels
    <3>1. len[t] \in Levels
      BY Zenon DEF NInv, TInv, MTypeOK
    <3>. QED
      BY <1>5, <3>1, TreeAssumption DEF Recreate, Levels
  <2>2. /\ errFlag' = errFlag \ OwnErrFlags(t, GetCDLevel(t, len[t] + 1))
        /\ reexFlag' = reexFlag \ OwnReexFlags(t, GetCDLevel(t, len[t] + 1))
    BY <1>5, Zenon DEF Recreate
  <2>. QED
    BY <1>4, <1>5, <2>1, <2>2, Zenon
<1>6. CASE Destroy(t)
  <2>1. len[t] \in Levels
    BY Zenon DEF NInv, TInv, MTypeOK
  <2>2. /\ errFlag' = errFlag \ OwnErrFlags(t, GetCDLevel(t, len[t]))
        /\ reexFlag' = reexFlag \ OwnReexFlags(t, GetCDLevel(t, len[t]))
    BY <1>6, Zenon DEF Destroy
  <2>. QED
    BY <1>4, <1>6, <2>1, <2>2, Zenon
<1>. QED
  BY <1>1, <1>2, <1>3, <1>5, <1>6, Zenon DEF Calls

----------------------------------------------------------------------------
(* The head of a CD, and the handler it is running                          *)

\* The head of a CD is one of its tasks.
LEMMA HeadIsTask ==
  \A c \in Shared : c \in Cd /\ HeadOf[c] \in Task /\ HeadOf[c] \in Member[c] /\ Member[c] \subseteq Task
BY TreeAssumption, Zenon DEF Shared

\* The task is not telling the tasks of c.
Away(t, c) == pc[t] \notin {"cast", "castpost"} \/ at[t] # c

\* The handler at the front of a head's FIFO is for a CD it is the head of.
LEMMA FrontIsHead ==
  ASSUME NInv, NEW t \in Task, NEW c \in Shared, queue[t] # <<>>,
         Head(queue[t]) = [ev |-> "ErrorOccurred", cd |-> c]
  PROVE  HeadOf[c] = t /\ Holds(queue[t], "ErrorOccurred", c)
<1>1. queue[t] \in Seq(Handlers) /\ NoticeOK(t)
  BY NoticeTypes, Zenon
<1>2. Holds(queue[t], "ErrorOccurred", c)
  BY <1>1, HoldsTail, Zenon
<1>. QED
  BY <1>1, <1>2, Zenon DEF NoticeOK

\* What a head owes for the CD whose tasks it is telling, and that it goes on telling them.
Telling(t, c) ==
  /\ c \in Shared /\ at[t] = c /\ HeadOf[c] = t /\ ~Away(t, c) /\ pc[t] # "post"
  /\ queue[t] \in Seq(Handlers) /\ queue[t] # <<>>
  /\ Head(queue[t]) = [ev |-> "ErrorOccurred", cd |-> c]
  /\ todo[t] \subseteq Member[c] /\ Member[c] \subseteq Task
  /\ pc[t] = "castpost" => fly[t] \in todo[t]

\* A head that is in the loop of HandleErrorOccurred has the report at the head of its queue.
LEMMA CastIsTelling ==
  ASSUME NInv, NEW t \in Task, pc[t] \in {"cast", "castpost"}
  PROVE  Telling(t, at[t])
<1>1. CallOK(t) /\ NoticeOK(t) /\ queue[t] \in Seq(Handlers)
  BY NoticeTypes, Zenon
<1>2. /\ at[t] \in Shared /\ queue[t] # <<>>
      /\ Head(queue[t]) = [ev |-> "ErrorOccurred", cd |-> at[t]]
  BY <1>1, Zenon DEF CallOK
<1>3. HeadOf[at[t]] = t
  BY <1>2, FrontIsHead, Zenon
<1>4. todo[t] \subseteq Member[at[t]] /\ (pc[t] = "castpost" => fly[t] \in todo[t])
  BY <1>1, Zenon DEF NoticeOK
<1>5. ~Away(t, at[t]) /\ pc[t] # "post"
  BY Zenon DEF Away
<1>6. Member[at[t]] \subseteq Task
  BY <1>2, HeadIsTask, Zenon
<1>. QED
  BY <1>1, <1>2, <1>3, <1>4, <1>5, <1>6, Zenon DEF Telling

----------------------------------------------------------------------------
(* The invariant, and the refinement                                        *)

\* How a step changes the FIFO of the task.
FIFOStep(t) ==
  \/ queue'[t] = queue[t]
  \/ queue[t] # <<>> /\ queue'[t] = Tail(queue[t])
  \/ \E c \in Shared : HeadOf[c] = t /\ queue'[t] = Append(queue[t], [ev |-> "ErrorOccurred", cd |-> c])
  \/ \E c : queue'[t] = Append(queue[t], [ev |-> "AllReexecute", cd |-> c])

\* A task that tells the tasks of a CD after a step has only tasks of the CD left.
LeftStep(t) ==
  /\ pc'[t] \in {"cast", "castpost"} => todo'[t] \subseteq Member[at'[t]]
  /\ pc'[t] = "castpost" => fly'[t] \in todo'[t]

\* Every step does the one and the other.
LEMMA EffectKeeps ==
  \A t \in Task : SetFacts /\ NInv /\ (Progress(t) \/ Calls(t)) => FIFOStep(t) /\ LeftStep(t)

\* A task outside the loop of HandleErrorOccurred has nothing left to post.
<0>QuietLeft.
  ASSUME NEW t \in Task, pc'[t] \in Quiet \/ pc'[t] = "post"
  PROVE  LeftStep(t)
  BY <0>QuietLeft, Zenon DEF LeftStep, Quiet
<0> QED
  <1> SUFFICES ASSUME SetFacts, NInv, NEW t \in Task, Progress(t) \/ Calls(t)
               PROVE  FIFOStep(t) /\ LeftStep(t)
    BY Zenon
  <1>1. CASE LandStep(t) \/ (Idles(t) /\ Still(t))
    <2>1. queue'[t] = queue[t] /\ pc'[t] \in Quiet
      BY <1>1, Zenon DEF LandStep, Still, Idles
    <2>. QED
      BY <2>1, <0>QuietLeft, Zenon DEF FIFOStep
  <1>2. ASSUME NEW c \in Shared, ReadReport(t, c) \/ LocalReport(t, c) PROVE FIFOStep(t) /\ LeftStep(t)
    <2>1. /\ pc'[t] \in Quiet /\ HeadOf[c] = t
          /\ queue'[t] \in {queue[t], Append(queue[t], [ev |-> "ErrorOccurred", cd |-> c])}
      BY <1>2, Zenon DEF ReadReport, LocalReport, Idles
    <2>. QED
      BY <2>1, <0>QuietLeft, Zenon DEF FIFOStep
  <1>3. ASSUME NEW c \in Shared, ReadNotice(t, c) PROVE FIFOStep(t) /\ LeftStep(t)
    <2>1. pc'[t] \in Quiet /\ queue'[t] = Append(queue[t], [ev |-> "AllReexecute", cd |-> c])
      BY <1>3, Zenon DEF ReadNotice, Idles
    <2>. QED
      BY <2>1, <0>QuietLeft, Zenon DEF FIFOStep
  <1>4. ASSUME NEW c \in Shared, HeedStep(t, c) PROVE FIFOStep(t) /\ LeftStep(t)
    <2>1. pc'[t] \in Quiet /\ queue[t] # <<>> /\ queue'[t] = Tail(queue[t])
      BY <1>4, Zenon DEF HeedStep, Idles
    <2>. QED
      BY <2>1, <0>QuietLeft, Zenon DEF FIFOStep
  <1>5. ASSUME NEW c \in Shared, CastStep(t, c) PROVE FIFOStep(t) /\ LeftStep(t)
    BY <1>5, Zenon DEF CastStep, Still, FIFOStep, LeftStep
  <1>6. CASE TellSelf(t)
    <2>1. /\ pc'[t] = "cast" /\ at'[t] = at[t] /\ todo'[t] = todo[t] \ {t}
          /\ queue'[t] = Append(queue[t], [ev |-> "AllReexecute", cd |-> at[t]])
      BY <1>6, Zenon DEF TellSelf
    <2>2. todo[t] \subseteq Member[at[t]]
      BY <1>6, CastIsTelling, Zenon DEF TellSelf, Telling
    <2>. QED
      BY <2>1, <2>2, Zenon DEF FIFOStep, LeftStep
  <1>7. CASE PostStep(t)
    <2>1. /\ pc'[t] = "castpost" /\ at'[t] = at[t] /\ todo'[t] = todo[t] /\ queue'[t] = queue[t]
          /\ fly'[t] \in todo[t]
      BY <1>7, Zenon DEF PostStep, Still
    <2>2. todo[t] \subseteq Member[at[t]]
      BY <1>7, CastIsTelling, Zenon DEF PostStep, Telling
    <2>. QED
      BY <2>1, <2>2, Zenon DEF FIFOStep, LeftStep
  <1>8. CASE TellStep(t)
    <2>1. pc'[t] = "cast" /\ at'[t] = at[t] /\ todo'[t] = todo[t] \ {fly[t]} /\ queue'[t] = queue[t]
      BY <1>8, Zenon DEF TellStep
    <2>2. todo[t] \subseteq Member[at[t]]
      BY <1>8, CastIsTelling, Zenon DEF TellStep, Telling
    <2>. QED
      BY <2>1, <2>2, Zenon DEF FIFOStep, LeftStep
  <1>9. CASE EndStep(t)
    <2>1. pc'[t] = "drain" /\ queue'[t] = Tail(queue[t])
      BY <1>9, Zenon DEF EndStep
    <2>2. queue[t] # <<>>
      BY <1>9, CastIsTelling, Zenon DEF EndStep, Telling
    <2>. QED
      BY <2>1, <2>2, Zenon DEF FIFOStep, LeftStep
  <1>10. ASSUME NEW c \in Shared, RemoteReport(t, c) PROVE FIFOStep(t) /\ LeftStep(t)
    BY <1>10, Zenon DEF RemoteReport, Still, FIFOStep, LeftStep
  <1>11. ASSUME NEW c \in Cd, LeaveStep(t, c) PROVE FIFOStep(t) /\ LeftStep(t)
    <2>1. pc'[t] \in Quiet /\ queue'[t] = queue[t]
      BY <1>11, Zenon DEF LeaveStep, Idles
    <2>. QED
      BY <2>1, <0>QuietLeft, Zenon DEF FIFOStep
  <1>12. CASE FindStep(t)
    BY <1>1, <1>2, <1>10, <1>12, Zenon DEF FindStep
  <1>13. ASSUME QuietStep(t) \/ LowerStep(t) \/ \E c \in Shared : AgreeStep(t, c) PROVE Idles(t) /\ Still(t)
    BY <1>13, Zenon DEF QuietStep, LowerStep, AgreeStep
  <1>14. CASE Progress(t)
    BY <1>1, <1>2, <1>3, <1>4, <1>5, <1>6, <1>7, <1>8, <1>9, <1>13, <1>14, LowerEffect, ProgressEffect,
       Zenon
  <1>15. CASE Calls(t)
    BY <1>1, <1>11, <1>12, <1>13, <1>15, FindEffect, CallsEffect, Zenon
  <1>. QED
    BY <1>14, <1>15, Zenon

\* NInv is inductive.
LEMMA NoticeStep ==
  \A t \in Task : SetFacts /\ NInv /\ (Progress(t) \/ Calls(t)) => NInv'

\* Then only the head has handlers for the reports of a CD.
<0>FIFOKeeps.
  ASSUME NInv, NEW t \in Task, FIFOStep(t), NEW c \in Shared, Holds(queue'[t], "ErrorOccurred", c)
  PROVE  HeadOf[c] = t
  <1> USE <0>FIFOKeeps
  <1>1. queue[t] \in Seq(Handlers) /\ (Holds(queue[t], "ErrorOccurred", c) => HeadOf[c] = t)
    BY NoticeTypes, Zenon DEF NoticeOK
  <1>2. CASE queue'[t] = queue[t]
    BY <1>1, <1>2, Zenon
  <1>3. CASE queue[t] # <<>> /\ queue'[t] = Tail(queue[t])
    <2>1. Holds(queue[t], "ErrorOccurred", c)
      BY <1>1, <1>3, HoldsTail, Zenon
    <2>. QED
      BY <1>1, <2>1, Zenon
  <1>4. ASSUME NEW d \in Shared, HeadOf[d] = t,
               queue'[t] = Append(queue[t], [ev |-> "ErrorOccurred", cd |-> d])
        PROVE  HeadOf[c] = t
    <2>1. \/ Holds(queue[t], "ErrorOccurred", c)
          \/ [ev |-> "ErrorOccurred", cd |-> d] = [ev |-> "ErrorOccurred", cd |-> c]
      BY <1>1, <1>4, HoldsAppend
    <2>. QED
      BY <1>1, <1>4, <2>1, SameHandler, Zenon
  <1>5. ASSUME NEW d, queue'[t] = Append(queue[t], [ev |-> "AllReexecute", cd |-> d])
        PROVE  HeadOf[c] = t
    <2>1. \/ Holds(queue[t], "ErrorOccurred", c)
          \/ [ev |-> "AllReexecute", cd |-> d] = [ev |-> "ErrorOccurred", cd |-> c]
      BY <1>1, <1>5, HoldsAppend
    <2>. QED
      BY <1>1, <2>1, SameHandler, Zenon
  <1>. QED
    BY <1>2, <1>3, <1>4, <1>5, Zenon DEF FIFOStep
<0> QED
  <1> SUFFICES ASSUME SetFacts, NInv, NEW t \in Task, Progress(t) \/ Calls(t)
               PROVE  NInv'
    BY Zenon
  <1>0. MNext
    BY Zenon DEF MNext
  <1>1. TInv' /\ DuplicateHasBroadcast'
    BY <1>0, TypeStep, CallStep, DupStep, Zenon DEF TInv, NInv
  <1>2. PathState'
    <2>1. TInv /\ PathOK(t)
      BY NoticeTypes, Zenon DEF NInv
    <2>2. PathOK(t)'
      BY <2>1, ProgressOnPath, CallsOnPath, Zenon
    <2>3. \A u \in Task : u # t => PathOK(u)'
      BY OwnStep, Zenon DEF NInv, PathState
    <2>. QED
      BY <2>2, <2>3, Zenon DEF PathState
  <1>3. ASSUME NEW u \in Task PROVE NoticeOK(u)'
    <2>1. CASE u = t
      <3>1. FIFOStep(t) /\ LeftStep(t)
        BY EffectKeeps, Zenon
      <3>2. \A c \in Shared : Holds(queue'[t], "ErrorOccurred", c) => HeadOf[c] = t
        BY <3>1, <0>FIFOKeeps, Zenon
      <3>. QED
        BY <2>1, <3>1, <3>2, Zenon DEF NoticeOK, LeftStep
    <2>2. CASE u # t
      <3>1. /\ queue'[u] = queue[u] /\ pc'[u] = pc[u] /\ at'[u] = at[u] /\ todo'[u] = todo[u]
            /\ fly'[u] = fly[u]
        BY <2>2, StepIsOwn, Zenon DEF NInv, Own
      <3>2. NoticeOK(u)
        BY NoticeTypes, Zenon
      <3>. QED
        BY <3>1, <3>2, Zenon DEF NoticeOK
    <2>. QED
      BY <2>1, <2>2, Zenon
  <1>. QED
    BY <1>1, <1>2, <1>3, Zenon DEF NInv

\* A step that changes nothing is a stuttering step of the abstract specification.
LEMMA NoticeStutter ==
  ASSUME SetFacts, NInv, UNCHANGED mvars
  PROVE  NInv' /\ UNCHANGED EN!nvars
<1>1. TInv' /\ DuplicateHasBroadcast'
  BY TypeStep, CallStep, DupStep, Zenon DEF TInv, NInv
<1>2. /\ queue' = queue /\ cur' = cur /\ pc' = pc /\ lv' = lv /\ at' = at /\ todo' = todo
      /\ fly' = fly /\ errFlag' = errFlag /\ reexFlag' = reexFlag /\ rb' = rb
  BY Zenon DEF mvars
<1>3. PathState'
  BY <1>2, Zenon DEF NInv, PathState, PathOK
<1>4. \A u \in Task : NoticeOK(u)'
  BY <1>2, Zenon DEF NInv, NoticeOK
<1>5. Untold' = Untold
  BY <1>2, Zenon DEF Untold, Owed, Reported, Queued, Casting
<1>6. Told' = Told /\ Due' = Due
  BY <1>2, Zenon DEF Told, Noticed, Due, Marked
<1>. QED
  BY <1>1, <1>2, <1>3, <1>4, <1>5, <1>6, Zenon DEF NInv, EN!nvars

\* And so are the initial states.
LEMMA NoticeInit == MInit => NInv /\ EN!NInit
<1> SUFFICES ASSUME MInit PROVE NInv /\ EN!NInit
  BY Zenon
<1>1. ASSUME NEW t \in Task PROVE queue[t] = <<>> /\ pc[t] = "run"
  BY <1>1, Zenon DEF MInit
<1>2. errFlag = {} /\ reexFlag = {} /\ rb = [t \in Task |-> INVALID]
  BY Zenon DEF MInit
<1>3. TInv /\ DuplicateHasBroadcast
  BY TInvInit, Zenon DEF MInit, DuplicateHasBroadcast
<1>4. PathState
  BY <1>1, BelowEmpty, Zenon DEF PathState, PathOK
<1>5. \A t \in Task : NoticeOK(t)
  BY <1>1, HoldsNothing, Zenon DEF NoticeOK
<1>6. \A c \in Shared : Owed(c) = {}
  <2>1. SUFFICES ASSUME NEW c \in Shared PROVE Owed(c) = {}
    BY Zenon
  <2>2. HeadOf[c] \in Task
    BY HeadIsTask, Zenon
  <2>3. queue[HeadOf[c]] = <<>> /\ pc[HeadOf[c]] = "run"
    BY <1>1, <2>2, Zenon
  <2>4. ~Reported(c)
    BY <1>1, <1>2, Zenon DEF Reported
  <2>5. ~Casting(c)
    BY <2>3, Zenon DEF Casting
  <2>6. ~Queued(c)
    BY <2>3, <2>5, HoldsNothing, Zenon DEF Queued
  <2>. QED
    BY <2>4, <2>5, <2>6, Zenon DEF Owed
<1>7. Untold = [c \in Shared |-> {}]
  BY <1>6, Zenon DEF Untold
<1>8. Told = {}
  <2>1. \A p \in Shared \X Task : ~Noticed(p[1], p[2])
    BY <1>1, <1>2, HoldsNothing, Zenon DEF Noticed
  <2>. QED
    BY <2>1, Zenon DEF Told
<1>9. Due = {}
  <2>1. \A t \in Task : Marked(t) = {}
    BY <1>1, Zenon DEF Marked
  <2>. QED
    BY <2>1, Zenon DEF Due
<1>. QED
  BY <1>2, <1>3, <1>4, <1>5, <1>7, <1>8, <1>9, Zenon DEF NInv, EN!NInit

\* Every step of a task is a step of ErrorNotice or leaves its state alone.
LEMMA NoticeSim ==
  \A t \in Task : SetFacts /\ NInv /\ (Progress(t) \/ Calls(t)) => [EN!NNext]_(EN!nvars)

\* What a step leaves to be set is what its task leaves, and what the others had left.
<0>DueParts.
  ASSUME NEW t \in Task, Own(t)
  PROVE  /\ \A p : p \in Due <=> p \in Marked(t) \/ \E u \in Task : u # t /\ p \in Marked(u)
         /\ \A p : p \in Due' <=> p \in Marked(t)' \/ \E u \in Task : u # t /\ p \in Marked(u)
  <1> USE <0>DueParts
  <1>1. \A u \in Task : u # t => Marked(u)' = Marked(u)
    BY Zenon DEF Own, Marked
  <1>. QED
    BY <1>1, Zenon DEF Due

\* What is in the FIFO of the head of a CD, while it is not telling the tasks of the CD and
\* while it is.
<0>HeadFIFO.
  ASSUME NEW c, NEW t, HeadOf[c] = t
  PROVE  /\ Away(t, c) => ~Casting(c) /\ (Queued(c) <=> Holds(queue[t], "ErrorOccurred", c))
         /\ Away(t, c)' => ~Casting(c)' /\ (Queued(c)' <=> Holds(queue'[t], "ErrorOccurred", c))
         /\ ~Away(t, c) => Casting(c) /\ (Queued(c) <=> Holds(Tail(queue[t]), "ErrorOccurred", c))
         /\ ~Away(t, c)' => Casting(c)' /\ (Queued(c)' <=> Holds(Tail(queue'[t]), "ErrorOccurred", c))
  BY <0>HeadFIFO, Zenon DEF Casting, Queued, Away

\* A step of another task than the head changes what is owed only by a report.
<0>OtherHead.
  ASSUME NEW t \in Task, Own(t), NEW c \in Shared, HeadOf[c] # t
  PROVE  /\ Casting(c)' <=> Casting(c)
         /\ Queued(c)' <=> Queued(c)
         /\ todo'[HeadOf[c]] = todo[HeadOf[c]]
  <1> USE <0>OtherHead
  <1>1. HeadOf[c] \in Task
    BY HeadIsTask, Zenon
  <1>2. /\ queue'[HeadOf[c]] = queue[HeadOf[c]] /\ pc'[HeadOf[c]] = pc[HeadOf[c]]
        /\ at'[HeadOf[c]] = at[HeadOf[c]] /\ todo'[HeadOf[c]] = todo[HeadOf[c]]
    BY <1>1, Zenon DEF Own
  <1>. QED
    BY <1>2, Zenon DEF Casting, Queued

\* A step in which the task posts no report of c leaves the reports of c alone.
<0>SameReports.
  ASSUME NEW t \in Task, Own(t), NEW c,
         pc[t] = "post" /\ at[t] = c <=> pc'[t] = "post" /\ at'[t] = c,
         \A s \in Task : <<c, s>> \in errFlag' <=> <<c, s>> \in errFlag
  PROVE  Reported(c)' <=> Reported(c)
  <1> USE <0>SameReports
  <1>1. ASSUME NEW s \in Task
        PROVE  /\ pc[s] = "post" /\ at[s] = c <=> pc'[s] = "post" /\ at'[s] = c
               /\ <<c, s>> \in errFlag' <=> <<c, s>> \in errFlag
    <2>1. CASE s = t
      BY <2>1, Zenon
    <2>2. CASE s # t
      BY <2>2, Zenon DEF Own
    <2>. QED
      BY <2>1, <2>2, Zenon
  <1>. QED
    BY <1>1, Zenon DEF Reported

\* What is owed for a CD depends on these.
<0>SameOwed.
  ASSUME NEW c,
         (Reported(c) \/ Queued(c))' <=> Reported(c) \/ Queued(c),
         Casting(c)' <=> Casting(c),
         Casting(c) => todo'[HeadOf[c]] = todo[HeadOf[c]]
  PROVE  Owed(c)' = Owed(c)
  BY <0>SameOwed, Zenon DEF Owed

\* When no CD owes anything new, the abstract untold does not change.
<0>SameUntold.
  ASSUME \A c \in Shared : Owed(c)' = Owed(c)
  PROVE  Untold' = Untold
  BY <0>SameUntold, Zenon DEF Untold

\* When one CD alone owes something else, the abstract untold changes there alone.
<0>ChangedUntold.
  ASSUME NEW c \in Shared, NEW S, Owed(c)' = S, \A d \in Shared : d # c => Owed(d)' = Owed(d)
  PROVE  Untold' = [Untold EXCEPT ![c] = S]
  <1> USE <0>ChangedUntold
  <1>1. Untold' = [d \in Shared |-> Owed(d)']
    BY Zenon DEF Untold
  <1>2. [Untold EXCEPT ![c] = S] = [d \in Shared |-> IF d = c THEN S ELSE Owed(d)]
    BY Zenon DEF Untold
  <1>3. \A d \in Shared : Owed(d)' = IF d = c THEN S ELSE Owed(d)
    BY Zenon
  <1>. QED
    BY <1>1, <1>2, <1>3, Zenon

\* The notices a task other than the acting one has.
<0>OtherNotices.
  ASSUME NEW t \in Task, Own(t), NEW u \in Task, u # t, NEW c,
         <<c, u>> \in reexFlag' <=> <<c, u>> \in reexFlag
  PROVE  Noticed(c, u)' <=> Noticed(c, u)
  <1> USE <0>OtherNotices
  <1>1. queue'[u] = queue[u]
    BY Zenon DEF Own
  <1>. QED
    BY <1>1, Zenon DEF Noticed

\* When nobody is noticed of anything new, the abstract told does not change.
<0>SameTold.
  ASSUME \A c \in Shared : \A u \in Task : Noticed(c, u)' <=> Noticed(c, u)
  PROVE  Told' = Told
  <1> USE <0>SameTold
  <1>1. \A p \in Shared \X Task : Noticed(p[1], p[2])' <=> Noticed(p[1], p[2])
    BY Zenon
  <1>. QED
    BY <1>1, Zenon DEF Told

\* One notice more, or one less.
<0>MoreTold.
  ASSUME NEW c \in Shared, NEW t \in Task, Noticed(c, t)',
         \A d \in Shared, u \in Task : d # c \/ u # t => (Noticed(d, u)' <=> Noticed(d, u))
  PROVE  Told' = Told \cup {<<c, t>>}
  <1> USE <0>MoreTold
  <1>1. ASSUME NEW p \in Shared \X Task PROVE p \in Told' <=> p \in Told \/ p = <<c, t>>
    <2>1. PICK d \in Shared, u \in Task : p = <<d, u>>
      OBVIOUS
    <2>2. p[1] = d /\ p[2] = u
      BY <2>1, Zenon
    <2>3. CASE d = c /\ u = t
      BY <2>1, <2>2, <2>3, Zenon DEF Told
    <2>4. CASE d # c \/ u # t
      BY <2>1, <2>2, <2>4, Zenon DEF Told
    <2>. QED
      BY <2>3, <2>4, Zenon
  <1>2. Told \subseteq Shared \X Task /\ Told' \subseteq Shared \X Task /\ <<c, t>> \in Shared \X Task
    BY Zenon DEF Told
  <1>. QED
    BY <1>1, <1>2, Zenon

\* When one task has heeded its notice, the abstract told loses that pair alone.
<0>LessTold.
  ASSUME NEW c \in Shared, NEW t \in Task, ~Noticed(c, t)',
         \A d \in Shared, u \in Task : d # c \/ u # t => (Noticed(d, u)' <=> Noticed(d, u))
  PROVE  Told' = Told \ {<<c, t>>}
  <1> USE <0>LessTold
  <1>1. ASSUME NEW p \in Shared \X Task PROVE p \in Told' <=> p \in Told /\ p # <<c, t>>
    <2>1. PICK d \in Shared, u \in Task : p = <<d, u>>
      OBVIOUS
    <2>2. p[1] = d /\ p[2] = u
      BY <2>1, Zenon
    <2>3. CASE d = c /\ u = t
      BY <2>1, <2>2, <2>3, Zenon DEF Told
    <2>4. CASE d # c \/ u # t
      BY <2>1, <2>2, <2>4, Zenon DEF Told
    <2>. QED
      BY <2>3, <2>4, Zenon
  <1>2. Told \subseteq Shared \X Task /\ Told' \subseteq Shared \X Task
    BY Zenon DEF Told
  <1>. QED
    BY <1>1, <1>2, Zenon

\* Nothing is owed or paid for a CD by a step that neither tells its tasks nor moves a report.
<0>AwayOwed.
  ASSUME NEW t \in Task, Own(t), NEW c \in Shared, Away(t, c), Away(t, c)',
         pc[t] = "post" /\ at[t] = c <=> pc'[t] = "post" /\ at'[t] = c,
         \A s \in Task : <<c, s>> \in errFlag' <=> <<c, s>> \in errFlag,
         Holds(queue'[t], "ErrorOccurred", c) <=> Holds(queue[t], "ErrorOccurred", c)
  PROVE  Owed(c)' = Owed(c)
  <1> USE <0>AwayOwed
  <1>1. Reported(c)' <=> Reported(c)
    BY <0>SameReports, Zenon
  <1>2. CASE HeadOf[c] = t
    <2>1. ~Casting(c) /\ ~Casting(c)' /\ (Queued(c)' <=> Queued(c))
      BY <1>2, <0>HeadFIFO, Zenon
    <2>. QED
      BY <1>1, <2>1, <0>SameOwed, Zenon
  <1>3. CASE HeadOf[c] # t
    <2>1. /\ Casting(c)' <=> Casting(c)
          /\ Queued(c)' <=> Queued(c)
          /\ todo'[HeadOf[c]] = todo[HeadOf[c]]
      BY <1>3, <0>OtherHead, Zenon
    <2>. QED
      BY <1>1, <2>1, <0>SameOwed, Zenon
  <1>. QED
    BY <1>2, <1>3, Zenon

\* Nor by one that neither reads a report nor tells anyone.
<0>QuietOwed.
  ASSUME NEW t \in Task, Own(t), Idles(t), errFlag' = errFlag,
         \A c \in Shared : Holds(queue'[t], "ErrorOccurred", c) <=> Holds(queue[t], "ErrorOccurred", c)
  PROVE  Untold' = Untold
  <1> USE <0>QuietOwed
  <1>1. ASSUME NEW c \in Shared PROVE Owed(c)' = Owed(c)
    <2>1. Away(t, c) /\ Away(t, c)' /\ pc[t] # "post" /\ pc'[t] # "post"
      BY Zenon DEF Idles, Quiet, Away
    <2>. QED
      BY <2>1, <0>AwayOwed, Zenon
  <1>. QED
    BY <1>1, <0>SameUntold, Zenon

\* The notices change only with the flags and the FIFO.
<0>QuietTold.
  ASSUME NEW t \in Task, Own(t), reexFlag' = reexFlag,
         \A c \in Shared : Holds(queue'[t], "AllReexecute", c) <=> Holds(queue[t], "AllReexecute", c)
  PROVE  Told' = Told
  <1> USE <0>QuietTold
  <1>1. ASSUME NEW c \in Shared, NEW u \in Task PROVE Noticed(c, u)' <=> Noticed(c, u)
    <2>1. CASE u = t
      BY <2>1, Zenon DEF Noticed
    <2>2. CASE u # t
      BY <2>2, <0>OtherNotices, Zenon
    <2>. QED
      BY <2>1, <2>2, Zenon
  <1>. QED
    BY <1>1, <0>SameTold, Zenon

\* The steps that neither lose nor spread anything: ScanEnd, CheckMailBox, Begin, ...
<0>QuietSim.
  ASSUME NEW t \in Task, Own(t), Due' = Due, QuietStep(t)
  PROVE  [EN!NNext]_(EN!nvars)
  <1> USE <0>QuietSim
  <1>1. Idles(t) /\ Still(t) /\ rb' \in {rb, [rb EXCEPT ![t] = INVALID]}
    BY Zenon DEF QuietStep
  <1>2. Untold' = Untold
    BY <1>1, <0>QuietOwed, Zenon DEF Still
  <1>3. Told' = Told
    BY <1>1, <0>QuietTold, Zenon DEF Still
  <1>4. CASE rb' = rb
    BY <1>2, <1>3, <1>4, Zenon DEF EN!nvars
  <1>5. CASE rb' = [rb EXCEPT ![t] = INVALID]
    <2>1. EN!Restart(t)
      BY <1>2, <1>3, <1>5, Zenon DEF EN!Restart
    <2>. QED
      BY <2>1, Zenon DEF EN!NNext
  <1>. QED
    BY <1>1, <1>4, <1>5, Zenon

\* A rollback point is set: the same may be left to be set for another task.
<0>LowerSim.
  ASSUME NEW t \in Task, Own(t), LowerStep(t)
  PROVE  \E u \in Task : EN!Lower(u, lv[t])
  <1> USE <0>LowerSim
  <1>1. Idles(t) /\ Still(t)
    BY Zenon DEF LowerStep
  <1>2. PICK u \in Task : /\ <<u, lv[t]>> \in Marked(t)
                          /\ Marked(t)' = Marked(t) \ {<<u, lv[t]>>}
                          /\ rb' = [rb EXCEPT ![u] = MinOf(@, lv[t])]
    BY Zenon DEF LowerStep
  <1>3. Untold' = Untold /\ Told' = Told
    BY <1>1, <0>QuietOwed, <0>QuietTold, Zenon DEF Still
  <1>4. <<u, lv[t]>> \in Due
    BY <1>2, <0>DueParts, Zenon
  <1>5. Due' \in {Due, Due \ {<<u, lv[t]>>}}
    <2>1. CASE \E s \in Task : s # t /\ <<u, lv[t]>> \in Marked(s)
      <3>1. \A p : p \in Due' <=> p \in Due
        BY <1>2, <2>1, <0>DueParts, Zenon
      <3>. QED
        BY <3>1, Zenon
    <2>2. CASE ~\E s \in Task : s # t /\ <<u, lv[t]>> \in Marked(s)
      <3>1. \A p : p \in Due' <=> p \in Due \ {<<u, lv[t]>>}
        BY <1>2, <2>2, <0>DueParts, Zenon
      <3>. QED
        BY <3>1, Zenon
    <2>. QED
      BY <2>1, <2>2, Zenon
  <1>6. rb' = EN!Lowered(u, lv[t])
    BY <1>2, Zenon DEF EN!Lowered, MinOf
  <1>7. EN!Lower(u, lv[t])
    BY <1>3, <1>4, <1>5, <1>6, Zenon DEF EN!Lower
  <1>. QED
    BY <1>7, Zenon

\* The tasks of a CD synchronise.
<0>AgreeSim.
  ASSUME NEW t \in Task, Own(t), Due' = Due, NEW c \in Shared, AgreeStep(t, c)
  PROVE  EN!Agree(c, t)
  <1> USE <0>AgreeSim
  <1>1. Idles(t) /\ Still(t) /\ t \in Member[c]
    BY Zenon DEF AgreeStep
  <1>2. Untold' = Untold /\ Told' = Told
    BY <1>1, <0>QuietOwed, <0>QuietTold, Zenon DEF Still
  <1>3. \E u \in Member[c] : rb' \in {EN!Lowered(t, rb[u]), [rb EXCEPT ![t] = rb[u]]}
    BY Zenon DEF AgreeStep, EN!Lowered, MinOf
  <1>. QED
    BY <1>1, <1>2, <1>3, Zenon DEF EN!Agree

\* The second epoch of a report: it is in the head's mailbox.
<0>LandSim.
  ASSUME NEW t \in Task, Own(t), LandStep(t)
  PROVE  Untold' = Untold /\ Told' = Told /\ rb' = rb
  <1> USE <0>LandSim
  <1>1. /\ pc[t] = "post" /\ pc'[t] \in Quiet /\ queue'[t] = queue[t] /\ rb' = rb
        /\ errFlag' = errFlag \cup {<<at[t], t>>} /\ reexFlag' = reexFlag
    BY Zenon DEF LandStep
  <1>2. Told' = Told
    BY <1>1, <0>QuietTold, Zenon
  <1>3. ASSUME NEW c \in Shared PROVE Owed(c)' = Owed(c)
    <2>1. Away(t, c) /\ Away(t, c)'
      BY <1>1, Zenon DEF Away, Quiet
    <2>2. CASE c # at[t]
      <3>1. \A s \in Task : <<c, s>> \in errFlag' <=> <<c, s>> \in errFlag
        BY <1>1, <2>2, Zenon
      <3>2. pc[t] = "post" /\ at[t] = c <=> pc'[t] = "post" /\ at'[t] = c
        BY <1>1, <2>2, Zenon DEF Quiet
      <3>. QED
        BY <1>1, <2>1, <3>1, <3>2, <0>AwayOwed, Zenon
    <2>3. CASE c = at[t]
      <3>1. Reported(c)
        BY <1>1, <2>3, Zenon DEF Reported
      <3>2. <<c, t>> \in errFlag'
        BY <1>1, <2>3, Zenon
      <3>3. Reported(c)'
        BY <3>2, Zenon DEF Reported
      <3>. QED
        BY <3>1, <3>3, Zenon DEF Owed
    <2>. QED
      BY <2>2, <2>3, Zenon
  <1>. QED
    BY <1>1, <1>2, <1>3, <0>SameUntold, Zenon

\* A head reads a report: the handler is in its FIFO, or was there already.
<0>ReadReportSim.
  ASSUME NInv, NEW t \in Task, Own(t), NEW c \in Shared, ReadReport(t, c)
  PROVE  Untold' = Untold /\ Told' = Told /\ rb' = rb
  <1> USE <0>ReadReportSim
  <1>t. queue[t] \in Seq(Handlers)
    BY NoticeTypes, Zenon
  <1>1. /\ Idles(t) /\ HeadOf[c] = t /\ reexFlag' = reexFlag /\ rb' = rb
        /\ \/ errOcc[c] /\ queue'[t] = queue[t]
           \/ queue'[t] = Append(queue[t], [ev |-> "ErrorOccurred", cd |-> c])
    BY Zenon DEF ReadReport
  <1>s. PICK s \in Task : <<c, s>> \in errFlag /\ errFlag' = errFlag \ {<<c, s>>}
    BY Zenon DEF ReadReport
  <1>h. ASSUME NEW ev, NEW d, [ev |-> "ErrorOccurred", cd |-> c] # [ev |-> ev, cd |-> d]
        PROVE  Holds(queue'[t], ev, d) <=> Holds(queue[t], ev, d)
    <2>1. CASE queue'[t] = queue[t]
      BY <2>1, Zenon
    <2>2. CASE queue'[t] = Append(queue[t], [ev |-> "ErrorOccurred", cd |-> c])
      <3>1. Holds(Append(queue[t], [ev |-> "ErrorOccurred", cd |-> c]), ev, d)
              <=> Holds(queue[t], ev, d) \/ [ev |-> "ErrorOccurred", cd |-> c] = [ev |-> ev, cd |-> d]
        BY <1>t, HoldsAppend, Zenon
      <3>. QED
        BY <1>h, <2>2, <3>1, Zenon
    <2>. QED
      BY <1>1, <2>1, <2>2, Zenon
  <1>2. Told' = Told
    <2>1. \A d \in Shared : Holds(queue'[t], "AllReexecute", d) <=> Holds(queue[t], "AllReexecute", d)
      BY <1>h, SameHandler, Zenon
    <2>. QED
      BY <1>1, <2>1, <0>QuietTold, Zenon
  <1>3. ASSUME NEW d \in Shared PROVE Owed(d)' = Owed(d)
    <2>1. Away(t, d) /\ Away(t, d)' /\ pc[t] # "post" /\ pc'[t] # "post"
      BY <1>1, Zenon DEF Away, Quiet, Idles
    <2>2. CASE d # c
      <3>1. \A u \in Task : <<d, u>> \in errFlag' <=> <<d, u>> \in errFlag
        BY <1>s, <2>2, Zenon
      <3>2. Holds(queue'[t], "ErrorOccurred", d) <=> Holds(queue[t], "ErrorOccurred", d)
        <4>1. [ev |-> "ErrorOccurred", cd |-> c] # [ev |-> "ErrorOccurred", cd |-> d]
          BY <2>2, SameHandler, Zenon
        <4>. QED
          BY <4>1, <1>h, Zenon
      <3>. QED
        BY <2>1, <3>1, <3>2, <0>AwayOwed, Zenon
    <2>3. CASE d = c
      <3>1. Reported(c)
        BY <1>s, Zenon DEF Reported
      <3>2. Holds(queue'[t], "ErrorOccurred", c)
        <4>1. CASE errOcc[c] /\ queue'[t] = queue[t]
          <5>1. Holds(queue[HeadOf[c]], "ErrorOccurred", c)
            BY <4>1, Zenon DEF NInv, DuplicateHasBroadcast, Holds
          <5>. QED
            BY <1>1, <4>1, <5>1, Zenon
        <4>2. CASE queue'[t] = Append(queue[t], [ev |-> "ErrorOccurred", cd |-> c])
          BY <1>t, <4>2, HoldsAppend
        <4>. QED
          BY <1>1, <4>1, <4>2, Zenon
      <3>3. Queued(c)'
        BY <1>1, <2>1, <2>3, <3>2, <0>HeadFIFO, Zenon
      <3>. QED
        BY <2>3, <3>1, <3>3, Zenon DEF Owed
    <2>. QED
      BY <2>2, <2>3, Zenon
  <1>. QED
    BY <1>1, <1>2, <1>3, <0>SameUntold, Zenon

\* A task reads a notice: it is in its FIFO.
<0>ReadNoticeSim.
  ASSUME NInv, NEW t \in Task, Own(t), NEW c \in Shared, ReadNotice(t, c)
  PROVE  Untold' = Untold /\ Told' = Told /\ rb' = rb
  <1> USE <0>ReadNoticeSim
  <1>t. queue[t] \in Seq(Handlers)
    BY NoticeTypes, Zenon
  <1>1. /\ Idles(t) /\ errFlag' = errFlag /\ rb' = rb
        /\ <<c, t>> \in reexFlag /\ reexFlag' = reexFlag \ {<<c, t>>}
        /\ queue'[t] = Append(queue[t], [ev |-> "AllReexecute", cd |-> c])
    BY Zenon DEF ReadNotice
  <1>h. ASSUME NEW ev, NEW d
        PROVE  Holds(queue'[t], ev, d)
                 <=> Holds(queue[t], ev, d) \/ [ev |-> "AllReexecute", cd |-> c] = [ev |-> ev, cd |-> d]
    <2>1. Holds(Append(queue[t], [ev |-> "AllReexecute", cd |-> c]), ev, d)
            <=> Holds(queue[t], ev, d) \/ [ev |-> "AllReexecute", cd |-> c] = [ev |-> ev, cd |-> d]
      BY <1>t, HoldsAppend, Zenon
    <2>2. queue'[t] = Append(queue[t], [ev |-> "AllReexecute", cd |-> c])
      BY <1>1, Zenon
    <2>. QED
      BY <2>1, <2>2, Zenon
  <1>2. Untold' = Untold
    <2>1. \A d \in Shared : Holds(queue'[t], "ErrorOccurred", d) <=> Holds(queue[t], "ErrorOccurred", d)
      BY <1>h, SameHandler, Zenon
    <2>. QED
      BY <1>1, <2>1, <0>QuietOwed, Zenon
  <1>3. ASSUME NEW d \in Shared, NEW u \in Task PROVE Noticed(d, u)' <=> Noticed(d, u)
    <2>1. CASE u # t
      <3>1. <<d, u>> \in reexFlag' <=> <<d, u>> \in reexFlag
        BY <1>1, <2>1, Zenon
      <3>. QED
        BY <2>1, <3>1, <0>OtherNotices, Zenon
    <2>2. CASE u = t /\ d # c
      <3>1. <<d, t>> \in reexFlag' <=> <<d, t>> \in reexFlag
        BY <1>1, <2>2, Zenon
      <3>2. [ev |-> "AllReexecute", cd |-> c] # [ev |-> "AllReexecute", cd |-> d]
        BY <2>2, SameHandler, Zenon
      <3>3. Holds(queue'[t], "AllReexecute", d) <=> Holds(queue[t], "AllReexecute", d)
        BY <1>h, <3>2, Zenon
      <3>. QED
        BY <2>2, <3>1, <3>3, Zenon DEF Noticed
    <2>3. CASE u = t /\ d = c
      <3>1. Holds(queue'[t], "AllReexecute", c)
        BY <1>h, Zenon
      <3>. QED
        BY <1>1, <2>3, <3>1, Zenon DEF Noticed
    <2>. QED
      BY <2>1, <2>2, <2>3, Zenon
  <1>. QED
    BY <1>1, <1>2, <1>3, <0>SameTold, Zenon

\* HandleAllReexecute: the task acts on a notice, of which there may be a second one.
<0>HeedSim.
  ASSUME NInv, NEW t \in Task, Own(t), Due' = Due, NEW c \in Shared, HeedStep(t, c)
  PROVE  EN!Heed(c, t)
  <1> USE <0>HeedSim
  <1>t. queue[t] \in Seq(Handlers) /\ rb \in [Task -> RollbackPoints]
    BY NoticeTypes, Zenon
  <1>1. /\ Idles(t) /\ errFlag' = errFlag /\ reexFlag' = reexFlag
        /\ queue[t] # <<>> /\ Head(queue[t]) = [ev |-> "AllReexecute", cd |-> c]
        /\ queue'[t] = Tail(queue[t]) /\ rb' = [rb EXCEPT ![t] = MinOf(@, Level[c])]
    BY Zenon DEF HeedStep
  <1>h. ASSUME NEW ev, NEW d
        PROVE  Holds(queue[t], ev, d)
                 <=> Holds(queue'[t], ev, d) \/ [ev |-> "AllReexecute", cd |-> c] = [ev |-> ev, cd |-> d]
    <2>1. queue[t] # <<>>
      BY <1>1, Zenon
    <2>2. Holds(queue[t], ev, d) <=> Holds(Tail(queue[t]), ev, d) \/ Head(queue[t]) = [ev |-> ev, cd |-> d]
      BY <1>t, <2>1, HoldsTail, Zenon
    <2>3. queue'[t] = Tail(queue[t]) /\ Head(queue[t]) = [ev |-> "AllReexecute", cd |-> c]
      BY <1>1, Zenon
    <2>. QED
      BY <2>2, <2>3, Zenon
  <1>2. Untold' = Untold
    <2>1. \A d \in Shared : Holds(queue'[t], "ErrorOccurred", d) <=> Holds(queue[t], "ErrorOccurred", d)
      BY <1>h, SameHandler, Zenon
    <2>. QED
      BY <1>1, <2>1, <0>QuietOwed, Zenon
  <1>3. Noticed(c, t)
    <2>1. Holds(queue[t], "AllReexecute", c)
      BY <1>h, Zenon
    <2>. QED
      BY <2>1, Zenon DEF Noticed
  <1>4. ASSUME NEW d \in Shared, NEW u \in Task, d # c \/ u # t
        PROVE  Noticed(d, u)' <=> Noticed(d, u)
    <2>1. CASE u # t
      BY <1>1, <2>1, <0>OtherNotices, Zenon
    <2>2. CASE u = t /\ d # c
      <3>1. [ev |-> "AllReexecute", cd |-> c] # [ev |-> "AllReexecute", cd |-> d]
        BY <2>2, SameHandler, Zenon
      <3>2. Holds(queue'[t], "AllReexecute", d) <=> Holds(queue[t], "AllReexecute", d)
        BY <1>h, <3>1, Zenon
      <3>. QED
        BY <1>1, <2>2, <3>2, Zenon DEF Noticed
    <2>. QED
      BY <1>4, <2>1, <2>2, Zenon
  <1>5. Told' \in {Told, Told \ {<<c, t>>}}
    <2>1. CASE Noticed(c, t)'
      <3>1. \A d \in Shared, u \in Task : Noticed(d, u)' <=> Noticed(d, u)
        BY <1>3, <1>4, <2>1, Zenon
      <3>. QED
        BY <3>1, <0>SameTold, Zenon
    <2>2. CASE ~Noticed(c, t)'
      BY <1>4, <2>2, <0>LessTold, Zenon
    <2>. QED
      BY <2>1, <2>2, Zenon
  <1>6. <<c, t>> \in Told
    BY <1>3, Zenon DEF Told
  <1>7. rb' = EN!Lowered(t, Level[c])
    BY <1>1, Zenon DEF MinOf, EN!Lowered
  <1>. QED
    BY <1>2, <1>5, <1>6, <1>7, Zenon DEF EN!Heed

\* HandleErrorOccurred starts: every task of the CD is still to be told.
<0>CastSim.
  ASSUME NInv, NEW t \in Task, Own(t), NEW c \in Shared, CastStep(t, c)
  PROVE  Untold' = Untold /\ Told' = Told /\ rb' = rb
  <1> USE <0>CastSim
  <1>1. /\ pc[t] = "drain" /\ pc'[t] = "cast" /\ Still(t) /\ rb' = rb
        /\ queue[t] # <<>> /\ Head(queue[t]) = [ev |-> "ErrorOccurred", cd |-> c]
        /\ at'[t] = c /\ todo'[t] = Member[c]
    BY Zenon DEF CastStep
  <1>2. HeadOf[c] = t /\ Holds(queue[t], "ErrorOccurred", c)
    BY <1>1, FrontIsHead, Zenon
  <1>3. Told' = Told
    BY <1>1, <0>QuietTold, Zenon DEF Still
  <1>4. ASSUME NEW d \in Shared PROVE Owed(d)' = Owed(d)
    <2>1. CASE d # c
      <3>1. Away(t, d) /\ Away(t, d)' /\ pc[t] # "post" /\ pc'[t] # "post"
        BY <1>1, <2>1, Zenon DEF Away
      <3>. QED
        BY <1>1, <3>1, <0>AwayOwed, Zenon DEF Still
    <2>2. CASE d = c
      <3>1. Away(t, c) /\ ~Away(t, c)'
        BY <1>1, Zenon DEF Away
      <3>2. Queued(c)
        BY <1>2, <3>1, <0>HeadFIFO, Zenon
      <3>3. Casting(c)'
        BY <1>2, <3>1, <0>HeadFIFO, Zenon
      <3>4. Owed(c)' = Member[c]
        BY <1>1, <1>2, <3>3, Zenon DEF Owed
      <3>. QED
        BY <2>2, <3>2, <3>4, Zenon DEF Owed
    <2>. QED
      BY <2>1, <2>2, Zenon
  <1>. QED
    BY <1>1, <1>3, <1>4, <0>SameUntold, Zenon

\* A report to the head itself.
<0>LocalReportSim.
  ASSUME NInv, NEW t \in Task, Own(t), NEW c \in Shared, LocalReport(t, c)
  PROVE  Untold' = [Untold EXCEPT ![c] = Member[c]] /\ Told' = Told /\ rb' = rb
  <1> USE <0>LocalReportSim
  <1>t. queue[t] \in Seq(Handlers)
    BY NoticeTypes, Zenon
  <1>1. /\ Idles(t) /\ HeadOf[c] = t /\ reexFlag' = reexFlag /\ rb' = rb
        /\ queue'[t] = Append(queue[t], [ev |-> "ErrorOccurred", cd |-> c])
        /\ errFlag' = errFlag \ {<<c, t>>}
    BY Zenon DEF LocalReport
  <1>h. ASSUME NEW ev, NEW d
        PROVE  Holds(queue'[t], ev, d)
                 <=> Holds(queue[t], ev, d) \/ [ev |-> "ErrorOccurred", cd |-> c] = [ev |-> ev, cd |-> d]
    <2>1. Holds(Append(queue[t], [ev |-> "ErrorOccurred", cd |-> c]), ev, d)
            <=> Holds(queue[t], ev, d) \/ [ev |-> "ErrorOccurred", cd |-> c] = [ev |-> ev, cd |-> d]
      BY <1>t, HoldsAppend, Zenon
    <2>2. queue'[t] = Append(queue[t], [ev |-> "ErrorOccurred", cd |-> c])
      BY <1>1, Zenon
    <2>. QED
      BY <2>1, <2>2, Zenon
  <1>2. Told' = Told
    <2>1. \A d \in Shared : Holds(queue'[t], "AllReexecute", d) <=> Holds(queue[t], "AllReexecute", d)
      BY <1>h, SameHandler, Zenon
    <2>. QED
      BY <1>1, <2>1, <0>QuietTold, Zenon
  <1>3. ASSUME NEW d \in Shared, d # c PROVE Owed(d)' = Owed(d)
    <2>1. Away(t, d) /\ Away(t, d)' /\ pc[t] # "post" /\ pc'[t] # "post"
      BY <1>1, Zenon DEF Away, Quiet, Idles
    <2>2. \A u \in Task : <<d, u>> \in errFlag' <=> <<d, u>> \in errFlag
      BY <1>1, <1>3, Zenon
    <2>3. [ev |-> "ErrorOccurred", cd |-> c] # [ev |-> "ErrorOccurred", cd |-> d]
      BY <1>3, SameHandler, Zenon
    <2>4. Holds(queue'[t], "ErrorOccurred", d) <=> Holds(queue[t], "ErrorOccurred", d)
      BY <1>h, <2>3, Zenon
    <2>. QED
      BY <2>1, <2>2, <2>4, <0>AwayOwed, Zenon
  <1>4. Owed(c)' = Member[c]
    <2>1. Away(t, c)'
      BY <1>1, Zenon DEF Away, Quiet, Idles
    <2>2. Holds(queue'[t], "ErrorOccurred", c)
      BY <1>h, Zenon
    <2>3. Queued(c)'
      BY <1>1, <2>1, <2>2, <0>HeadFIFO, Zenon
    <2>. QED
      BY <2>3, Zenon DEF Owed
  <1>5. Untold' = [Untold EXCEPT ![c] = Member[c]]
    BY <1>3, <1>4, <0>ChangedUntold, Zenon
  <1>. QED
    BY <1>1, <1>2, <1>5, Zenon

\* A report to another task.
<0>RemoteReportSim.
  ASSUME NEW t \in Task, Own(t), NEW c \in Shared, RemoteReport(t, c)
  PROVE  Untold' = [Untold EXCEPT ![c] = Member[c]] /\ Told' = Told /\ rb' = rb
  <1> USE <0>RemoteReportSim
  <1>1. pc[t] \in Quiet /\ pc'[t] = "post" /\ at'[t] = c /\ Still(t) /\ rb' = rb
    BY Zenon DEF RemoteReport
  <1>2. Told' = Told
    BY <1>1, <0>QuietTold, Zenon DEF Still
  <1>3. ASSUME NEW d \in Shared, d # c PROVE Owed(d)' = Owed(d)
    <2>1. Away(t, d) /\ Away(t, d)' /\ pc[t] # "post" /\ at'[t] # d
      BY <1>1, <1>3, Zenon DEF Away, Quiet
    <2>. QED
      BY <1>1, <2>1, <0>AwayOwed, Zenon DEF Still
  <1>4. Owed(c)' = Member[c]
    <2>1. Reported(c)'
      BY <1>1, Zenon DEF Reported
    <2>. QED
      BY <2>1, Zenon DEF Owed
  <1>5. Untold' = [Untold EXCEPT ![c] = Member[c]]
    BY <1>3, <1>4, <0>ChangedUntold, Zenon
  <1>. QED
    BY <1>1, <1>2, <1>5, Zenon

\* An error is found.
<0>FindSim.
  ASSUME NInv, NEW t \in Task, Own(t), FindStep(t)
  PROVE  \E l \in Levels : EN!Find(t, l)
  <1> USE <0>FindSim
  <1>1. /\ Told' = Told /\ rb' = rb
        /\ \/ Untold' = Untold
           \/ \E c \in Shared : t \in Member[c] /\ Untold' = [Untold EXCEPT ![c] = Member[c]]
    <2>1. CASE Idles(t) /\ Still(t) /\ rb' = rb
      BY <2>1, <0>QuietOwed, <0>QuietTold, Zenon DEF Still
    <2>2. ASSUME NEW c \in Shared, t \in Member[c], LocalReport(t, c) \/ RemoteReport(t, c)
          PROVE  Untold' = [Untold EXCEPT ![c] = Member[c]] /\ Told' = Told /\ rb' = rb
      BY <2>2, <0>LocalReportSim, <0>RemoteReportSim, Zenon
    <2>. QED
      BY <2>1, <2>2, Zenon DEF FindStep
  <1>2. Marked(t) = {}
    BY Zenon DEF FindStep
  <1>3. PICK S \in SUBSET Heads(t), l \in Levels : Marked(t)' = S \X {l}
    BY Zenon DEF FindStep
  <1>4. Due' = Due \cup (S \X {l})
    <2>1. \A p : p \in Due' <=> p \in Due \cup (S \X {l})
      BY <1>2, <1>3, <0>DueParts, Zenon
    <2>. QED
      BY <2>1, Zenon
  <1>5. S \in SUBSET EN!Near(t)
    BY Zenon DEF Heads, EN!Near
  <1>6. EN!Find(t, l)
    BY <1>1, <1>4, <1>5, Zenon DEF EN!Find
  <1>. QED
    BY <1>6, Zenon

\* The second of two handlers stays when one is pushed behind them.
<0>HoldsTailAppend.
  ASSUME NEW q \in Seq(Handlers), q # <<>>, NEW h \in Handlers, NEW ev, NEW c
  PROVE  Holds(Tail(Append(q, h)), ev, c) <=> Holds(Tail(q), ev, c) \/ h = [ev |-> ev, cd |-> c]
  <1> USE <0>HoldsTailAppend
  <1>1. Tail(q) \in Seq(Handlers)
    OBVIOUS
  <1>2. Tail(Append(q, h)) = Append(Tail(q), h)
    OBVIOUS
  <1>3. Holds(Append(Tail(q), h), ev, c) <=> Holds(Tail(q), ev, c) \/ h = [ev |-> ev, cd |-> c]
    BY <1>1, HoldsAppend, Zenon
  <1>. QED
    BY <1>2, <1>3, Zenon

\* A step in which the head tells a task of c, or posts to one, changes what is owed for c
\* by the tasks told, unless there is another report.
<0>TellingOwed.
  ASSUME NEW t \in Task, Own(t), NEW c, Telling(t, c), ~Away(t, c)', pc'[t] # "post",
         errFlag' = errFlag,
         Holds(Tail(queue'[t]), "ErrorOccurred", c) <=> Holds(Tail(queue[t]), "ErrorOccurred", c)
  PROVE  \/ Owed(c) = Member[c] /\ Owed(c)' = Member[c]
         \/ Owed(c) = todo[t] /\ Owed(c)' = todo'[t]
  <1> USE <0>TellingOwed
  <1>0. HeadOf[c] = t /\ ~Away(t, c) /\ pc[t] # "post"
    BY Zenon DEF Telling
  <1>1. Reported(c)' <=> Reported(c)
    BY <1>0, <0>SameReports, Zenon
  <1>2. Casting(c) /\ Casting(c)' /\ (Queued(c)' <=> Queued(c))
    BY <1>0, <0>HeadFIFO, Zenon
  <1>. QED
    BY <1>0, <1>1, <1>2, Zenon DEF Owed

\* And nothing for the other CDs.
<0>TellingOthers.
  ASSUME NEW t \in Task, Own(t), NEW c, Telling(t, c), NEW d \in Shared, d # c,
         at'[t] = c \/ pc'[t] \in Quiet, pc'[t] # "post", errFlag' = errFlag,
         Holds(queue'[t], "ErrorOccurred", d) <=> Holds(queue[t], "ErrorOccurred", d)
  PROVE  Owed(d)' = Owed(d)
  <1> USE <0>TellingOthers
  <1>1. Away(t, d) /\ Away(t, d)' /\ pc[t] # "post"
    BY Zenon DEF Telling, Away, Quiet
  <1>. QED
    BY <1>1, <0>AwayOwed, Zenon

\* The head tells itself.
<0>TellSelfSim.
  ASSUME NInv, NEW t \in Task, Own(t), Due' = Due, TellSelf(t)
  PROVE  \E c \in Shared : EN!Tell(c, t)
  <1> USE <0>TellSelfSim
  <1>0. pc[t] = "cast"
    BY Zenon DEF TellSelf
  <1>c. PICK c \in Shared : c = at[t]
    BY <1>0, CastIsTelling, Zenon DEF Telling
  <1>1. /\ pc[t] = "cast" /\ pc'[t] = "cast" /\ errFlag' = errFlag /\ reexFlag' = reexFlag /\ rb' = rb
        /\ queue'[t] = Append(queue[t], [ev |-> "AllReexecute", cd |-> c])
        /\ at'[t] = c /\ t \in todo[t] /\ todo'[t] = todo[t] \ {t}
    BY <1>c, Zenon DEF TellSelf
  <1>2. Telling(t, c)
    BY <1>0, <1>c, CastIsTelling, Zenon
  <1>3. /\ c \in Shared /\ queue[t] \in Seq(Handlers) /\ queue[t] # <<>> /\ todo[t] \subseteq Member[c]
        /\ [ev |-> "AllReexecute", cd |-> c] \in Handlers
    BY <1>2, Zenon DEF Telling, Handlers
  <1>h. ASSUME NEW ev, NEW d
        PROVE  Holds(queue'[t], ev, d)
                 <=> Holds(queue[t], ev, d) \/ [ev |-> "AllReexecute", cd |-> c] = [ev |-> ev, cd |-> d]
    <2>1. Holds(Append(queue[t], [ev |-> "AllReexecute", cd |-> c]), ev, d)
            <=> Holds(queue[t], ev, d) \/ [ev |-> "AllReexecute", cd |-> c] = [ev |-> ev, cd |-> d]
      BY <1>3, HoldsAppend, Zenon
    <2>2. queue'[t] = Append(queue[t], [ev |-> "AllReexecute", cd |-> c])
      BY <1>1, Zenon
    <2>. QED
      BY <2>1, <2>2, Zenon
  <1>4. \A d : Holds(queue'[t], "ErrorOccurred", d) <=> Holds(queue[t], "ErrorOccurred", d)
    BY <1>h, SameHandler, Zenon
  <1>5. Holds(Tail(queue'[t]), "ErrorOccurred", c) <=> Holds(Tail(queue[t]), "ErrorOccurred", c)
    <2>1. Holds(Tail(Append(queue[t], [ev |-> "AllReexecute", cd |-> c])), "ErrorOccurred", c)
            <=> Holds(Tail(queue[t]), "ErrorOccurred", c)
      BY <1>3, <0>HoldsTailAppend, SameHandler, Zenon
    <2>. QED
      BY <1>1, <2>1, Zenon
  <1>6. ~Away(t, c)'
    BY <1>1, Zenon DEF Away
  <1>7. \A d \in Shared : d # c => Owed(d)' = Owed(d)
    BY <1>1, <1>2, <1>4, <0>TellingOthers, Zenon
  <1>8. \/ Owed(c) = Member[c] /\ Owed(c)' = Member[c]
        \/ Owed(c) = todo[t] /\ Owed(c)' = todo[t] \ {t}
    BY <1>1, <1>2, <1>5, <1>6, <0>TellingOwed, Zenon
  <1>9. Untold[c] = Owed(c)
    BY <1>3, Zenon DEF Untold
  <1>10. /\ t \in Untold[c]
         /\ \/ Untold' = [Untold EXCEPT ![c] = @ \ {t}]
            \/ Untold[c] = Member[c] /\ Untold' = Untold
    <2>1. CASE Owed(c) = Member[c] /\ Owed(c)' = Member[c]
      <3>1. Untold' = Untold
        BY <1>7, <2>1, <0>SameUntold, Zenon
      <3>. QED
        BY <1>1, <1>3, <1>9, <2>1, <3>1, Zenon
    <2>2. CASE Owed(c) = todo[t] /\ Owed(c)' = todo[t] \ {t}
      <3>1. Untold' = [Untold EXCEPT ![c] = todo[t] \ {t}]
        BY <1>3, <1>7, <2>2, <0>ChangedUntold, Zenon
      <3>. QED
        BY <1>1, <1>9, <2>2, <3>1, Zenon
    <2>. QED
      BY <1>8, <2>1, <2>2, Zenon
  <1>11. Told' = Told \cup {<<c, t>>}
    <2>1. ASSUME NEW d \in Shared, NEW u \in Task, d # c \/ u # t
          PROVE  Noticed(d, u)' <=> Noticed(d, u)
      <3>1. CASE u # t
        BY <1>1, <3>1, <0>OtherNotices, Zenon
      <3>2. CASE u = t /\ d # c
        <4>1. [ev |-> "AllReexecute", cd |-> c] # [ev |-> "AllReexecute", cd |-> d]
          BY <3>2, SameHandler, Zenon
        <4>2. Holds(queue'[t], "AllReexecute", d) <=> Holds(queue[t], "AllReexecute", d)
          BY <1>h, <4>1, Zenon
        <4>. QED
          BY <1>1, <3>2, <4>2, Zenon DEF Noticed
      <3>. QED
        BY <2>1, <3>1, <3>2, Zenon
    <2>2. Noticed(c, t)'
      <3>1. Holds(queue'[t], "AllReexecute", c)
        BY <1>h, Zenon
      <3>. QED
        BY <3>1, Zenon DEF Noticed
    <2>. QED
      BY <1>3, <2>1, <2>2, <0>MoreTold, Zenon
  <1>12. EN!Tell(c, t)
    BY <1>1, <1>10, <1>11, Zenon DEF EN!Tell
  <1>. QED
    BY <1>3, <1>12, Zenon

\* The first epoch of the post to another task.
<0>PostSim.
  ASSUME NInv, NEW t \in Task, Own(t), PostStep(t)
  PROVE  Untold' = Untold /\ Told' = Told /\ rb' = rb
  <1> USE <0>PostSim
  <1>0. pc[t] = "cast"
    BY Zenon DEF PostStep
  <1>c. PICK c \in Shared : c = at[t]
    BY <1>0, CastIsTelling, Zenon DEF Telling
  <1>1. pc'[t] = "castpost" /\ Still(t) /\ rb' = rb /\ at'[t] = c /\ todo'[t] = todo[t]
    BY <1>c, Zenon DEF PostStep
  <1>2. Telling(t, c)
    BY <1>0, <1>c, CastIsTelling, Zenon
  <1>3. Told' = Told
    BY <1>1, <0>QuietTold, Zenon DEF Still
  <1>4. ~Away(t, c)'
    BY <1>1, Zenon DEF Away
  <1>5. queue'[t] = queue[t] /\ errFlag' = errFlag /\ pc'[t] # "post"
    BY <1>1, Zenon DEF Still
  <1>6. \A d \in Shared : d # c => Owed(d)' = Owed(d)
    BY <1>1, <1>2, <1>5, <0>TellingOthers, Zenon
  <1>7. \/ Owed(c) = Member[c] /\ Owed(c)' = Member[c]
        \/ Owed(c) = todo[t] /\ Owed(c)' = todo'[t]
    BY <1>2, <1>4, <1>5, <0>TellingOwed, Zenon
  <1>8. \A d \in Shared : Owed(d)' = Owed(d)
    BY <1>1, <1>6, <1>7, Zenon
  <1>. QED
    BY <1>1, <1>3, <1>8, <0>SameUntold, Zenon

\* The second epoch: the notice is in that task's mailbox.
<0>TellSim.
  ASSUME NInv, NEW t \in Task, Own(t), Due' = Due, TellStep(t)
  PROVE  \E c \in Shared, u \in Task : EN!Tell(c, u)
  <1> USE <0>TellSim
  <1>0. pc[t] = "castpost"
    BY Zenon DEF TellStep
  <1>c. PICK c \in Shared : c = at[t]
    BY <1>0, CastIsTelling, Zenon DEF Telling
  <1>2. Telling(t, c)
    BY <1>0, <1>c, CastIsTelling, Zenon
  <1>u. PICK u \in Task : u = fly[t] /\ u \in todo[t]
    BY <1>0, <1>2, Zenon DEF Telling
  <1>1. /\ pc'[t] = "cast" /\ queue'[t] = queue[t] /\ errFlag' = errFlag /\ rb' = rb
        /\ reexFlag' = reexFlag \cup {<<c, u>>}
        /\ at'[t] = c /\ todo'[t] = todo[t] \ {u}
    BY <1>c, <1>u, Zenon DEF TellStep
  <1>3. todo[t] \subseteq Member[c]
    BY <1>2, Zenon DEF Telling
  <1>6. ~Away(t, c)'
    BY <1>1, Zenon DEF Away
  <1>7. \A d \in Shared : d # c => Owed(d)' = Owed(d)
    BY <1>1, <1>2, <0>TellingOthers, Zenon
  <1>8. \/ Owed(c) = Member[c] /\ Owed(c)' = Member[c]
        \/ Owed(c) = todo[t] /\ Owed(c)' = todo[t] \ {u}
    BY <1>1, <1>2, <1>6, <0>TellingOwed, Zenon
  <1>9. Untold[c] = Owed(c)
    BY Zenon DEF Untold
  <1>10. /\ u \in Untold[c]
         /\ \/ Untold' = [Untold EXCEPT ![c] = @ \ {u}]
            \/ Untold[c] = Member[c] /\ Untold' = Untold
    <2>1. CASE Owed(c) = Member[c] /\ Owed(c)' = Member[c]
      <3>1. Untold' = Untold
        BY <1>7, <2>1, <0>SameUntold, Zenon
      <3>. QED
        BY <1>u, <1>3, <1>9, <2>1, <3>1, Zenon
    <2>2. CASE Owed(c) = todo[t] /\ Owed(c)' = todo[t] \ {u}
      <3>1. Untold' = [Untold EXCEPT ![c] = todo[t] \ {u}]
        BY <1>7, <2>2, <0>ChangedUntold, Zenon
      <3>. QED
        BY <1>u, <1>9, <2>2, <3>1, Zenon
    <2>. QED
      BY <1>8, <2>1, <2>2, Zenon
  <1>11. Told' = Told \cup {<<c, u>>}
    <2>1. ASSUME NEW d \in Shared, NEW v \in Task, d # c \/ v # u
          PROVE  Noticed(d, v)' <=> Noticed(d, v)
      <3>1. <<d, v>> \in reexFlag' <=> <<d, v>> \in reexFlag
        BY <1>1, <2>1, Zenon
      <3>2. queue'[v] = queue[v]
        BY <1>1, Zenon DEF Own
      <3>. QED
        BY <3>1, <3>2, Zenon DEF Noticed
    <2>2. <<c, u>> \in reexFlag'
      BY <1>1, Zenon
    <2>3. Noticed(c, u)'
      BY <2>2, Zenon DEF Noticed
    <2>. QED
      BY <2>1, <2>3, <0>MoreTold, Zenon
  <1>12. EN!Tell(c, u)
    BY <1>1, <1>10, <1>11, Zenon DEF EN!Tell
  <1>. QED
    BY <1>12, Zenon

\* The end of HandleErrorOccurred: every task has been told.
<0>EndSim.
  ASSUME NInv, NEW t \in Task, Own(t), EndStep(t)
  PROVE  Untold' = Untold /\ Told' = Told /\ rb' = rb
  <1> USE <0>EndSim
  <1>0. pc[t] = "cast"
    BY Zenon DEF EndStep
  <1>c. PICK c \in Shared : c = at[t]
    BY <1>0, CastIsTelling, Zenon DEF Telling
  <1>2. Telling(t, c)
    BY <1>0, <1>c, CastIsTelling, Zenon
  <1>1. /\ pc'[t] = "drain" /\ todo[t] = {} /\ queue'[t] = Tail(queue[t])
        /\ errFlag' = errFlag /\ reexFlag' = reexFlag /\ rb' = rb
    BY Zenon DEF EndStep
  <1>3. /\ queue[t] \in Seq(Handlers) /\ queue[t] # <<>> /\ HeadOf[c] = t /\ ~Away(t, c)
        /\ Head(queue[t]) = [ev |-> "ErrorOccurred", cd |-> c] /\ pc[t] # "post"
    BY <1>2, Zenon DEF Telling
  <1>h. ASSUME NEW ev, NEW d
        PROVE  Holds(queue[t], ev, d)
                 <=> Holds(queue'[t], ev, d) \/ [ev |-> "ErrorOccurred", cd |-> c] = [ev |-> ev, cd |-> d]
    BY <1>1, <1>3, HoldsTail
  <1>4. Told' = Told
    <2>1. \A d \in Shared : Holds(queue'[t], "AllReexecute", d) <=> Holds(queue[t], "AllReexecute", d)
      BY <1>h, SameHandler, Zenon
    <2>. QED
      BY <1>1, <2>1, <0>QuietTold, Zenon
  <1>5. ASSUME NEW d \in Shared, d # c PROVE Owed(d)' = Owed(d)
    <2>1. [ev |-> "ErrorOccurred", cd |-> c] # [ev |-> "ErrorOccurred", cd |-> d]
      BY <1>5, SameHandler, Zenon
    <2>2. Holds(queue'[t], "ErrorOccurred", d) <=> Holds(queue[t], "ErrorOccurred", d)
      BY <1>h, <2>1, Zenon
    <2>3. pc'[t] \in Quiet /\ pc'[t] # "post"
      BY <1>1, Zenon DEF Quiet
    <2>. QED
      BY <1>1, <1>2, <1>5, <2>2, <2>3, <0>TellingOthers, Zenon
  <1>6. Owed(c)' = Owed(c)
    <2>1. Away(t, c)'
      BY <1>1, Zenon DEF Away
    <2>2. Reported(c)' <=> Reported(c)
      BY <1>1, <1>3, <0>SameReports, Zenon
    <2>3. Casting(c) /\ ~Casting(c)' /\ (Queued(c)' <=> Queued(c))
      BY <1>1, <1>3, <2>1, <0>HeadFIFO, Zenon
    <2>. QED
      BY <1>1, <1>3, <2>2, <2>3, Zenon DEF Owed
  <1>7. \A d \in Shared : Owed(d)' = Owed(d)
    BY <1>5, <1>6, Zenon
  <1>. QED
    BY <1>1, <1>4, <1>7, <0>SameUntold, Zenon

\* Destroy and the re-creation of a CD: the task's notices, and with the head the reports
\* it has received, are gone.
<0>LeaveSim.
  ASSUME NInv, NEW t \in Task, Own(t), Due' = Due, NEW c \in Cd, LeaveStep(t, c)
  PROVE  [EN!NNext]_(EN!nvars)
  <1> USE <0>LeaveSim
  <1>t. errFlag \subseteq Shared \X Task /\ reexFlag \subseteq Shared \X Task
    BY NoticeTypes, Zenon
  <1>1. /\ Idles(t) /\ queue[t] = <<>> /\ queue'[t] = <<>> /\ t \in Member[c]
        /\ errFlag' = errFlag \ OwnErrFlags(t, c) /\ reexFlag' = reexFlag \ OwnReexFlags(t, c)
        /\ rb' \in {rb, [rb EXCEPT ![t] = INVALID]}
    BY Zenon DEF LeaveStep
  <1>2. CASE c \notin Shared
    <2>1. OwnErrFlags(t, c) = {} /\ OwnReexFlags(t, c) = {}
      BY <1>t, <1>2 DEF OwnErrFlags, OwnReexFlags
    <2>2. QuietStep(t)
      BY <1>1, <2>1, Zenon DEF QuietStep, Still
    <2>. QED
      BY <2>2, <0>QuietSim, Zenon
  <1>3. CASE c \in Shared
    <2>1. Told' = Told \ {<<c, t>>}
      <3>1. ASSUME NEW d \in Shared, NEW u \in Task, d # c \/ u # t
            PROVE  Noticed(d, u)' <=> Noticed(d, u)
        <4>1. <<d, u>> \in reexFlag' <=> <<d, u>> \in reexFlag
          BY <1>1, <3>1, Zenon DEF OwnReexFlags
        <4>2. queue'[u] = queue[u]
          BY <1>1, Zenon DEF Own
        <4>. QED
          BY <4>1, <4>2, Zenon DEF Noticed
      <3>2. <<c, t>> \notin reexFlag'
        BY <1>1, Zenon DEF OwnReexFlags
      <3>3. ~Noticed(c, t)'
        <4>1. queue'[t] = <<>>
          BY <1>1, Zenon
        <4>2. ~Holds(queue'[t], "AllReexecute", c)
          BY <4>1, HoldsNothing, Zenon
        <4>. QED
          BY <3>2, <4>2, Zenon DEF Noticed
      <3>. QED
        BY <1>3, <3>1, <3>3, <0>LessTold, Zenon
    <2>2. ASSUME NEW d \in Shared, d # c \/ HeadOf[c] # t PROVE Owed(d)' = Owed(d)
      <3>1. \A s \in Task : <<d, s>> \in errFlag' <=> <<d, s>> \in errFlag
        BY <1>1, <2>2, Zenon DEF OwnErrFlags, IsHead
      <3>2. Away(t, d) /\ Away(t, d)' /\ pc[t] # "post" /\ pc'[t] # "post"
        BY <1>1, Zenon DEF Away, Quiet, Idles
      <3>. QED
        BY <1>1, <3>1, <3>2, <0>AwayOwed, Zenon
    <2>3. ASSUME HeadOf[c] = t PROVE Owed(c)' \in {Owed(c), {}}
      <3>1. Away(t, c) /\ Away(t, c)' /\ pc[t] # "post" /\ pc'[t] # "post"
        BY <1>1, Zenon DEF Away, Quiet, Idles
      <3>2. ~Casting(c) /\ ~Casting(c)' /\ ~Queued(c) /\ ~Queued(c)'
        <4>1. /\ ~Casting(c) /\ (Queued(c) <=> Holds(queue[t], "ErrorOccurred", c))
              /\ ~Casting(c)' /\ (Queued(c)' <=> Holds(queue'[t], "ErrorOccurred", c))
          BY <2>3, <3>1, <0>HeadFIFO, Zenon
        <4>2. queue[t] = <<>> /\ queue'[t] = <<>>
          BY <1>1, Zenon
        <4>. QED
          BY <4>1, <4>2, HoldsNothing, Zenon
      <3>3. Reported(c)' => Reported(c)
        <4>1. ASSUME NEW s \in Task, <<c, s>> \in errFlag' \/ (pc'[s] = "post" /\ at'[s] = c)
              PROVE  <<c, s>> \in errFlag \/ (pc[s] = "post" /\ at[s] = c)
          BY <1>1, <3>1, <4>1, Zenon DEF Own
        <4>. QED
          BY <4>1, Zenon DEF Reported
      <3>. QED
        BY <3>2, <3>3, Zenon DEF Owed
    <2>4. Untold' = Untold \/ (HeadOf[c] = t /\ Untold' = [Untold EXCEPT ![c] = {}])
      <3>1. CASE HeadOf[c] # t
        BY <2>2, <3>1, <0>SameUntold, Zenon
      <3>2. CASE HeadOf[c] = t /\ Owed(c)' = Owed(c)
        <4>1. \A d \in Shared : Owed(d)' = Owed(d)
          BY <2>2, <3>2, Zenon
        <4>. QED
          BY <4>1, <0>SameUntold, Zenon
      <3>3. CASE HeadOf[c] = t /\ Owed(c)' = {}
        BY <1>3, <2>2, <3>3, <0>ChangedUntold, Zenon
      <3>. QED
        BY <2>3, <3>1, <3>2, <3>3, Zenon
    <2>5. EN!Leave(c, t)
      BY <1>1, <2>1, <2>4, Zenon DEF EN!Leave
    <2>. QED
      BY <1>3, <2>5, Zenon DEF EN!NNext
  <1>. QED
    BY <1>2, <1>3, Zenon
<0> QED
  <1> SUFFICES ASSUME SetFacts, NInv, NEW t \in Task, Progress(t) \/ Calls(t)
               PROVE  [EN!NNext]_(EN!nvars)
    BY Zenon
  <1>0. Own(t)
    BY StepIsOwn, Zenon DEF NInv
  <1>f. CASE Detect(t) \/ Assert(t)
    <2>1. PICK l \in Levels : EN!Find(t, l)
      BY <1>0, <1>f, FindEffect, <0>FindSim, Zenon
    <2>. QED
      BY <2>1, Zenon DEF EN!NNext
  <1>l. CASE SetRollbackPoint(t)
    <2>1. LowerStep(t)
      BY <1>l, LowerEffect, Zenon
    <2>2. lv[t] \in Levels
      BY <2>1, Zenon DEF LowerStep
    <2>3. PICK u \in Task : EN!Lower(u, lv[t])
      BY <1>0, <2>1, <0>LowerSim, Zenon
    <2>. QED
      BY <2>2, <2>3, Zenon DEF EN!NNext
  <1>s. SUFFICES ASSUME ~(Detect(t) \/ Assert(t)), ~SetRollbackPoint(t)
                 PROVE  [EN!NNext]_(EN!nvars)
    BY <1>f, <1>l, Zenon
  <1>d. Due' = Due
    <2>1. Marked(t)' = Marked(t)
      BY <1>s, MarksKept, Zenon
    <2>2. \A p : p \in Due' <=> p \in Due
      BY <1>0, <2>1, <0>DueParts, Zenon
    <2>. QED
      BY <2>2, Zenon
  <1>1. ASSUME Untold' = Untold, Told' = Told, rb' = rb PROVE [EN!NNext]_(EN!nvars)
    BY <1>d, <1>1, Zenon DEF EN!nvars
  <1>2. CASE QuietStep(t)
    BY <1>0, <1>d, <1>2, <0>QuietSim, Zenon
  <1>3. CASE LandStep(t) \/ PostStep(t) \/ EndStep(t)
    BY <1>0, <1>1, <1>3, <0>LandSim, <0>PostSim, <0>EndSim, Zenon
  <1>4. ASSUME NEW c \in Shared, ReadReport(t, c) \/ ReadNotice(t, c) \/ CastStep(t, c)
        PROVE  [EN!NNext]_(EN!nvars)
    BY <1>0, <1>1, <1>4, <0>ReadReportSim, <0>ReadNoticeSim, <0>CastSim, Zenon
  <1>5. ASSUME NEW c \in Shared, HeedStep(t, c) PROVE [EN!NNext]_(EN!nvars)
    <2>1. EN!Heed(c, t)
      BY <1>0, <1>d, <1>5, <0>HeedSim, Zenon
    <2>. QED
      BY <2>1, Zenon DEF EN!NNext
  <1>6. CASE TellSelf(t)
    <2>1. PICK c \in Shared : EN!Tell(c, t)
      BY <1>0, <1>d, <1>6, <0>TellSelfSim, Zenon
    <2>. QED
      BY <2>1, Zenon DEF EN!NNext
  <1>7. CASE TellStep(t)
    <2>1. PICK c \in Shared, u \in Task : EN!Tell(c, u)
      BY <1>0, <1>d, <1>7, <0>TellSim, Zenon
    <2>. QED
      BY <2>1, Zenon DEF EN!NNext
  <1>8. ASSUME NEW c \in Cd, LeaveStep(t, c) PROVE [EN!NNext]_(EN!nvars)
    BY <1>0, <1>d, <1>8, <0>LeaveSim, Zenon
  <1>9. ASSUME NEW c \in Shared, AgreeStep(t, c) PROVE [EN!NNext]_(EN!nvars)
    <2>1. EN!Agree(c, t)
      BY <1>0, <1>d, <1>9, <0>AgreeSim, Zenon
    <2>. QED
      BY <2>1, Zenon DEF EN!NNext
  <1>10. CASE Progress(t)
    BY <1>s, <1>2, <1>3, <1>4, <1>5, <1>6, <1>7, <1>10, ProgressEffect, Zenon
  <1>11. CASE Calls(t)
    BY <1>s, <1>2, <1>8, <1>9, <1>11, CallsEffect, Zenon
  <1>. QED
    BY <1>10, <1>11, Zenon

=============================================================================
