---------------------------- MODULE MailboxProofs ----------------------------
(***************************************************************************)
(* Event delivery is safe for every tree of CDs, every number of tasks and *)
(* every number of errors: the theorems of module Mailbox.                 *)
(***************************************************************************)
EXTENDS Mailbox, TLAPS

\* What a call in progress keeps in its locals: the CD it works on (at), the task it
\* posts to (fly), the slots it has still to read or to write (todo), the level it is to
\* set (lv).
CallOK(t) ==
  /\ fly[t] # NoTask <=> pc[t] \in {"post", "castpost"}
  /\ pc[t] = "post" => at[t] \in Shared /\ fly[t] = HeadOf[at[t]]
  /\ pc[t] \in {"post", "check"} => lv[t] \in Levels
  /\ pc[t] \in {"cast", "castpost"} =>
       /\ at[t] \in Shared
       /\ queue[t] # <<>> /\ Head(queue[t]) = [ev |-> "ErrorOccurred", cd |-> at[t]]
  /\ pc[t] = "read" =>
       /\ at[t] \in Shared /\ todo[t] # {}
       /\ IF IsHead(t, at[t]) THEN \A s \in todo[t] : <<at[t], s>> \in errFlag
                              ELSE todo[t] = {t} /\ <<at[t], t>> \in reexFlag

CallState == \A t \in Task : CallOK(t)

\* MTypeOK, by the part of the state it is about.
WindowTypes ==
  /\ pending \in [Task -> Int] /\ rb \in [Task -> RollbackPoints]
  /\ errFlag \subseteq Shared \X Task /\ reexFlag \subseteq Shared \X Task

HandlerTypes ==
  /\ queue \in [Task -> Seq(Handlers)] /\ handled \in [Task -> Nat]
  /\ errOcc \in [Shared -> BOOLEAN]

PathTypes ==
  /\ cur \in [Task -> Levels] /\ len \in [Task -> Levels] /\ made \in [Task -> SUBSET Levels]
  /\ nerr \in Nat /\ moves \in [Task -> Nat] /\ lost \in [Task -> BOOLEAN]

CallTypes ==
  /\ pc \in [Task -> {"run", "post", "check", "scan", "read", "drain", "cast", "castpost"}]
  /\ at \in [Task -> Cd \cup {NoCd}] /\ lv \in [Task -> Int]
  /\ todo \in [Task -> SUBSET Task] /\ fly \in [Task -> Task \cup {NoTask}]
  /\ event_count \in [Task -> Int]

TInv == MTypeOK /\ CallState

----------------------------------------------------------------------------
(* Facts about the operators of the model                                   *)

\* What the proofs below need to know of sets: a set of ranks has a lowest one, and the bits in
\* the mailboxes can be counted.  MailboxTheorems takes both from the library; here they are a
\* hypothesis.
SetFacts ==
  /\ \A S \in SUBSET Task : S # {} => Lowest(S) \in S
  /\ \A E \in SUBSET (Shared \X Task) : IsFiniteSet(E) /\ Cardinality(E) \in Nat

\* A non-empty set of ranks has a least element, and Lowest returns it.
LEMMA LowestInSet ==
  ASSUME SetFacts, NEW S \in SUBSET Task, S # {}
  PROVE  Lowest(S) \in S
BY Zenon DEF SetFacts

\* The mailboxes of a job are finite, and so is the number of bits in them.
LEMMA FiniteFlags ==
  ASSUME SetFacts, NEW E \in SUBSET (Shared \X Task)
  PROVE  IsFiniteSet(E) /\ Cardinality(E) \in Nat
BY Zenon DEF SetFacts

\* Every CD has a level, and INVALID is above all of them.
LEMMA LevelFacts ==
  /\ Levels \subseteq RollbackPoints /\ INVALID \in RollbackPoints
  /\ \A c \in Cd : Level[c] \in Levels /\ Member[c] \subseteq Task /\ HeadOf[c] \in Task
  /\ Shared \subseteq Cd
  /\ NoTask \notin Task
  /\ 0 \in Levels
BY TreeAssumption DEF Levels, RollbackPoints, INVALID, Shared, NoTask

\* The minimum of two rollback points is a rollback point.
LEMMA MinOfType ==
  ASSUME NEW a \in RollbackPoints, NEW b \in RollbackPoints
  PROVE  MinOf(a, b) \in RollbackPoints
BY Zenon DEF MinOf

\* Handlers in the FIFO stay there when another one is pushed.
LEMMA PushKeeps ==
  ASSUME NEW s \in Seq(Handlers), NEW x \in Handlers, NEW e
  PROVE  /\ (\E i \in 1 .. Len(s) : s[i] = e) =>
              (\E i \in 1 .. Len(Append(s, x)) : Append(s, x)[i] = e)
         /\ \E i \in 1 .. Len(Append(s, x)) : Append(s, x)[i] = x
         /\ Append(s, x) \in Seq(Handlers) /\ Append(s, x) # <<>>
         /\ Len(Append(s, x)) = Len(s) + 1
         /\ s # <<>> => Head(Append(s, x)) = Head(s)
<1>1. Append(s, x) \in Seq(Handlers) /\ Len(Append(s, x)) = Len(s) + 1
  OBVIOUS
<1>2. Len(s) \in Nat /\ (s # <<>> => Len(s) > 0)
  OBVIOUS
<1>3. Append(s, x) # <<>>
  <2>1. Len(<<>>) = 0
    BY Zenon
  <2>2. Len(Append(s, x)) # 0
    BY <1>1, <1>2
  <2>. QED
    BY <2>1, <2>2, Zenon
<1>4. \A i \in 1 .. Len(s) : Append(s, x)[i] = s[i]
  OBVIOUS
<1>5. Append(s, x)[Len(s) + 1] = x
  OBVIOUS
<1>6. s # <<>> => Head(Append(s, x)) = Head(s)
  BY <1>1, <1>2, <1>4
<1>7. \E i \in 1 .. Len(Append(s, x)) : Append(s, x)[i] = x
  BY <1>1, <1>2, <1>5
<1>8. ASSUME NEW i \in 1 .. Len(s), s[i] = e
      PROVE  \E k \in 1 .. Len(Append(s, x)) : Append(s, x)[k] = e
  BY <1>1, <1>2, <1>4, <1>8
<1>. QED
  BY <1>1, <1>3, <1>6, <1>7, <1>8, Zenon

\* Handlers behind the front stay when the front one is popped.
LEMMA PopKeeps ==
  ASSUME NEW s \in Seq(Handlers), s # <<>>, NEW e
  PROVE  /\ (\E i \in 1 .. Len(s) : s[i] = e) /\ Head(s) # e =>
              (\E i \in 1 .. Len(Tail(s)) : Tail(s)[i] = e)
         /\ Head(s) \in Handlers /\ Tail(s) \in Seq(Handlers)
         /\ Len(Tail(s)) = Len(s) - 1
<1>1. /\ Head(s) \in Handlers /\ Tail(s) \in Seq(Handlers)
      /\ Len(Tail(s)) = Len(s) - 1
      /\ \A i \in 1 .. Len(Tail(s)) : Tail(s)[i] = s[i + 1]
  OBVIOUS
<1>2. Len(s) \in Nat \ {0} /\ Head(s) = s[1]
  OBVIOUS
<1>3. ASSUME NEW i \in 1 .. Len(s), s[i] = e, Head(s) # e
      PROVE  \E j \in 1 .. Len(Tail(s)) : Tail(s)[j] = e
  <2>1. i - 1 \in 1 .. Len(Tail(s)) /\ Tail(s)[i - 1] = e
    BY <1>1, <1>2, <1>3
  <2>. QED
    BY <2>1, Zenon
<1>. QED
  BY <1>1, <1>3, Zenon

----------------------------------------------------------------------------
(* What a failed Detect or Assert does                                      *)

\* GetCDLevel(l) of a task is one of its CDs.
LEMMA LevelIsOwn ==
  ASSUME NEW t \in Task, NEW l \in Levels
  PROVE  GetCDLevel(t, l) \in Cd /\ t \in Member[GetCDLevel(t, l)] /\ Level[GetCDLevel(t, l)] = l
<1>1. \E c \in Cd : t \in Member[c] /\ Level[c] = l
  BY PathAssumption, Zenon DEF Levels
<1>. QED
  BY <1>1, Zenon DEF GetCDLevel

\* A task and the heads of its CDs.
Heads(t) == {t} \cup {HeadOf[c] : c \in {d \in Shared : t \in Member[d]}}

\* SyncCDs leaves the rollback point alone, resets it, or takes over that of a task of the CD.
LEMMA SyncTakes ==
  ASSUME NEW t \in Task, rb \in [Task -> RollbackPoints], NEW c, NEW r \in {rb[t], INVALID},
         SyncCDs(t, c, r)
  PROVE  \/ rb' \in {rb, [rb EXCEPT ![t] = INVALID]}
         \/ /\ c \in Shared
            /\ \E u \in Member[c] : rb' \in {[rb EXCEPT ![t] = MinOf(@, rb[u])], [rb EXCEPT ![t] = rb[u]]}
<1>1. PICK q \in {r} \cup {MinOf(r, rb[u]) : u \in {s \in Member[c] : c \in Shared}} :
        rb' = [rb EXCEPT ![t] = q]
  BY Zenon DEF SyncCDs
<1>2. [rb EXCEPT ![t] = rb[t]] = rb
  BY Zenon
<1>3. CASE q = r
  BY <1>1, <1>2, <1>3, Zenon
<1>4. ASSUME NEW u \in Member[c], c \in Shared, q = MinOf(r, rb[u])
      PROVE  \/ rb' = [rb EXCEPT ![t] = INVALID]
             \/ rb' \in {[rb EXCEPT ![t] = MinOf(@, rb[u])], [rb EXCEPT ![t] = rb[u]]}
  <2>1. CASE r = rb[t]
    BY <1>1, <1>4, <2>1, Zenon
  <2>2. CASE r = INVALID
    <3>1. q = INVALID \/ q = rb[u]
      BY <1>4, <2>2, Zenon DEF MinOf
    <3>. QED
      BY <1>1, <3>1, Zenon
  <2>. QED
    BY <2>1, <2>2, Zenon
<1>. QED
  BY <1>1, <1>3, <1>4, Zenon

\* So it keeps their types.
LEMMA SyncTypes ==
  ASSUME NEW t \in Task, rb \in [Task -> RollbackPoints], NEW c, NEW r \in {rb[t], INVALID},
         SyncCDs(t, c, r)
  PROVE  rb' \in [Task -> RollbackPoints]
<1>1. INVALID \in RollbackPoints
  BY LevelFacts, Zenon
<1>2. ASSUME NEW u \in Member[c], c \in Shared
      PROVE  MinOf(rb[t], rb[u]) \in RollbackPoints /\ rb[u] \in RollbackPoints
  <2>1. u \in Task
    BY <1>2, LevelFacts, TreeAssumption, Zenon
  <2>. QED
    BY <2>1, Zenon DEF MinOf
<1>3. CASE rb' \in {rb, [rb EXCEPT ![t] = INVALID]}
  BY <1>1, <1>3, Zenon
<1>4. ASSUME NEW u \in Member[c], c \in Shared,
             rb' \in {[rb EXCEPT ![t] = MinOf(@, rb[u])], [rb EXCEPT ![t] = rb[u]]}
      PROVE  rb' \in [Task -> RollbackPoints]
  BY <1>2, <1>4, Zenon
<1>5. \/ rb' \in {rb, [rb EXCEPT ![t] = INVALID]}
      \/ /\ c \in Shared
         /\ \E u \in Member[c] : rb' \in {[rb EXCEPT ![t] = MinOf(@, rb[u])], [rb EXCEPT ![t] = rb[u]]}
  BY SyncTakes
<1>. QED
  BY <1>3, <1>4, <1>5, Zenon

\* One report, to a CD of the path, or none.
OneReport(t) ==
  \/ \E c \in Shared : /\ t \in Member[c] /\ Level[c] <= cur[t]
                       /\ LocalSetMailBox(t, c) \/ RemoteSetMailBox(t, c)
  \/ NoMailBox(t)

\* Both report an error at most once, and leave rollback points of the task and of heads of
\* its CDs to set to one level.
LEMMA FindsError ==
  ASSUME MTypeOK, NEW t \in Task, Detect(t) \/ Assert(t)
  PROVE  /\ Fails(t) /\ OneReport(t)
         /\ \E S \in SUBSET Heads(t), l \in Levels : ThenSet(t, S, l)
<1>1. Fails(t)
  BY Zenon DEF Detect, Assert
<1>2. cur[t] \in Levels
  BY Zenon DEF MTypeOK
<1>3. \A l \in 0 .. cur[t] : l \in Levels /\ l <= cur[t]
  BY <1>2, TreeAssumption DEF Levels
<1>4. {} \in SUBSET Heads(t) /\ {t} \in SUBSET Heads(t)
  BY Zenon DEF Heads
<1>5. \A c \in Shared : t \in Member[c] => {t, HeadOf[c]} \in SUBSET Heads(t)
  BY Zenon DEF Heads
<1>6. ASSUME NEW l \in 0 .. cur[t], SetMailBox(t, GetCDLevel(t, l)), GetCDLevel(t, l) \in Shared
      PROVE  OneReport(t)
  <2>1. t \in Member[GetCDLevel(t, l)] /\ Level[GetCDLevel(t, l)] <= cur[t]
    BY <1>3, <1>6, LevelIsOwn, Zenon
  <2>. QED
    BY <1>6, <2>1, Zenon DEF OneReport, SetMailBox
<1>7. CASE Detect(t)
  <2>1. PICK l \in 0 .. cur[t] :
          LET c == GetCDLevel(t, cur[t])
              d == GetCDLevel(t, l)
          IN  \/ /\ d \in Shared
                 /\ SetMailBox(t, d)
                 /\ IF c \in Shared THEN ThenSet(t, {t, HeadOf[c]}, l)
                                    ELSE ThenSet(t, {t}, IF IsHead(t, d) THEN l ELSE cur[t])
              \/ d \notin Shared /\ NoMailBox(t) /\ ThenSet(t, {t}, l)
    BY <1>7, Zenon DEF Detect
  <2>2. OneReport(t)
    BY <1>6, <2>1, Zenon DEF OneReport
  <2>3. t \in Member[GetCDLevel(t, cur[t])]
    BY <1>2, LevelIsOwn, Zenon
  <2>4. \/ GetCDLevel(t, cur[t]) \in Shared /\ ThenSet(t, {t, HeadOf[GetCDLevel(t, cur[t])]}, l)
        \/ ThenSet(t, {t}, l) \/ ThenSet(t, {t}, cur[t])
    BY <2>1, Zenon
  <2>. QED
    BY <1>1, <1>2, <1>3, <1>4, <1>5, <2>2, <2>3, <2>4, Zenon
<1>8. CASE Assert(t)
  <2>1. PICK l \in 0 .. cur[t] :
          LET d == GetCDLevel(t, l)
          IN  \/ /\ d \in Shared /\ (l = cur[t] => ~IsHead(t, d))
                 /\ SetMailBox(t, d)
                 /\ ThenSet(t, IF l = cur[t] THEN {} ELSE {t}, l)
              \/ /\ d \in Shared => l = cur[t] /\ IsHead(t, d)
                 /\ NoMailBox(t) /\ ThenSet(t, {t}, l)
    BY <1>8, Zenon DEF Assert
  <2>2. OneReport(t)
    BY <1>6, <2>1, Zenon DEF OneReport
  <2>3. ThenSet(t, {}, l) \/ ThenSet(t, {t}, l)
    BY <2>1, Zenon
  <2>. QED
    BY <1>1, <1>3, <1>4, <2>2, <2>3, Zenon
<1>. QED
  BY <1>7, <1>8, Zenon

----------------------------------------------------------------------------
(* Types and call states                                                    *)

\* The initial state is well typed, and no call is in progress.
LEMMA TInvInit == MInit => TInv
BY LevelFacts, TreeAssumption
   DEF MInit, TInv, MTypeOK, CallState, CallOK, RollbackPoints, Levels, INVALID, NoTask, NoCd

\* The parts make up MTypeOK, before and after a step.
LEMMA TypeParts ==
  /\ MTypeOK <=> WindowTypes /\ HandlerTypes /\ PathTypes /\ CallTypes
  /\ MTypeOK' <=> WindowTypes' /\ HandlerTypes' /\ PathTypes' /\ CallTypes'
BY Zenon DEF MTypeOK, WindowTypes, HandlerTypes, PathTypes, CallTypes

\* The types are preserved by every step of a task.
LEMMA TypeStep ==
  ASSUME SetFacts
  PROVE  TInv /\ [MNext]_mvars => MTypeOK'
<1> SUFFICES ASSUME TInv, [MNext]_mvars PROVE MTypeOK'
  BY Zenon
<1>0. WindowTypes /\ HandlerTypes /\ PathTypes /\ CallTypes /\ CallState
  BY TypeParts, Zenon DEF TInv
<1>1. ASSUME NEW t \in Task, RemoteSetFlag(t) PROVE MTypeOK'
  <2>1. at[t] \in Shared
    BY <1>0, <1>1, Zenon DEF CallState, CallOK, RemoteSetFlag
  <2>2. WindowTypes'
    BY <1>0, <1>1, <2>1 DEF WindowTypes, RemoteSetFlag
  <2>3. HandlerTypes'
    BY <1>0, <1>1, Zenon DEF HandlerTypes, RemoteSetFlag
  <2>4. PathTypes'
    BY <1>0, <1>1, Zenon DEF PathTypes, RemoteSetFlag, path, posts
  <2>5. CallTypes'
    BY <1>0, <1>1, Zenon DEF CallTypes, RemoteSetFlag
  <2>. QED
    BY <2>2, <2>3, <2>4, <2>5, TypeParts, Zenon
<1>2. ASSUME NEW t \in Task, InternalCheckMailBox(t) PROVE MTypeOK'
  <2> DEFINE c == GetCDLevel(t, lv[t])
             snap == IF c \in Shared THEN GetEventFlag(t, c) ELSE {}
  <2>1. snap \subseteq Task
    BY LevelFacts, Zenon DEF GetEventFlag
  <2>2. snap # {} => c \in Cd
    BY LevelFacts, Zenon
  <2> HIDE DEF c, snap
  <2>3. /\ at' = [at EXCEPT ![t] = IF snap = {} THEN NoCd ELSE c]
        /\ todo' = [todo EXCEPT ![t] = snap]
        /\ pc' = [pc EXCEPT ![t] = IF snap = {} THEN "scan" ELSE "read"]
        /\ lv' = [lv EXCEPT ![t] = @ - 1]
        /\ UNCHANGED <<fly, event_count>>
    BY <1>0, <1>2, Zenon DEF InternalCheckMailBox, c, snap
  <2>4. WindowTypes'
    BY <1>0, <1>2, Zenon DEF WindowTypes, InternalCheckMailBox, flags
  <2>5. HandlerTypes'
    BY <1>0, <1>2, Zenon DEF HandlerTypes, InternalCheckMailBox
  <2>6. PathTypes'
    BY <1>0, <1>2, Zenon DEF PathTypes, InternalCheckMailBox, path, posts
  <2>7. CallTypes'
    BY <1>0, <1>2, <2>1, <2>2, <2>3 DEF CallTypes
  <2>. QED
    BY <2>4, <2>5, <2>6, <2>7, TypeParts, Zenon
<1>3. ASSUME NEW t \in Task, ReadMailBox(t) PROVE MTypeOK'
  <2> DEFINE c == at[t]
             s == Lowest(todo[t])
             err == [ev |-> "ErrorOccurred", cd |-> c]
             reex == [ev |-> "AllReexecute", cd |-> c]
  <2>1. c \in Shared /\ c \in Cd
    BY <1>0, <1>3, LevelFacts, Zenon DEF CallState, CallOK, ReadMailBox
  <2>2. err \in Handlers /\ reex \in Handlers
    BY <2>1, Zenon DEF Handlers
  <2>3. Append(queue[t], err) \in Seq(Handlers) /\ Append(queue[t], reex) \in Seq(Handlers)
    BY <1>0, <1>3, <2>2, PushKeeps, Zenon DEF HandlerTypes
  <2> HIDE DEF c, s, err, reex
  <2>4. /\ queue' \in {queue, [queue EXCEPT ![t] = Append(@, err)],
                       [queue EXCEPT ![t] = Append(@, reex)]}
        /\ handled' \in {handled, [handled EXCEPT ![t] = @ + 1]}
        /\ errOcc' \in {errOcc, [errOcc EXCEPT ![c] = TRUE]}
    BY <1>0, <1>3, Zenon DEF ReadMailBox, c, s, err, reex
  <2>5. errFlag' \subseteq errFlag /\ reexFlag' \subseteq reexFlag
    BY <1>0, <1>3, Zenon DEF ReadMailBox
  <2>6. /\ todo' = [todo EXCEPT ![t] = @ \ {s}]
        /\ pc' = [pc EXCEPT ![t] = IF todo[t] = {s} THEN "scan" ELSE "read"]
        /\ at' = [at EXCEPT ![t] = IF todo[t] = {s} THEN NoCd ELSE c]
        /\ UNCHANGED <<pending, rb, lv, fly, event_count>>
    BY <1>0, <1>3, Zenon DEF ReadMailBox, c, s
  <2>7. WindowTypes'
    BY <1>0, <1>3, <2>5, <2>6, Zenon DEF WindowTypes
  <2>8. HandlerTypes'
    <3>1. errOcc' \in [Shared -> BOOLEAN]
      BY <1>0, <1>3, <2>3, <2>4, Zenon DEF HandlerTypes
    <3>2. queue' \in [Task -> Seq(Handlers)]
      BY <1>0, <1>3, <2>3, <2>4, Zenon DEF HandlerTypes
    <3>3. handled \in [Task -> Nat]
      BY <1>0, Zenon DEF HandlerTypes
    <3>4. handled' = handled \/ handled' = [handled EXCEPT ![t] = @ + 1]
      BY <2>4, Zenon
    <3>5. handled' \in [Task -> Nat]
      BY <3>3, <3>4
    <3>. QED
      BY <3>1, <3>2, <3>5, Zenon DEF HandlerTypes
  <2>9. PathTypes'
    BY <1>0, <1>3, Zenon DEF PathTypes, ReadMailBox, path, posts
  <2>10. CallTypes'
    BY <1>0, <1>3, <2>1, <2>6, Zenon DEF CallTypes
  <2>. QED
    BY <2>7, <2>8, <2>9, <2>10, TypeParts, Zenon
<1>4. ASSUME NEW t \in Task, ScanEnd(t) PROVE MTypeOK'
  <2>1. WindowTypes'
    BY <1>0, <1>4, Zenon DEF WindowTypes, ScanEnd, flags
  <2>2. HandlerTypes'
    BY <1>0, <1>4, Zenon DEF HandlerTypes, ScanEnd
  <2>3. PathTypes'
    BY <1>0, <1>4, Zenon DEF PathTypes, ScanEnd, path, posts
  <2>4. CallTypes'
    BY <1>0, <1>4 DEF CallTypes, ScanEnd
  <2>. QED
    BY <2>1, <2>2, <2>3, <2>4, TypeParts, Zenon
<1>5. ASSUME NEW t \in Task, HandleAllReexecute(t) PROVE MTypeOK'
  <2>1. Head(queue[t]) \in Handlers /\ Tail(queue[t]) \in Seq(Handlers)
    BY <1>0, <1>5, PopKeeps, Zenon DEF HandlerTypes, HandleAllReexecute
  <2>2. Level[Head(queue[t]).cd] \in RollbackPoints
    BY <2>1, LevelFacts, Zenon DEF Handlers
  <2>3. MinOf(rb[t], Level[Head(queue[t]).cd]) \in RollbackPoints
    BY <1>0, <1>5, <2>2, MinOfType, Zenon DEF WindowTypes
  <2>4. WindowTypes'
    BY <1>0, <1>5, <2>3, Zenon DEF WindowTypes, HandleAllReexecute, LowerRollbackPoint, flags
  <2>5. HandlerTypes'
    BY <1>0, <1>5, <2>1 DEF HandlerTypes, HandleAllReexecute, PopHandled
  <2>6. PathTypes'
    BY <1>0, <1>5, Zenon DEF PathTypes, HandleAllReexecute, path, posts
  <2>7. CallTypes'
    BY <1>0, <1>5, Zenon DEF CallTypes, HandleAllReexecute, ctl
  <2>. QED
    BY <2>4, <2>5, <2>6, <2>7, TypeParts, Zenon
<1>6. ASSUME NEW t \in Task, HandleErrorOccurred(t) PROVE MTypeOK'
  <2> DEFINE c == Head(queue[t]).cd
  <2>1. Head(queue[t]) \in Handlers /\ Tail(queue[t]) \in Seq(Handlers)
    BY <1>0, <1>6, PopKeeps, Zenon DEF HandlerTypes, HandleErrorOccurred
  <2>2. c \in Shared /\ c \in Cd /\ Level[c] \in RollbackPoints /\ Member[c] \subseteq Task
    BY <2>1, LevelFacts, Zenon DEF Handlers
  <2>3. MinOf(rb[t], Level[c]) \in RollbackPoints
    BY <1>0, <1>6, <2>2, MinOfType, Zenon DEF WindowTypes
  <2>4. /\ rb' \in {rb, [rb EXCEPT ![t] = MinOf(@, Level[c])]}
        /\ handled' \in {handled, [handled EXCEPT ![t] = @ + 1]}
        /\ queue' \in {queue, [queue EXCEPT ![t] = Tail(@)]}
        /\ errOcc' \in {errOcc, [errOcc EXCEPT ![c] = FALSE]}
    BY <1>0, <1>6, Zenon DEF HandleErrorOccurred, LowerRollbackPoint, PopHandled
  <2>5. /\ pc' \in {pc, [pc EXCEPT ![t] = "cast"]}
        /\ at' \in {at, [at EXCEPT ![t] = c]}
        /\ todo' \in {todo, [todo EXCEPT ![t] = Member[c]]}
        /\ UNCHANGED <<lv, fly, event_count, pending, errFlag, reexFlag>>
    BY <1>0, <1>6, Zenon DEF HandleErrorOccurred, flags
  <2> HIDE DEF c
  <2>6. WindowTypes'
    BY <1>0, <1>6, <2>3, <2>4, <2>5, Zenon DEF WindowTypes
  <2>7. HandlerTypes'
    <3>1. errOcc' \in [Shared -> BOOLEAN]
      BY <1>0, <1>6, <2>1, <2>4, Zenon DEF HandlerTypes
    <3>2. queue' \in [Task -> Seq(Handlers)]
      BY <1>0, <1>6, <2>1, <2>4, Zenon DEF HandlerTypes
    <3>3. handled' = handled \/ handled' = [handled EXCEPT ![t] = @ + 1]
      BY <2>4, Zenon
    <3>4. handled' \in [Task -> Nat]
      BY <1>0, <1>6, <3>3 DEF HandlerTypes
    <3>. QED
      BY <3>1, <3>2, <3>4, Zenon DEF HandlerTypes
  <2>8. PathTypes'
    BY <1>0, <1>6, Zenon DEF PathTypes, HandleErrorOccurred, path, posts
  <2>9. CallTypes'
    BY <1>0, <1>6, <2>2, <2>5 DEF CallTypes
  <2>. QED
    BY <2>6, <2>7, <2>8, <2>9, TypeParts, Zenon
<1>7. ASSUME NEW t \in Task, Broadcast(t) PROVE MTypeOK'
  <2> DEFINE i == Lowest(todo[t])
             reex == [ev |-> "AllReexecute", cd |-> at[t]]
  <2>1. i \in Task
    BY <1>0, <1>7, LowestInSet, Zenon DEF Broadcast, CallTypes
  <2>2. reex \in Handlers
    BY <1>0, <1>7, Zenon DEF CallState, CallOK, Broadcast, Handlers
  <2>3. Append(queue[t], reex) \in Seq(Handlers)
    BY <1>0, <1>7, <2>2, PushKeeps, Zenon DEF HandlerTypes
  <2>4. /\ pending' = [pending EXCEPT ![i] = @ + 1]
        /\ queue' \in {queue, [queue EXCEPT ![t] = Append(@, reex)]}
        /\ todo' \in {todo, [todo EXCEPT ![t] = @ \ {i}]}
        /\ fly' \in {fly, [fly EXCEPT ![t] = i]}
        /\ pc' \in {pc, [pc EXCEPT ![t] = "castpost"]}
        /\ UNCHANGED <<errFlag, reexFlag, handled, errOcc, rb, at, lv, event_count>>
    BY <1>0, <1>7, Zenon DEF Broadcast, flags
  <2> HIDE DEF i, reex
  <2>5. WindowTypes'
    BY <1>0, <1>7, <2>1, <2>4 DEF WindowTypes
  <2>6. HandlerTypes'
    BY <1>0, <1>7, <2>3, <2>4, Zenon DEF HandlerTypes
  <2>7. PathTypes'
    BY <1>0, <1>7, Zenon DEF PathTypes, Broadcast, path, posts
  <2>8. CallTypes'
    <3>1. todo' \in [Task -> SUBSET Task]
      BY <1>0, <1>7, <2>4 DEF CallTypes
    <3>2. fly \in [Task -> Task \cup {NoTask}]
      BY <1>0, Zenon DEF CallTypes
    <3>3. fly' = fly \/ fly' = [fly EXCEPT ![t] = i]
      BY <2>4, Zenon
    <3>4. fly' \in [Task -> Task \cup {NoTask}]
      BY <1>7, <2>1, <3>2, <3>3, Zenon
    <3>. QED
      BY <1>0, <1>7, <2>4, <3>1, <3>4, Zenon DEF CallTypes
  <2>. QED
    BY <2>5, <2>6, <2>7, <2>8, TypeParts, Zenon
<1>8. ASSUME NEW t \in Task, BroadcastFlag(t) PROVE MTypeOK'
  <2>1. at[t] \in Shared /\ fly[t] \in Task
    BY <1>0, <1>8, ZenonT(30) DEF CallState, CallOK, BroadcastFlag, CallTypes
  <2>2. WindowTypes'
    BY <1>0, <1>8, <2>1 DEF WindowTypes, BroadcastFlag
  <2>3. HandlerTypes'
    BY <1>0, <1>8, Zenon DEF HandlerTypes, BroadcastFlag
  <2>4. PathTypes'
    BY <1>0, <1>8, Zenon DEF PathTypes, BroadcastFlag, path, posts
  <2>5. CallTypes'
    BY <1>0, <1>8, Zenon DEF CallTypes, BroadcastFlag
  <2>. QED
    BY <2>2, <2>3, <2>4, <2>5, TypeParts, Zenon
<1>9. ASSUME NEW t \in Task, BroadcastEnd(t) PROVE MTypeOK'
  <2>1. queue[t] # <<>>
    BY <1>0, <1>9, Zenon DEF CallState, CallOK, BroadcastEnd
  <2>2. Tail(queue[t]) \in Seq(Handlers)
    BY <1>0, <1>9, <2>1, PopKeeps, Zenon DEF HandlerTypes
  <2>3. WindowTypes'
    BY <1>0, <1>9, Zenon DEF WindowTypes, BroadcastEnd, flags
  <2>4. HandlerTypes'
    <3>1. errOcc' \in [Shared -> BOOLEAN]
      BY <1>0, <1>9, <2>2, Zenon DEF HandlerTypes, BroadcastEnd, PopHandled
    <3>2. queue' \in [Task -> Seq(Handlers)] /\ handled' \in [Task -> Nat]
      BY <1>0, <1>9, <2>2 DEF HandlerTypes, BroadcastEnd, PopHandled
    <3>. QED
      BY <3>1, <3>2, Zenon DEF HandlerTypes
  <2>5. PathTypes'
    BY <1>0, <1>9, Zenon DEF PathTypes, BroadcastEnd, path, posts
  <2>6. CallTypes'
    BY <1>0, <1>9, Zenon DEF CallTypes, BroadcastEnd
  <2>. QED
    BY <2>3, <2>4, <2>5, <2>6, TypeParts, Zenon
<1>10. ASSUME NEW t \in Task, DecPendingCounter(t) PROVE MTypeOK'
  <2>1. WindowTypes'
    BY <1>0, <1>10 DEF WindowTypes, DecPendingCounter, HandlerTypes, flags
  <2>2. HandlerTypes'
    <3>1. UNCHANGED <<queue, errOcc>>
      BY <1>10, Zenon DEF DecPendingCounter
    <3>2. handled' = handled \/ handled' = [handled EXCEPT ![t] = 0]
      BY <1>10, Zenon DEF DecPendingCounter
    <3>3. handled \in [Task -> Nat]
      BY <1>0, Zenon DEF HandlerTypes
    <3>4. handled' \in [Task -> Nat]
      BY <3>2, <3>3
    <3>. QED
      BY <1>0, <3>1, <3>4, Zenon DEF HandlerTypes
  <2>3. PathTypes'
    BY <1>0, <1>10, Zenon DEF PathTypes, DecPendingCounter, path, posts
  <2>4. CallTypes'
    BY <1>0, <1>10 DEF CallTypes, DecPendingCounter
  <2>. QED
    BY <2>1, <2>2, <2>3, <2>4, TypeParts, Zenon
<1>11. ASSUME NEW t \in Task, CheckMailBox(t) PROVE MTypeOK'
  <2>1. cur[t] \in Int /\ pending[t] \in Int
    BY <1>0, <1>11 DEF PathTypes, WindowTypes, Levels
  <2>2. WindowTypes'
    BY <1>0, <1>11, Zenon DEF WindowTypes, CheckMailBox, flags
  <2>3. HandlerTypes'
    BY <1>0, <1>11, Zenon DEF HandlerTypes, CheckMailBox
  <2>4. PathTypes'
    BY <1>0, <1>11, Zenon DEF PathTypes, CheckMailBox, path, posts
  <2>5. CallTypes'
    <3>1. /\ event_count' = [event_count EXCEPT ![t] = pending[t]]
          /\ UNCHANGED <<at, todo, fly>>
      BY <1>11, Zenon DEF CheckMailBox
    <3>2. \E x \in Int : lv' = [lv EXCEPT ![t] = x]
      <4>1. lv' = [lv EXCEPT ![t] = IF pending[t] # 0 THEN cur[t] ELSE -1]
        BY <1>11, Zenon DEF CheckMailBox
      <4>2. (IF pending[t] # 0 THEN cur[t] ELSE -1) \in Int
        BY <2>1
      <4>. QED
        BY <4>1, <4>2, Zenon
    <3>3. \E x \in {"scan", "drain", "run"} : pc' = [pc EXCEPT ![t] = x]
      BY <1>11, Zenon DEF CheckMailBox
    <3>4. pc' \in [Task -> {"run", "post", "check", "scan", "read", "drain", "cast",
                            "castpost"}]
      BY <1>0, <3>3, Zenon DEF CallTypes
    <3>5. lv' \in [Task -> Int] /\ event_count' \in [Task -> Int]
      BY <1>0, <2>1, <3>1, <3>2, Zenon DEF CallTypes
    <3>. QED
      BY <1>0, <3>1, <3>4, <3>5, Zenon DEF CallTypes
  <2>. QED
    BY <2>2, <2>3, <2>4, <2>5, TypeParts, Zenon
<1>12. ASSUME NEW t \in Task, Create(t) PROVE MTypeOK'
  <2>1. len[t] + 1 \in Levels
    BY <1>0, <1>12, TreeAssumption DEF PathTypes, Create, Levels
  <2>2. WindowTypes'
    BY <1>0, <1>12, Zenon DEF WindowTypes, Create, flags
  <2>3. HandlerTypes'
    BY <1>0, <1>12, Zenon DEF HandlerTypes, Create, Move
  <2>4. PathTypes'
    BY <1>0, <1>12, <2>1 DEF PathTypes, Create, Move
  <2>5. CallTypes'
    BY <1>0, <1>12, Zenon DEF CallTypes, Create, Move, ctl
  <2>. QED
    BY <2>2, <2>3, <2>4, <2>5, TypeParts, Zenon
<1>13. ASSUME NEW t \in Task, Recreate(t) PROVE MTypeOK'
  <2>1. len[t] + 1 \in Levels
    BY <1>0, <1>13, TreeAssumption, Zenon DEF PathTypes, Recreate, Levels
  <2>2. errFlag' \subseteq errFlag /\ reexFlag' \subseteq reexFlag
    BY <1>0, <1>13, Zenon DEF Recreate
  <2>3. WindowTypes'
    <3>1. /\ pending' = [pending EXCEPT ![t] = 0]
          /\ rb' = [rb EXCEPT ![t] = INVALID]
      BY <1>13, Zenon DEF Recreate
    <3>2. INVALID \in RollbackPoints
      BY LevelFacts, Zenon
    <3>3. rb' \in [Task -> RollbackPoints]
      BY <1>0, <3>1, <3>2, Zenon DEF WindowTypes
    <3>4. pending' \in [Task -> Int]
      BY <1>0, <3>1 DEF WindowTypes
    <3>. QED
      BY <1>0, <2>2, <3>3, <3>4, Zenon DEF WindowTypes
  <2>4. HandlerTypes'
    BY <1>0, <1>13, Zenon DEF HandlerTypes, Recreate, Move
  <2>5. PathTypes'
    BY <1>0, <1>13, <2>1 DEF PathTypes, Recreate, Move
  <2>6. CallTypes'
    BY <1>0, <1>13, Zenon DEF CallTypes, Recreate, Move, ctl
  <2>. QED
    BY <2>3, <2>4, <2>5, <2>6, TypeParts, Zenon
<1>14. ASSUME NEW t \in Task, Begin(t) PROVE MTypeOK'
  <2>1. cur[t] + 1 \in Levels
    BY <1>0, <1>14, Zenon DEF PathTypes, Begin
  <2>2. WindowTypes'
    <3>1. PICK r \in {rb[t], INVALID} : SyncCDs(t, GetCDLevel(t, len[t]), r)
      BY <1>14, Zenon DEF Begin
    <3>2. rb \in [Task -> RollbackPoints]
      BY <1>0, Zenon DEF WindowTypes
    <3>3. rb' \in [Task -> RollbackPoints]
      BY <1>14, <3>1, <3>2, SyncTypes, Zenon
    <3>. QED
      BY <1>0, <1>14, <3>3, Zenon DEF WindowTypes, Begin, flags
  <2>3. HandlerTypes'
    BY <1>0, <1>14, Zenon DEF HandlerTypes, Begin, Move
  <2>4. PathTypes'
    BY <1>0, <1>14, <2>1 DEF PathTypes, Begin, Move
  <2>5. CallTypes'
    BY <1>0, <1>14, Zenon DEF CallTypes, Begin, Move, ctl
  <2>. QED
    BY <2>2, <2>3, <2>4, <2>5, TypeParts, Zenon
<1>15. ASSUME NEW t \in Task, Complete(t) PROVE MTypeOK'
  <2>1. cur[t] - 1 \in Levels
    BY <1>0, <1>15, TreeAssumption DEF PathTypes, Complete, Levels
  <2>2. WindowTypes'
    <3>1. SyncCDs(t, GetCDLevel(t, len[t]), rb[t]) /\ UNCHANGED <<pending, errFlag, reexFlag>>
      BY <1>15, Zenon DEF Complete, flags
    <3>2. rb \in [Task -> RollbackPoints]
      BY <1>0, Zenon DEF WindowTypes
    <3>3. rb' \in [Task -> RollbackPoints]
      BY <1>15, <3>1, <3>2, SyncTypes, Zenon
    <3>. QED
      BY <1>0, <3>1, <3>3, Zenon DEF WindowTypes
  <2>3. HandlerTypes'
    BY <1>0, <1>15, Zenon DEF HandlerTypes, Complete, Move
  <2>4. PathTypes'
    BY <1>0, <1>15, <2>1 DEF PathTypes, Complete, Move
  <2>5. CallTypes'
    BY <1>0, <1>15, Zenon DEF CallTypes, Complete, Move, ctl
  <2>. QED
    BY <2>2, <2>3, <2>4, <2>5, TypeParts, Zenon
<1>16. ASSUME NEW t \in Task, Destroy(t) PROVE MTypeOK'
  <2> DEFINE c == GetCDLevel(t, len[t])
  <2>1. len[t] - 1 \in Levels
    BY <1>0, <1>16, TreeAssumption DEF PathTypes, Destroy, Levels
  <2>2. errFlag' \subseteq errFlag /\ reexFlag' \subseteq reexFlag
    BY <1>0, <1>16, Zenon DEF Destroy
  <2>3. Cardinality(OwnErrFlags(t, c)) \in Nat /\ Cardinality(OwnReexFlags(t, c)) \in Nat
    BY <1>0, <1>16, FiniteFlags, Zenon DEF WindowTypes, OwnErrFlags, OwnReexFlags
  <2>4. WindowTypes'
    <3>1. pending[t] - handled[t] - Cardinality(OwnErrFlags(t, c))
            - Cardinality(OwnReexFlags(t, c)) \in Int
      BY <1>0, <1>16, <2>3 DEF WindowTypes, HandlerTypes
    <3>2. pending' \in [Task -> Int]
      BY <1>0, <1>16, <3>1, Zenon DEF WindowTypes, Destroy
    <3>. QED
      BY <1>0, <1>16, <2>2, <3>2, Zenon DEF WindowTypes, Destroy
  <2>5. HandlerTypes'
    BY <1>0, <1>16, Zenon DEF HandlerTypes, Destroy, Move
  <2>6. PathTypes'
    BY <1>0, <1>16, <2>1 DEF PathTypes, Destroy, Move
  <2>7. CallTypes'
    BY <1>0, <1>16, Zenon DEF CallTypes, Destroy, Move, ctl
  <2>. QED
    BY <2>4, <2>5, <2>6, <2>7, TypeParts, Zenon
<1>17. ASSUME NEW t \in Task, Detect(t) \/ Assert(t) PROVE MTypeOK'
  <2>t. MTypeOK
    BY Zenon DEF TInv
  <2>0. Fails(t) /\ OneReport(t)
    BY <1>17, <2>t, FindsError, Zenon
  <2>1. PICK S \in SUBSET Heads(t), l \in Levels : ThenSet(t, S, l)
    BY <1>17, <2>t, FindsError, Zenon
  <2>2. ASSUME NEW c \in Shared PROVE c \in Cd /\ HeadOf[c] \in Task
    BY LevelFacts, Zenon
  <2>3. S \subseteq Task /\ l \in Int
    BY <1>17, <2>2, LevelFacts DEF Heads, Levels
  <2>4. ASSUME NEW c \in Shared PROVE Append(queue[t], [ev |-> "ErrorOccurred", cd |-> c]) \in Seq(Handlers)
    <3>1. [ev |-> "ErrorOccurred", cd |-> c] \in Handlers
      BY Zenon DEF Handlers
    <3>. QED
      BY <1>0, <1>17, <3>1, PushKeeps, Zenon DEF HandlerTypes
  <2>5. WindowTypes'
    <3>1. /\ pending' = pending \/ \E c \in Shared : pending' = [pending EXCEPT ![HeadOf[c]] = @ + 1]
          /\ errFlag' \subseteq errFlag /\ UNCHANGED <<reexFlag, rb>>
      BY <2>0, Zenon DEF OneReport, LocalSetMailBox, RemoteSetMailBox, NoMailBox, IsHead, flags
    <3>2. pending' \in [Task -> Int]
      BY <1>0, <2>2, <3>1 DEF WindowTypes
    <3>. QED
      BY <1>0, <3>1, <3>2, Zenon DEF WindowTypes
  <2>6. HandlerTypes'
    BY <1>0, <1>17, <2>0, <2>4, ZenonT(30)
       DEF HandlerTypes, OneReport, LocalSetMailBox, RemoteSetMailBox, NoMailBox
  <2>7. PathTypes'
    <3>1. UNCHANGED <<cur, len, made>>
      BY <2>0, Zenon DEF OneReport, LocalSetMailBox, RemoteSetMailBox, NoMailBox, path
    <3>2. nerr' = nerr + 1 /\ UNCHANGED <<lost, moves>>
      BY <2>0, Zenon DEF Fails
    <3>3. PathTypes
      BY <1>0, <1>17, Zenon
    <3>. QED
      BY <3>1, <3>2, <3>3 DEF PathTypes
  <2>8. CallTypes'
    <3>1. /\ pc' \in {[pc EXCEPT ![t] = "check"], [pc EXCEPT ![t] = "post"]}
          /\ at' = at \/ \E c \in Shared : at' = [at EXCEPT ![t] = c]
          /\ fly' = fly \/ \E c \in Shared : fly' = [fly EXCEPT ![t] = HeadOf[c]]
          /\ event_count' = event_count
      BY <2>0, Zenon DEF OneReport, LocalSetMailBox, RemoteSetMailBox, NoMailBox
    <3>2. todo' = [todo EXCEPT ![t] = S] /\ lv' = [lv EXCEPT ![t] = l]
      BY <2>1, Zenon DEF ThenSet
    <3>3. CallTypes
      BY <1>0, Zenon
    <3>4. at' \in [Task -> Cd \cup {NoCd}]
      <4>1. CASE at' = at
        BY <3>3, <4>1, Zenon DEF CallTypes
      <4>2. ASSUME NEW c \in Shared, at' = [at EXCEPT ![t] = c]
            PROVE  at' \in [Task -> Cd \cup {NoCd}]
        <5>1. c \in Cd
          BY <2>2, Zenon
        <5>. QED
          BY <3>3, <4>2, <5>1, Zenon DEF CallTypes
      <4>. QED
        BY <3>1, <4>1, <4>2, Zenon
    <3>5. fly' \in [Task -> Task \cup {NoTask}]
      <4>1. CASE fly' = fly
        BY <3>3, <4>1, Zenon DEF CallTypes
      <4>2. ASSUME NEW c \in Shared, fly' = [fly EXCEPT ![t] = HeadOf[c]]
            PROVE  fly' \in [Task -> Task \cup {NoTask}]
        <5>1. HeadOf[c] \in Task
          BY <2>2, Zenon
        <5>. QED
          BY <3>3, <4>2, <5>1, Zenon DEF CallTypes
      <4>. QED
        BY <3>1, <4>1, <4>2, Zenon
    <3>6. todo' \in [Task -> SUBSET Task] /\ lv' \in [Task -> Int]
      BY <2>3, <3>2, <3>3, Zenon DEF CallTypes
    <3>. QED
      BY <3>1, <3>3, <3>4, <3>5, <3>6, Zenon DEF CallTypes
  <2>. QED
    BY <2>5, <2>6, <2>7, <2>8, TypeParts, Zenon
<1>18. ASSUME NEW t \in Task, SetRollbackPoint(t) PROVE MTypeOK'
  <2>1. PICK u \in todo[t] : /\ LowerRollbackPoint(u, lv[t])
                             /\ todo' = [todo EXCEPT ![t] = @ \ {u}]
    BY <1>18, Zenon DEF SetRollbackPoint
  <2>2. u \in Task /\ lv[t] \in RollbackPoints
    BY <1>0, <1>18, LevelFacts, Zenon DEF CallTypes, CallState, CallOK, SetRollbackPoint
  <2>3. MinOf(rb[u], lv[t]) \in RollbackPoints
    BY <1>0, <2>2, MinOfType, Zenon DEF WindowTypes
  <2>4. WindowTypes'
    BY <1>0, <1>18, <2>1, <2>3, Zenon DEF WindowTypes, SetRollbackPoint, LowerRollbackPoint, flags
  <2>5. HandlerTypes'
    BY <1>0, <1>18, Zenon DEF HandlerTypes, SetRollbackPoint
  <2>6. PathTypes'
    BY <1>0, <1>18, Zenon DEF PathTypes, SetRollbackPoint, path, posts
  <2>7. CallTypes'
    BY <1>0, <1>18, <2>1, Zenon DEF CallTypes, SetRollbackPoint
  <2>. QED
    BY <2>4, <2>5, <2>6, <2>7, TypeParts, Zenon
<1>19. ASSUME UNCHANGED mvars PROVE MTypeOK'
  BY <1>0, <1>19, TypeParts, Zenon DEF mvars, WindowTypes, HandlerTypes, PathTypes, CallTypes
<1>. QED
  BY <1>1, <1>2, <1>3, <1>4, <1>5, <1>6, <1>7, <1>8, <1>9, <1>10, <1>11, <1>12, <1>13, <1>14, <1>15, <1>16,
     <1>17, <1>18, <1>19, Zenon DEF MNext, Progress, Calls

\* A task whose locals and FIFO do not change, and whose mailbox bits do not vanish,
\* stays in the same call state.
LEMMA OthersKeep ==
  ASSUME NEW u \in Task, CallOK(u),
         pc'[u] = pc[u], at'[u] = at[u], fly'[u] = fly[u], todo'[u] = todo[u],
         lv'[u] = lv[u], queue'[u] = queue[u],
         \A c \in Shared, s \in Task :
           IsHead(u, c) /\ <<c, s>> \in errFlag => <<c, s>> \in errFlag',
         \A c \in Shared : <<c, u>> \in reexFlag => <<c, u>> \in reexFlag',
         todo[u] \subseteq Task
  PROVE  CallOK(u)'
BY Zenon DEF CallOK, IsHead

\* The call states are preserved by every step of a task.
LEMMA CallStep ==
  ASSUME SetFacts
  PROVE  TInv /\ [MNext]_mvars => CallState'
<1> SUFFICES ASSUME TInv, [MNext]_mvars PROVE CallState'
  BY Zenon
<1>0. WindowTypes /\ HandlerTypes /\ PathTypes /\ CallTypes /\ CallState
  BY TypeParts, Zenon DEF TInv
<1>1. ASSUME NEW t \in Task, RemoteSetFlag(t) PROVE CallState'
  <2>1. ASSUME NEW u \in Task, u # t PROVE CallOK(u)'
    BY <1>0, <1>1, <2>1, OthersKeep, Zenon DEF RemoteSetFlag, CallState, CallTypes, HandlerTypes
  <2>2. CallOK(t)'
    BY <1>0, <1>1, Zenon DEF RemoteSetFlag, CallState, CallOK, CallTypes
  <2>. QED
    BY <2>1, <2>2, Zenon DEF CallState
<1>2. ASSUME NEW t \in Task, InternalCheckMailBox(t) PROVE CallState'
  <2>1. ASSUME NEW u \in Task, u # t PROVE CallOK(u)'
    BY <1>0, <1>2, <2>1, OthersKeep, Zenon DEF InternalCheckMailBox, CallState, CallTypes, HandlerTypes, flags
  <2> DEFINE c == GetCDLevel(t, lv[t])
             snap == IF c \in Shared THEN GetEventFlag(t, c) ELSE {}
  <2>2. snap # {} =>
          /\ c \in Shared
          /\ IF IsHead(t, c) THEN \A s \in snap : <<c, s>> \in errFlag
                             ELSE snap = {t} /\ <<c, t>> \in reexFlag
    BY Zenon DEF GetEventFlag
  <2>3. fly[t] = NoTask
    BY <1>0, <1>2, Zenon DEF CallState, CallOK, InternalCheckMailBox
  <2> HIDE DEF c, snap
  <2>4. /\ at' = [at EXCEPT ![t] = IF snap = {} THEN NoCd ELSE c]
        /\ todo' = [todo EXCEPT ![t] = snap]
        /\ pc' = [pc EXCEPT ![t] = IF snap = {} THEN "scan" ELSE "read"]
        /\ UNCHANGED <<fly, errFlag, reexFlag, queue>>
    BY <1>0, <1>2, Zenon DEF InternalCheckMailBox, flags, c, snap
  <2>5. CallOK(t)'
    BY <1>0, <1>2, <2>2, <2>3, <2>4, Zenon DEF CallOK, CallTypes, IsHead
  <2>. QED
    BY <2>1, <2>5, Zenon DEF CallState
<1>3. ASSUME NEW t \in Task, ReadMailBox(t) PROVE CallState'
  <2>1. ASSUME NEW u \in Task, u # t PROVE CallOK(u)'
    <3>1. /\ pc'[u] = pc[u] /\ at'[u] = at[u] /\ fly'[u] = fly[u] /\ todo'[u] = todo[u]
          /\ lv'[u] = lv[u] /\ queue'[u] = queue[u]
      BY <1>0, <1>3, <2>1, Zenon DEF ReadMailBox, CallTypes, HandlerTypes
    <3>2. \A c \in Shared, s \in Task :
            IsHead(u, c) /\ <<c, s>> \in errFlag => <<c, s>> \in errFlag'
      BY <1>0, <1>3, <2>1, Zenon DEF ReadMailBox, IsHead
    <3>3. \A c \in Shared : <<c, u>> \in reexFlag => <<c, u>> \in reexFlag'
      BY <1>0, <1>3, <2>1, Zenon DEF ReadMailBox
    <3>. QED
      BY <1>0, <1>3, <3>1, <3>2, <3>3, OthersKeep, Zenon DEF CallState, CallTypes
  <2> DEFINE c == at[t]
             s == Lowest(todo[t])
  <2>2. /\ CallOK(t) /\ pc[t] = "read" /\ c \in Shared /\ s \in todo[t] /\ fly[t] = NoTask
    BY <1>0, <1>3, LowestInSet, Zenon DEF CallState, CallOK, CallTypes, ReadMailBox
  <2> HIDE DEF c, s
  <2>3. /\ todo' = [todo EXCEPT ![t] = @ \ {s}]
        /\ pc' = [pc EXCEPT ![t] = IF todo[t] = {s} THEN "scan" ELSE "read"]
        /\ at' = [at EXCEPT ![t] = IF todo[t] = {s} THEN NoCd ELSE c]
        /\ IsHead(t, c) => errFlag' = errFlag \ {<<c, s>>}
        /\ UNCHANGED fly
    BY <1>0, <1>3, Zenon DEF ReadMailBox, c, s
  <2>4. todo[t] # {s} => IsHead(t, c) /\ \A x \in todo[t] : <<c, x>> \in errFlag
    BY <2>2, Zenon DEF CallOK, c
  <2>5. CallTypes
    BY <1>0, <1>3, Zenon
  <2>6. fly'[t] = NoTask
    BY <2>2, <2>3, Zenon
  <2>7. ASSUME todo[t] = {s} PROVE CallOK(t)'
    <3>1. pc'[t] = "scan"
      BY <2>3, <2>5, <2>7, Zenon DEF CallTypes
    <3>. QED
      BY <2>6, <3>1, Zenon DEF CallOK
  <2>8. ASSUME todo[t] # {s} PROVE CallOK(t)'
    <3>1. pc'[t] = "read" /\ at'[t] = c /\ todo'[t] = todo[t] \ {s}
      BY <2>3, <2>5, <2>8, Zenon DEF CallTypes
    <3>2. todo'[t] # {}
      BY <2>2, <2>8, <3>1, Zenon
    <3>3. IsHead(t, c) /\ \A x \in todo'[t] : <<c, x>> \in errFlag'
      BY <2>3, <2>4, <2>8, <3>1, Zenon
    <3>. QED
      BY <2>2, <2>6, <3>1, <3>2, <3>3, Zenon DEF CallOK, IsHead
  <2>9. CallOK(t)'
    BY <2>7, <2>8, Zenon
  <2>. QED
    BY <2>1, <2>9, Zenon DEF CallState
<1>4. ASSUME NEW t \in Task, ScanEnd(t) PROVE CallState'
  <2>1. ASSUME NEW u \in Task, u # t PROVE CallOK(u)'
    BY <1>0, <1>4, <2>1, OthersKeep, Zenon DEF ScanEnd, CallState, CallTypes, HandlerTypes, flags
  <2>2. CallOK(t)'
    BY <1>0, <1>4, Zenon DEF ScanEnd, CallState, CallOK, CallTypes
  <2>. QED
    BY <2>1, <2>2, Zenon DEF CallState
<1>5. ASSUME NEW t \in Task, HandleAllReexecute(t) PROVE CallState'
  <2>1. ASSUME NEW u \in Task, u # t PROVE CallOK(u)'
    BY <1>0, <1>5, <2>1, OthersKeep, Zenon
       DEF HandleAllReexecute, CallState, CallTypes, HandlerTypes, PopHandled, ctl, flags
  <2>2. CallOK(t)'
    BY <1>0, <1>5, Zenon DEF HandleAllReexecute, CallState, CallOK, CallTypes, PopHandled, ctl
  <2>. QED
    BY <2>1, <2>2, Zenon DEF CallState
<1>6. ASSUME NEW t \in Task, HandleErrorOccurred(t) PROVE CallState'
  <2>1. ASSUME NEW u \in Task, u # t PROVE CallOK(u)'
    BY <1>0, <1>6, <2>1, OthersKeep
       DEF HandleErrorOccurred, CallState, CallTypes, HandlerTypes, PopHandled, flags
  <2> DEFINE c == Head(queue[t]).cd
  <2>2. /\ c \in Shared /\ queue[t] # <<>> /\ fly[t] = NoTask /\ pc[t] = "drain"
        /\ Head(queue[t]) = [ev |-> "ErrorOccurred", cd |-> c]
    <3>1. Head(queue[t]) \in Handlers
      BY <1>0, <1>6, PopKeeps, Zenon DEF HandlerTypes, HandleErrorOccurred
    <3>. QED
      BY <1>0, <1>6, <3>1, Zenon DEF CallState, CallOK, HandleErrorOccurred, Handlers
  <2>3. CallOK(t)'
    BY <1>0, <1>6, <2>2, Zenon DEF HandleErrorOccurred, CallState, CallOK, CallTypes
  <2>. QED
    BY <2>1, <2>3, Zenon DEF CallState
<1>7. ASSUME NEW t \in Task, Broadcast(t) PROVE CallState'
  <2>1. ASSUME NEW u \in Task, u # t PROVE CallOK(u)'
    BY <1>0, <1>7, <2>1, OthersKeep, ZenonT(30) DEF Broadcast, CallState, CallTypes, HandlerTypes, flags
  <2> DEFINE reex == [ev |-> "AllReexecute", cd |-> at[t]]
  <2>2. /\ CallOK(t) /\ pc[t] = "cast" /\ at[t] \in Shared /\ queue[t] # <<>>
        /\ Head(queue[t]) = [ev |-> "ErrorOccurred", cd |-> at[t]]
    BY <1>0, <1>7, Zenon DEF CallState, CallOK, Broadcast
  <2>3. Append(queue[t], reex) # <<>> /\ Head(Append(queue[t], reex)) = Head(queue[t])
    <3>1. reex \in Handlers
      BY <2>2, Zenon DEF Handlers
    <3>2. queue[t] \in Seq(Handlers)
      BY <1>0, <1>7, Zenon DEF HandlerTypes
    <3> HIDE DEF reex
    <3>. QED
      BY <2>2, <3>1, <3>2, PushKeeps, Zenon
  <2> DEFINE i == Lowest(todo[t])
  <2>4. i \in Task
    BY <1>0, <1>7, LowestInSet, Zenon DEF Broadcast, CallTypes
  <2>5. i # NoTask
    BY <2>4, LevelFacts, Zenon
  <2> HIDE DEF i
  <2>6. CallOK(t)'
    <3>1. CASE i = t
      <4>1. CallTypes /\ HandlerTypes
        BY <1>0, <1>7, Zenon
      <4>2. /\ queue' = [queue EXCEPT ![t] = Append(@, reex)]
            /\ UNCHANGED <<pc, at, fly>>
        BY <1>0, <1>7, <3>1, Zenon DEF Broadcast, i
      <4>3. queue'[t] = Append(queue[t], reex)
        BY <4>1, <4>2, Zenon DEF HandlerTypes
      <4>4. fly[t] = NoTask
        BY <2>2, Zenon DEF CallOK
      <4>. QED
        BY <2>2, <2>3, <4>2, <4>3, <4>4, Zenon DEF CallOK
    <3>2. CASE i # t
      <4>1. CallTypes
        BY <1>0, Zenon
      <4>2. /\ fly' = [fly EXCEPT ![t] = i] /\ pc' = [pc EXCEPT ![t] = "castpost"]
            /\ UNCHANGED <<queue, at>>
        BY <1>7, <3>2, Zenon DEF Broadcast, i
      <4>3. fly'[t] = i /\ pc'[t] = "castpost"
        BY <1>7, <4>1, <4>2, Zenon DEF CallTypes
      <4>. QED
        BY <2>2, <2>5, <4>2, <4>3, Zenon DEF CallOK
    <3>. QED
      BY <3>1, <3>2, Zenon
  <2>. QED
    BY <2>1, <2>6, Zenon DEF CallState
<1>8. ASSUME NEW t \in Task, BroadcastFlag(t) PROVE CallState'
  <2>1. ASSUME NEW u \in Task, u # t PROVE CallOK(u)'
    BY <1>0, <1>8, <2>1, OthersKeep, Zenon DEF BroadcastFlag, CallState, CallTypes, HandlerTypes
  <2>2. CallOK(t)'
    BY <1>0, <1>8, Zenon DEF BroadcastFlag, CallState, CallOK, CallTypes
  <2>. QED
    BY <2>1, <2>2, Zenon DEF CallState
<1>9. ASSUME NEW t \in Task, BroadcastEnd(t) PROVE CallState'
  <2>1. ASSUME NEW u \in Task, u # t PROVE CallOK(u)'
    BY <1>0, <1>9, <2>1, OthersKeep, Zenon
       DEF BroadcastEnd, CallState, CallTypes, HandlerTypes, PopHandled, flags
  <2>2. CallOK(t)'
    BY <1>0, <1>9, Zenon DEF BroadcastEnd, CallState, CallOK, CallTypes
  <2>. QED
    BY <2>1, <2>2, Zenon DEF CallState
<1>10. ASSUME NEW t \in Task, DecPendingCounter(t) PROVE CallState'
  <2>1. ASSUME NEW u \in Task, u # t PROVE CallOK(u)'
    BY <1>0, <1>10, <2>1, OthersKeep, Zenon DEF DecPendingCounter, CallState, CallTypes, HandlerTypes, flags
  <2>2. CallOK(t)'
    BY <1>0, <1>10, Zenon DEF DecPendingCounter, CallState, CallOK, CallTypes
  <2>. QED
    BY <2>1, <2>2, Zenon DEF CallState
<1>11. ASSUME NEW t \in Task, CheckMailBox(t) PROVE CallState'
  <2>1. ASSUME NEW u \in Task, u # t PROVE CallOK(u)'
    BY <1>0, <1>11, <2>1, OthersKeep, Zenon DEF CheckMailBox, CallState, CallTypes, HandlerTypes, flags
  <2>2. CallOK(t)'
    BY <1>0, <1>11, Zenon DEF CheckMailBox, CallState, CallOK, CallTypes
  <2>. QED
    BY <2>1, <2>2, Zenon DEF CallState
<1>12. ASSUME NEW t \in Task, Create(t) PROVE CallState'
  <2>1. ASSUME NEW u \in Task, u # t PROVE CallOK(u)'
    BY <1>0, <1>12, <2>1, OthersKeep, Zenon DEF Create, CallState, CallTypes, HandlerTypes, Move, ctl, flags
  <2>2. CallOK(t)'
    BY <1>0, <1>12, Zenon DEF Create, CallState, CallOK, CallTypes, Move, ctl
  <2>. QED
    BY <2>1, <2>2, Zenon DEF CallState
<1>13. ASSUME NEW t \in Task, Recreate(t) PROVE CallState'
  <2>1. ASSUME NEW u \in Task, u # t PROVE CallOK(u)'
    BY <1>0, <1>13, <2>1, OthersKeep, Zenon
       DEF Recreate, CallState, CallTypes, HandlerTypes, Move, ctl, OwnErrFlags, OwnReexFlags, IsHead
  <2>2. CallOK(t)'
    BY <1>0, <1>13, Zenon DEF Recreate, CallState, CallOK, CallTypes, Move, ctl
  <2>. QED
    BY <2>1, <2>2, Zenon DEF CallState
<1>14. ASSUME NEW t \in Task, Begin(t) PROVE CallState'
  <2>1. ASSUME NEW u \in Task, u # t PROVE CallOK(u)'
    BY <1>0, <1>14, <2>1, OthersKeep, Zenon DEF Begin, CallState, CallTypes, HandlerTypes, Move, ctl, flags
  <2>2. CallOK(t)'
    BY <1>0, <1>14, Zenon DEF Begin, CallState, CallOK, CallTypes, Move, ctl
  <2>. QED
    BY <2>1, <2>2, Zenon DEF CallState
<1>15. ASSUME NEW t \in Task, Complete(t) PROVE CallState'
  <2>1. ASSUME NEW u \in Task, u # t PROVE CallOK(u)'
    BY <1>0, <1>15, <2>1, OthersKeep, Zenon DEF Complete, CallState, CallTypes, HandlerTypes, Move, ctl, flags
  <2>2. CallOK(t)'
    BY <1>0, <1>15, Zenon DEF Complete, CallState, CallOK, CallTypes, Move, ctl
  <2>. QED
    BY <2>1, <2>2, Zenon DEF CallState
<1>16. ASSUME NEW t \in Task, Destroy(t) PROVE CallState'
  <2>1. ASSUME NEW u \in Task, u # t PROVE CallOK(u)'
    BY <1>0, <1>16, <2>1, OthersKeep, Zenon
       DEF Destroy, CallState, CallTypes, HandlerTypes, Move, ctl, OwnErrFlags, OwnReexFlags, IsHead
  <2>2. CallOK(t)'
    BY <1>0, <1>16, Zenon DEF Destroy, CallState, CallOK, CallTypes, Move, ctl
  <2>. QED
    BY <2>1, <2>2, Zenon DEF CallState
<1>17. ASSUME NEW t \in Task, Detect(t) \/ Assert(t) PROVE CallState'
  <2>t. MTypeOK
    BY Zenon DEF TInv
  <2>0. Fails(t) /\ OneReport(t)
    BY <1>17, <2>t, FindsError, Zenon
  <2>1. PICK S \in SUBSET Heads(t), l \in Levels : ThenSet(t, S, l)
    BY <1>17, <2>t, FindsError, Zenon
  <2>2. pc[t] = "run" /\ fly[t] = NoTask
    BY <1>0, <1>17, <2>0, Zenon DEF Fails, CallState, CallOK
  <2>3. /\ todo' = [todo EXCEPT ![t] = S] /\ lv' = [lv EXCEPT ![t] = l] /\ lv'[t] = l
    BY <1>0, <2>1, Zenon DEF ThenSet, CallTypes
  <2>4. CASE NoMailBox(t)
    <3>1. ASSUME NEW u \in Task, u # t PROVE CallOK(u)'
      BY <1>0, <1>17, <2>3, <2>4, <3>1, OthersKeep, ZenonT(30)
         DEF NoMailBox, CallState, CallTypes, HandlerTypes, flags
    <3>2. pc'[t] = "check" /\ fly'[t] = NoTask
      BY <1>0, <2>2, <2>4, Zenon DEF NoMailBox, CallTypes
    <3>3. CallOK(t)'
      BY <2>3, <3>2, Zenon DEF CallOK
    <3>. QED
      BY <3>1, <3>3, Zenon DEF CallState
  <2>5. ASSUME NEW c \in Shared, LocalSetMailBox(t, c) PROVE CallState'
    <3>1. ASSUME NEW u \in Task, u # t PROVE CallOK(u)'
      BY <1>0, <1>17, <2>3, <2>5, <3>1, OthersKeep, ZenonT(30)
         DEF LocalSetMailBox, CallState, CallTypes, HandlerTypes, IsHead
    <3>2. pc'[t] = "check" /\ fly'[t] = NoTask
      BY <1>0, <2>2, <2>5, Zenon DEF LocalSetMailBox, CallTypes
    <3>3. CallOK(t)'
      BY <2>3, <3>2, Zenon DEF CallOK
    <3>. QED
      BY <3>1, <3>3, Zenon DEF CallState
  <2>6. ASSUME NEW c \in Shared, RemoteSetMailBox(t, c) PROVE CallState'
    <3>1. ASSUME NEW u \in Task, u # t PROVE CallOK(u)'
      BY <1>0, <1>17, <2>3, <2>6, <3>1, OthersKeep, ZenonT(30)
         DEF RemoteSetMailBox, CallState, CallTypes, HandlerTypes, flags
    <3>2. pc'[t] = "post" /\ at'[t] = c /\ fly'[t] = HeadOf[c] /\ HeadOf[c] # NoTask
      BY <1>0, <2>6, LevelFacts, Zenon DEF RemoteSetMailBox, CallTypes
    <3>3. CallOK(t)'
      BY <2>3, <3>2, Zenon DEF CallOK
    <3>. QED
      BY <3>1, <3>3, Zenon DEF CallState
  <2>. QED
    BY <2>0, <2>4, <2>5, <2>6, Zenon DEF OneReport
<1>18. ASSUME NEW t \in Task, SetRollbackPoint(t) PROVE CallState'
  <2>1. ASSUME NEW u \in Task, u # t PROVE CallOK(u)'
    BY <1>0, <1>18, <2>1, OthersKeep, ZenonT(30)
       DEF SetRollbackPoint, CallState, CallTypes, HandlerTypes, flags
  <2>2. CallOK(t)'
    BY <1>0, <1>18, Zenon DEF SetRollbackPoint, CallState, CallOK, CallTypes
  <2>. QED
    BY <2>1, <2>2, Zenon DEF CallState
<1>19. ASSUME UNCHANGED mvars PROVE CallState'
  BY <1>0, <1>19, Zenon DEF mvars, CallState, CallOK
<1>. QED
  BY <1>1, <1>2, <1>3, <1>4, <1>5, <1>6, <1>7, <1>8, <1>9, <1>10, <1>11, <1>12, <1>13, <1>14, <1>15, <1>16,
     <1>17, <1>18, <1>19, Zenon DEF MNext, Progress, Calls

----------------------------------------------------------------------------
(* A dropped report has a broadcast behind it                               *)

\* A step that leaves the FIFOs and error_occurred alone.
LEMMA DupFrame ==
  DuplicateHasBroadcast /\ UNCHANGED <<queue, errOcc>> => DuplicateHasBroadcast'
BY Zenon DEF DuplicateHasBroadcast

\* A step of t that pushes x and may set error_occurred of the CD x is for.
LEMMA DupPush ==
  ASSUME TInv, DuplicateHasBroadcast, NEW t \in Task, NEW x \in Handlers,
         queue' = [queue EXCEPT ![t] = Append(@, x)],
         \/ errOcc' = errOcc
         \/ /\ errOcc' = [errOcc EXCEPT ![x.cd] = TRUE]
            /\ x = [ev |-> "ErrorOccurred", cd |-> x.cd] /\ HeadOf[x.cd] = t
  PROVE  DuplicateHasBroadcast'
<1>a. HandlerTypes
  BY TypeParts, Zenon DEF TInv
<1> SUFFICES ASSUME NEW c \in Shared, errOcc'[c]
             PROVE  \E i \in 1 .. Len(queue'[HeadOf[c]]) :
                      queue'[HeadOf[c]][i] = [ev |-> "ErrorOccurred", cd |-> c]
  BY Zenon DEF DuplicateHasBroadcast
<1> DEFINE e == [ev |-> "ErrorOccurred", cd |-> c]
           h == HeadOf[c]
<1>0. h \in Task /\ queue[h] \in Seq(Handlers) /\ queue[t] \in Seq(Handlers)
  BY <1>a, LevelFacts, Zenon DEF HandlerTypes
<1>1. queue'[h] = IF h = t THEN Append(queue[t], x) ELSE queue[h]
  BY <1>a, <1>0, Zenon DEF HandlerTypes
<1>2. CASE errOcc[c]
  <2>1. \E i \in 1 .. Len(queue[h]) : queue[h][i] = e
    BY <1>2, Zenon DEF DuplicateHasBroadcast
  <2> HIDE DEF e, h
  <2>2. CASE h = t
    <3>1. \E i \in 1 .. Len(Append(queue[t], x)) : Append(queue[t], x)[i] = e
      BY <1>0, <2>1, <2>2, PushKeeps
    <3>2. queue'[h] = Append(queue[t], x)
      BY <1>1, <2>2, Zenon
    <3>3. \E i \in 1 .. Len(queue'[h]) : queue'[h][i] = e
      BY <3>1, <3>2, Zenon
    <3>. QED
      BY <3>3, Zenon DEF e, h
  <2>3. CASE h # t
    <3>1. \E i \in 1 .. Len(queue'[h]) : queue'[h][i] = e
      BY <1>1, <2>1, <2>3, Zenon
    <3>. QED
      BY <3>1, Zenon DEF e, h
  <2>. QED
    BY <2>2, <2>3, Zenon
<1>3. CASE ~errOcc[c]
  <2>1. c = x.cd /\ x = e /\ h = t
    BY <1>a, <1>3, Zenon DEF HandlerTypes
  <2> HIDE DEF e, h
  <2>2. \E i \in 1 .. Len(Append(queue[t], x)) : Append(queue[t], x)[i] = x
    BY <1>0, PushKeeps, ZenonT(30)
  <2>3. queue'[h] = Append(queue[t], x)
    BY <1>1, <2>1, Zenon
  <2>4. \E i \in 1 .. Len(queue'[h]) : queue'[h][i] = e
    BY <2>1, <2>2, <2>3, Zenon
  <2>. QED
    BY <2>4, Zenon DEF e, h
<1>. QED
  BY <1>2, <1>3, Zenon

\* A step of t that pops its front handler; if that is HandleErrorOccurred of c then
\* error_occurred of c is reset.
LEMMA DupPop ==
  ASSUME TInv, DuplicateHasBroadcast, NEW t \in Task, queue[t] # <<>>,
         queue' = [queue EXCEPT ![t] = Tail(@)],
         \/ errOcc' = errOcc /\ Head(queue[t]).ev = "AllReexecute"
         \/ \E d \in Shared : /\ errOcc' = [errOcc EXCEPT ![d] = FALSE]
                              /\ Head(queue[t]) = [ev |-> "ErrorOccurred", cd |-> d]
  PROVE  DuplicateHasBroadcast'
<1>a. HandlerTypes
  BY TypeParts, Zenon DEF TInv
<1> SUFFICES ASSUME NEW c \in Shared, errOcc'[c]
             PROVE  \E i \in 1 .. Len(queue'[HeadOf[c]]) :
                      queue'[HeadOf[c]][i] = [ev |-> "ErrorOccurred", cd |-> c]
  BY Zenon DEF DuplicateHasBroadcast
<1> DEFINE e == [ev |-> "ErrorOccurred", cd |-> c]
           h == HeadOf[c]
<1>0. h \in Task /\ queue[h] \in Seq(Handlers) /\ queue[t] \in Seq(Handlers)
  BY <1>a, LevelFacts, Zenon DEF HandlerTypes
<1>1. queue'[h] = IF h = t THEN Tail(queue[t]) ELSE queue[h]
  BY <1>a, <1>0, Zenon DEF HandlerTypes
<1>2. errOcc[c] /\ Head(queue[t]) # e
  <2>1. CASE errOcc' = errOcc /\ Head(queue[t]).ev = "AllReexecute"
    BY <2>1
  <2>2. ASSUME NEW d \in Shared, errOcc' = [errOcc EXCEPT ![d] = FALSE],
               Head(queue[t]) = [ev |-> "ErrorOccurred", cd |-> d]
        PROVE  errOcc[c] /\ Head(queue[t]) # e
    <3>1. c # d /\ errOcc[c]
      BY <1>a, <2>2, Zenon DEF HandlerTypes
    <3>2. Head(queue[t]).cd = d /\ e.cd = c
      BY <2>2
    <3>. QED
      BY <3>1, <3>2, Zenon
  <2>. QED
    BY <2>1, <2>2, Zenon
<1>3. \E i \in 1 .. Len(queue[h]) : queue[h][i] = e
  BY <1>2, Zenon DEF DuplicateHasBroadcast
<1>4. CASE h = t
  <2> HIDE DEF e, h
  <2>1. \E i \in 1 .. Len(Tail(queue[t])) : Tail(queue[t])[i] = e
    BY <1>0, <1>2, <1>3, <1>4, PopKeeps
  <2>2. queue'[h] = Tail(queue[t])
    BY <1>1, <1>4, Zenon
  <2>3. \E i \in 1 .. Len(queue'[h]) : queue'[h][i] = e
    BY <2>1, <2>2, Zenon
  <2>. QED
    BY <2>3, Zenon DEF e, h
<1>. QED
  BY <1>1, <1>3, <1>4, Zenon

\* error_occurred is only ever set while a HandleErrorOccurred is still to run.
LEMMA DupStep == TInv /\ DuplicateHasBroadcast /\ [MNext]_mvars => DuplicateHasBroadcast'
<1> SUFFICES ASSUME TInv, DuplicateHasBroadcast, [MNext]_mvars
             PROVE  DuplicateHasBroadcast'
  BY Zenon
<1>0. HandlerTypes /\ CallState
  BY TypeParts, Zenon DEF TInv
<1>1. ASSUME NEW t \in Task, ReadMailBox(t)
      PROVE  DuplicateHasBroadcast'
  <2> DEFINE err == [ev |-> "ErrorOccurred", cd |-> at[t]]
             reex == [ev |-> "AllReexecute", cd |-> at[t]]
  <2>1. at[t] \in Shared
    BY <1>0, <1>1, Zenon DEF CallState, CallOK, ReadMailBox
  <2>2. err \in Handlers /\ reex \in Handlers
    BY <2>1, Zenon DEF Handlers
  <2>3. CASE IsHead(t, at[t]) /\ errOcc[at[t]]
    BY <1>0, <1>1, <2>3, DupFrame, Zenon DEF ReadMailBox
  <2>4. CASE IsHead(t, at[t]) /\ ~errOcc[at[t]]
    <3>1. /\ queue' = [queue EXCEPT ![t] = Append(@, err)]
          /\ errOcc' = [errOcc EXCEPT ![err.cd] = TRUE]
          /\ HeadOf[err.cd] = t
      BY <1>0, <1>1, <2>4, Zenon DEF ReadMailBox, IsHead
    <3>. QED
      BY <1>0, <1>1, <2>2, <3>1, DupPush, Zenon
  <2>5. CASE ~IsHead(t, at[t])
    <3>1. queue' = [queue EXCEPT ![t] = Append(@, reex)] /\ errOcc' = errOcc
      BY <1>0, <1>1, <2>5, Zenon DEF ReadMailBox
    <3>. QED
      BY <1>0, <1>1, <2>2, <3>1, DupPush, Zenon
  <2>. QED
    BY <2>3, <2>4, <2>5, Zenon
<1>2. ASSUME NEW t \in Task, HandleAllReexecute(t)
      PROVE  DuplicateHasBroadcast'
  BY <1>0, <1>2, DupPop, Zenon DEF HandleAllReexecute, PopHandled
<1>3. ASSUME NEW t \in Task, HandleErrorOccurred(t)
      PROVE  DuplicateHasBroadcast'
  <2> DEFINE c == Head(queue[t]).cd
  <2>1. Head(queue[t]) \in Handlers
    BY <1>0, <1>3, PopKeeps, Zenon DEF HandlerTypes, HandleErrorOccurred
  <2>2. c \in Shared /\ Head(queue[t]) = [ev |-> "ErrorOccurred", cd |-> c]
    BY <1>0, <1>3, <2>1, Zenon DEF Handlers, HandleErrorOccurred
  <2>3. CASE Level[c] <= cur[t]
    BY <1>0, <1>3, <2>3, DupFrame, Zenon DEF HandleErrorOccurred
  <2>4. CASE ~(Level[c] <= cur[t])
    <3>1. /\ queue[t] # <<>> /\ queue' = [queue EXCEPT ![t] = Tail(@)]
          /\ errOcc' = [errOcc EXCEPT ![c] = FALSE]
      BY <1>0, <1>3, <2>4, Zenon DEF HandleErrorOccurred, PopHandled
    <3>. QED
      BY <1>0, <1>3, <2>2, <3>1, DupPop, Zenon
  <2>. QED
    BY <2>3, <2>4, Zenon
<1>4. ASSUME NEW t \in Task, Broadcast(t)
      PROVE  DuplicateHasBroadcast'
  <2> DEFINE reex == [ev |-> "AllReexecute", cd |-> at[t]]
  <2>1. reex \in Handlers
    BY <1>0, <1>4, Zenon DEF CallState, CallOK, Broadcast, Handlers
  <2>2. /\ queue' \in {queue, [queue EXCEPT ![t] = Append(@, reex)]}
        /\ errOcc' = errOcc
    BY <1>0, <1>4, Zenon DEF Broadcast
  <2> HIDE DEF reex
  <2>. QED
    BY <1>0, <1>4, <2>1, <2>2, DupPush, DupFrame, Zenon
<1>5. ASSUME NEW t \in Task, BroadcastEnd(t)
      PROVE  DuplicateHasBroadcast'
  <2>1. /\ at[t] \in Shared /\ queue[t] # <<>>
        /\ Head(queue[t]) = [ev |-> "ErrorOccurred", cd |-> at[t]]
    BY <1>0, <1>5, Zenon DEF CallState, CallOK, BroadcastEnd
  <2>2. /\ queue' = [queue EXCEPT ![t] = Tail(@)]
        /\ errOcc' = [errOcc EXCEPT ![at[t]] = FALSE]
    BY <1>0, <1>5, Zenon DEF BroadcastEnd, PopHandled
  <2>. QED
    BY <1>0, <1>5, <2>1, <2>2, DupPop, Zenon
<1>6. ASSUME NEW t \in Task, Detect(t) \/ Assert(t)
      PROVE  DuplicateHasBroadcast'
  <2>1. OneReport(t)
    BY <1>6, FindsError, Zenon DEF TInv
  <2>2. ASSUME NEW c \in Shared, LocalSetMailBox(t, c) PROVE DuplicateHasBroadcast'
    <3> DEFINE err == [ev |-> "ErrorOccurred", cd |-> c]
    <3>1. err \in Handlers
      BY Zenon DEF Handlers
    <3>2. /\ queue' = [queue EXCEPT ![t] = Append(@, err)]
          /\ errOcc' = [errOcc EXCEPT ![err.cd] = TRUE] /\ HeadOf[err.cd] = t
      BY <2>2, Zenon DEF LocalSetMailBox, IsHead
    <3>. QED
      BY <1>0, <1>6, <3>1, <3>2, DupPush, Zenon
  <2>3. ASSUME NEW c \in Shared, RemoteSetMailBox(t, c) PROVE DuplicateHasBroadcast'
    BY <1>0, <1>6, <2>3, DupFrame, Zenon DEF RemoteSetMailBox
  <2>4. CASE NoMailBox(t)
    BY <1>0, <1>6, <2>4, DupFrame, Zenon DEF NoMailBox
  <2>. QED
    BY <2>1, <2>2, <2>3, <2>4, Zenon DEF OneReport
<1>7. ASSUME NEW t \in Task,
             \/ RemoteSetFlag(t) \/ InternalCheckMailBox(t) \/ ScanEnd(t) \/ BroadcastFlag(t)
             \/ DecPendingCounter(t) \/ CheckMailBox(t) \/ Create(t) \/ Recreate(t)
             \/ Begin(t) \/ Complete(t) \/ Destroy(t) \/ SetRollbackPoint(t)
      PROVE  UNCHANGED <<queue, errOcc>>
  BY <1>0, <1>7, Zenon DEF RemoteSetFlag, SetRollbackPoint, InternalCheckMailBox, ScanEnd, BroadcastFlag,
     DecPendingCounter, CheckMailBox, Create, Recreate, Begin, Complete, Destroy, Move
<1>8. ASSUME UNCHANGED mvars PROVE UNCHANGED <<queue, errOcc>>
  BY <1>0, <1>8, Zenon DEF mvars
<1>. QED
  BY <1>0, <1>1, <1>2, <1>3, <1>4, <1>5, <1>6, <1>7, <1>8, DupFrame, Zenon DEF MNext, Progress, Calls
=============================================================================
