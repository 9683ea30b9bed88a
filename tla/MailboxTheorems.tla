-------------------------- MODULE MailboxTheorems ---------------------------
(***************************************************************************)
(* What holds of the mailboxes for every tree of CDs and any number of     *)
(* tasks, errors and calls.  The pending counter of a process covers every *)
(* event on its way to it.  A task that waits in BlockUntilValid touches   *)
(* its mailbox and rollback point outside CheckMailBox: for every limit of *)
(* the loop, that disturbs neither the counters nor the reason a task      *)
(* escalates for.  The handlers a process has queued belong to CDs it is   *)
(* still in, and the mailboxes implement ErrorNotice.                      *)
(***************************************************************************)
EXTENDS Wait, NoticeProofs, FiniteSetTheorems

\* A non-empty set of ranks has a least element, and Lowest returns it.
LEMMA HasLowest ==
  ASSUME NEW S \in SUBSET Task, S # {}
  PROVE  Lowest(S) \in S
<1>1. S \subseteq Nat
  BY TreeAssumption, Zenon
<1>2. \E x \in S : \A y \in S : ~(<<y, x>> \in OpToRel(<, Nat))
  BY <1>1, WFMin, NatLessThanWellFounded, Zenon
<1>3. PICK x \in S : \A y \in S : ~(<<y, x>> \in OpToRel(<, Nat))
  BY <1>2, Zenon
<1>4. \A y \in S : x <= y
  <2> SUFFICES ASSUME NEW y \in S PROVE x <= y
    BY Zenon
  <2>1. ~(y < x)
    BY <1>1, <1>3, Zenon DEF OpToRel
  <2>. QED
    BY <1>1, <2>1
<1>. QED
  BY <1>4, Zenon DEF Lowest

\* The mailboxes of a job are finite, and so is the number of bits in them.
LEMMA FlagsAreFinite ==
  ASSUME NEW E \in SUBSET (Shared \X Task)
  PROVE  IsFiniteSet(E) /\ Cardinality(E) \in Nat
<1>1. IsFiniteSet(Shared)
  BY TreeAssumption, FS_Subset, Zenon DEF Shared
<1>2. IsFiniteSet(Shared \X Task)
  BY <1>1, TreeAssumption, FS_Product, Zenon
<1>. QED
  BY <1>2, FS_Subset, FS_CardinalityType, Zenon

\* So is any set of tasks.
LEMMA FiniteTasks ==
  ASSUME NEW S \in SUBSET Task
  PROVE  IsFiniteSet(S) /\ Cardinality(S) \in Nat
BY TreeAssumption, FS_Subset, FS_CardinalityType, Zenon

\* The facts about sets that the proofs about one step rest on.
LEMMA SetFactsHold == SetFacts
BY HasLowest, FlagsAreFinite, Zenon DEF SetFacts

\* The two parts of what a counter stands for: events still to be read, in the mailboxes
\* or between two epochs, and events the process has read.
OnWay(t) == Cardinality(ErrFor(t)) + Cardinality(ReexFor(t)) + Cardinality(FlyTo(t))
Held(t)  == Len(queue[t]) + handled[t]

Counted(t) == ~lost[t] => pending[t] >= OnWay(t) + Held(t)

\* When handled events are still to be taken off the counter: a call that has read
\* mailboxes saw a counter that was not 0, and only the drain of the FIFO leaves handled
\* events behind.
HandledOK(t) == ~lost[t] =>
  /\ pc[t] \in {"scan", "read", "drain", "cast", "castpost"} => event_count[t] # 0
  /\ pc[t] \notin {"drain", "cast", "castpost"} /\ queue[t] = <<>> => handled[t] = 0
  /\ pc[t] \in {"run", "check", "post"} => handled[t] = 0

HandledState == \A t \in Task : HandledOK(t)

CInv == EventsAreCounted /\ HandledState /\ DuplicateHasBroadcast

----------------------------------------------------------------------------
(* Arithmetic of the counter                                                *)

\* The sets the sum is made of are finite.
LEMMA CountTypes ==
  ASSUME MTypeOK, NEW t \in Task
  PROVE  /\ IsFiniteSet(ErrFor(t)) /\ Cardinality(ErrFor(t)) \in Nat
         /\ IsFiniteSet(ReexFor(t)) /\ Cardinality(ReexFor(t)) \in Nat
         /\ IsFiniteSet(FlyTo(t)) /\ Cardinality(FlyTo(t)) \in Nat
         /\ Len(queue[t]) \in Nat /\ handled[t] \in Nat /\ pending[t] \in Int
<1>1. ErrFor(t) \subseteq Shared \X Task /\ ReexFor(t) \subseteq Shared \X Task
  BY Zenon DEF MTypeOK, ErrFor, ReexFor
<1>2. FlyTo(t) \subseteq Task
  BY Zenon DEF FlyTo
<1>3. queue[t] \in Seq(Handlers) /\ handled[t] \in Nat /\ pending[t] \in Int
  BY Zenon DEF MTypeOK
<1>4. Len(queue[t]) \in Nat
  BY <1>3
<1>. QED
  BY <1>1, <1>2, <1>3, <1>4, FlagsAreFinite, FiniteTasks, ZenonT(30)

\* They still are after a step.
LEMMA CountTypesNext ==
  ASSUME MTypeOK', NEW t \in Task
  PROVE  /\ IsFiniteSet(ErrFor(t)') /\ Cardinality(ErrFor(t)') \in Nat
         /\ IsFiniteSet(ReexFor(t)') /\ Cardinality(ReexFor(t)') \in Nat
         /\ IsFiniteSet(FlyTo(t)') /\ Cardinality(FlyTo(t)') \in Nat
         /\ Len(queue'[t]) \in Nat /\ handled'[t] \in Nat /\ pending'[t] \in Int
<1>1. ErrFor(t)' \subseteq Shared \X Task /\ ReexFor(t)' \subseteq Shared \X Task
  BY Zenon DEF MTypeOK, ErrFor, ReexFor
<1>2. FlyTo(t)' \subseteq Task
  BY Zenon DEF FlyTo
<1>3. queue'[t] \in Seq(Handlers) /\ handled'[t] \in Nat /\ pending'[t] \in Int
  BY Zenon DEF MTypeOK
<1>4. Len(queue'[t]) \in Nat
  BY <1>3
<1>. QED
  BY <1>1, <1>2, <1>3, <1>4, FlagsAreFinite, FiniteTasks, ZenonT(30)

\* The two parts are numbers, before and after a step.
LEMMA LoadTypes ==
  ASSUME MTypeOK, MTypeOK', NEW t \in Task
  PROVE  /\ OnWay(t) \in Nat /\ OnWay(t)' \in Nat /\ Held(t) \in Nat /\ Held(t)' \in Nat
         /\ pending[t] \in Int /\ pending'[t] \in Int
<1>1. OnWay(t) \in Nat /\ Held(t) \in Nat /\ pending[t] \in Int
  BY CountTypes DEF OnWay, Held
<1>2. OnWay(t)' \in Nat /\ Held(t)' \in Nat /\ pending'[t] \in Int
  BY CountTypesNext DEF OnWay, Held
<1>. QED
  BY <1>1, <1>2, Zenon

\* EventsAreCounted is Counted of every process.
LEMMA CountedIsEvents ==
  /\ MTypeOK => (EventsAreCounted <=> \A t \in Task : Counted(t))
  /\ MTypeOK' => (EventsAreCounted' <=> \A t \in Task : Counted(t)')
<1>1. ASSUME MTypeOK, NEW t \in Task
      PROVE  OnWay(t) + Held(t)
               = Cardinality(ErrFor(t)) + Cardinality(ReexFor(t))
                 + Cardinality(FlyTo(t)) + Len(queue[t]) + handled[t]
  BY <1>1, CountTypes DEF OnWay, Held
<1>2. ASSUME MTypeOK', NEW t \in Task
      PROVE  OnWay(t)' + Held(t)'
               = Cardinality(ErrFor(t)') + Cardinality(ReexFor(t)')
                 + Cardinality(FlyTo(t)') + Len(queue'[t]) + handled'[t]
  BY <1>2, CountTypesNext DEF OnWay, Held
<1>. QED
  BY <1>1, <1>2, Zenon DEF EventsAreCounted, Counted

\* A process is still covered when its counter changes with what it stands for.
LEMMA CountKeeps ==
  ASSUME MTypeOK, MTypeOK', NEW u \in Task, Counted(u),
         ~lost'[u] => ~lost[u],
         pending'[u] + OnWay(u) + Held(u) >= pending[u] + OnWay(u)' + Held(u)'
  PROVE  Counted(u)'
<1>1. ASSUME ~lost'[u] PROVE pending'[u] >= OnWay(u)' + Held(u)'
  <2>1. pending[u] >= OnWay(u) + Held(u)
    BY <1>1, Zenon DEF Counted
  <2>. QED
    BY <2>1, LoadTypes
<1>. QED
  BY <1>1, Zenon DEF Counted

\* What is on its way does not grow when no bit and no post is added.
LEMMA OnWayShrinks ==
  ASSUME MTypeOK, MTypeOK', NEW u \in Task,
         ErrFor(u)' \subseteq ErrFor(u), ReexFor(u)' \subseteq ReexFor(u),
         FlyTo(u)' \subseteq FlyTo(u)
  PROVE  OnWay(u)' <= OnWay(u)
<1>1. /\ Cardinality(ErrFor(u)') <= Cardinality(ErrFor(u))
      /\ Cardinality(ReexFor(u)') <= Cardinality(ReexFor(u))
      /\ Cardinality(FlyTo(u)') <= Cardinality(FlyTo(u))
  BY CountTypes, FS_Subset, Zenon
<1>. QED
  BY <1>1, CountTypes, CountTypesNext DEF OnWay

\* A process no event is added to, and whose handlers do not change, is still covered.
LEMMA CountStay ==
  ASSUME MTypeOK, MTypeOK', NEW u \in Task, Counted(u),
         lost'[u] = lost[u], pending'[u] = pending[u],
         errFlag' \subseteq errFlag, reexFlag' \subseteq reexFlag,
         \A s \in Task : fly'[s] = u => fly[s] = u,
         queue'[u] = queue[u], handled'[u] = handled[u]
  PROVE  Counted(u)'
<1>1. /\ ErrFor(u)' \subseteq ErrFor(u) /\ ReexFor(u)' \subseteq ReexFor(u)
      /\ FlyTo(u)' \subseteq FlyTo(u)
  BY Zenon DEF ErrFor, ReexFor, FlyTo
<1>2. OnWay(u)' <= OnWay(u)
  BY <1>1, OnWayShrinks, Zenon
<1>3. Held(u)' = Held(u)
  BY Zenon DEF Held
<1>4. pending'[u] + OnWay(u) + Held(u) >= pending[u] + OnWay(u)' + Held(u)'
  BY <1>2, <1>3, LoadTypes
<1>. QED
  BY <1>4, CountKeeps, Zenon

----------------------------------------------------------------------------
(* The counter covers what it stands for                                    *)

CountAll == \A u \in Task : Counted(u)

\* Every step keeps every process covered.
LEMMA CountStep == TInv /\ MTypeOK' /\ CountAll /\ [MNext]_mvars => CountAll'

\* A handler is pushed and counted (LocalSetMailBox): the process is still covered.
<0>CountPush.
  ASSUME MTypeOK, MTypeOK', NEW u \in Task, Counted(u),
         lost' = lost, pending'[u] = pending[u] + 1,
         errFlag' \subseteq errFlag, reexFlag' = reexFlag, fly' = fly,
         NEW h \in Handlers, queue'[u] = Append(queue[u], h), handled' = handled
  PROVE  Counted(u)'
  <1> USE <0>CountPush
  <1>1. /\ ErrFor(u)' \subseteq ErrFor(u) /\ ReexFor(u)' \subseteq ReexFor(u)
        /\ FlyTo(u)' \subseteq FlyTo(u)
    BY Zenon DEF ErrFor, ReexFor, FlyTo
  <1>2. OnWay(u)' <= OnWay(u)
    BY <1>1, OnWayShrinks, Zenon
  <1>3. queue[u] \in Seq(Handlers)
    BY Zenon DEF MTypeOK
  <1>4. Len(queue'[u]) = Len(queue[u]) + 1
    BY <1>3, PushKeeps, Zenon
  <1>5. Len(queue[u]) \in Nat /\ handled[u] \in Nat /\ handled'[u] = handled[u]
    BY CountTypes, Zenon
  <1>6. Held(u)' = Held(u) + 1
    BY <1>4, <1>5 DEF Held
  <1>7. pending'[u] + OnWay(u) + Held(u) >= pending[u] + OnWay(u)' + Held(u)'
    BY <1>2, <1>6, LoadTypes
  <1>. QED
    BY <1>7, CountKeeps, Zenon

\* The first epoch of a post counts it at the receiver: the receiver is still covered.
<0>CountPost.
  ASSUME MTypeOK, MTypeOK', NEW t \in Task, NEW u \in Task, Counted(u),
         lost' = lost, pending'[u] = pending[u] + 1,
         UNCHANGED <<errFlag, reexFlag, queue, handled>>,
         fly' = [fly EXCEPT ![t] = u]
  PROVE  Counted(u)'
  <1> USE <0>CountPost
  <1>1. ErrFor(u)' = ErrFor(u) /\ ReexFor(u)' = ReexFor(u)
    BY Zenon DEF ErrFor, ReexFor
  <1>2. FlyTo(u)' = FlyTo(u) \cup {t}
    <2>1. \A s \in Task : fly'[s] = IF s = t THEN u ELSE fly[s]
      BY ZenonT(30) DEF MTypeOK
    <2>. QED
      BY <2>1, Zenon DEF FlyTo
  <1>3. IsFiniteSet(FlyTo(u)) /\ Cardinality(FlyTo(u)) \in Nat
    BY CountTypes, Zenon
  <1>4. Cardinality(FlyTo(u) \cup {t})
          = IF t \in FlyTo(u) THEN Cardinality(FlyTo(u)) ELSE Cardinality(FlyTo(u)) + 1
    BY <1>3, FS_AddElement, Zenon
  <1>5. Cardinality(FlyTo(u)') <= Cardinality(FlyTo(u)) + 1
    BY <1>2, <1>3, <1>4
  <1>6. OnWay(u)' <= OnWay(u) + 1
    BY <1>1, <1>5, CountTypes, CountTypesNext DEF OnWay
  <1>7. Held(u)' = Held(u)
    BY Zenon DEF Held
  <1>8. pending'[u] + OnWay(u) + Held(u) >= pending[u] + OnWay(u)' + Held(u)'
    BY <1>6, <1>7, LoadTypes
  <1>. QED
    BY <1>8, CountKeeps, Zenon

\* The second epoch turns a post into a bit of the receiver's mailbox.
<0>CountLand.
  ASSUME MTypeOK, MTypeOK', NEW t \in Task, NEW u \in Task, Counted(u), fly[t] = u,
         UNCHANGED <<lost, pending, queue, handled>>,
         fly' = [fly EXCEPT ![t] = NoTask],
         NEW p \in Shared \X Task,
         \/ errFlag' = errFlag \cup {p} /\ reexFlag' = reexFlag
         \/ reexFlag' = reexFlag \cup {p} /\ errFlag' = errFlag
  PROVE  Counted(u)'
  <1> USE <0>CountLand
  <1>1. FlyTo(u)' = FlyTo(u) \ {t} /\ t \in FlyTo(u)
    BY LevelFacts, Zenon DEF FlyTo, MTypeOK
  <1>2. /\ IsFiniteSet(ErrFor(u)) /\ IsFiniteSet(ReexFor(u)) /\ IsFiniteSet(FlyTo(u))
        /\ Cardinality(ErrFor(u)) \in Nat /\ Cardinality(ReexFor(u)) \in Nat
        /\ Cardinality(FlyTo(u)) \in Nat
    BY CountTypes, Zenon
  <1>3. Cardinality(FlyTo(u)') = Cardinality(FlyTo(u)) - 1
    <2>1. IsFiniteSet(FlyTo(u)) /\ t \in FlyTo(u)
      BY <1>1, <1>2, Zenon
    <2>2. Cardinality(FlyTo(u) \ {t}) = Cardinality(FlyTo(u)) - 1
      BY <2>1, FS_RemoveElement, Zenon
    <2>. QED
      BY <1>1, <2>2, Zenon
  <1>4. Cardinality(ErrFor(u)') + Cardinality(ReexFor(u)')
          <= Cardinality(ErrFor(u)) + Cardinality(ReexFor(u)) + 1
    <2>1. CASE errFlag' = errFlag \cup {p} /\ reexFlag' = reexFlag
      <3>1. ReexFor(u)' = ReexFor(u) /\ ErrFor(u)' \subseteq ErrFor(u) \cup {p}
        BY <2>1, Zenon DEF ErrFor, ReexFor
      <3>2. /\ IsFiniteSet(ErrFor(u) \cup {p})
            /\ Cardinality(ErrFor(u) \cup {p})
                 = IF p \in ErrFor(u) THEN Cardinality(ErrFor(u)) ELSE Cardinality(ErrFor(u)) + 1
        BY <1>2, FS_AddElement, Zenon
      <3>3. Cardinality(ErrFor(u)') <= Cardinality(ErrFor(u) \cup {p})
        BY <3>1, <3>2, FS_Subset, ZenonT(30)
      <3>4. Cardinality(ErrFor(u)') \in Nat
        BY CountTypesNext, Zenon
      <3>5. Cardinality(ErrFor(u)') <= Cardinality(ErrFor(u)) + 1
        BY <1>2, <3>2, <3>3, <3>4
      <3>. QED
        BY <1>2, <3>1, <3>4, <3>5
    <2>2. CASE reexFlag' = reexFlag \cup {p} /\ errFlag' = errFlag
      <3>1. ErrFor(u)' = ErrFor(u) /\ ReexFor(u)' \subseteq ReexFor(u) \cup {p}
        BY <2>2, Zenon DEF ErrFor, ReexFor
      <3>2. /\ IsFiniteSet(ReexFor(u) \cup {p})
            /\ Cardinality(ReexFor(u) \cup {p})
                 = IF p \in ReexFor(u) THEN Cardinality(ReexFor(u))
                                       ELSE Cardinality(ReexFor(u)) + 1
        BY <1>2, FS_AddElement, Zenon
      <3>3. Cardinality(ReexFor(u)') <= Cardinality(ReexFor(u) \cup {p})
        BY <3>1, <3>2, FS_Subset, ZenonT(30)
      <3>4. Cardinality(ReexFor(u)') \in Nat
        BY CountTypesNext, Zenon
      <3>5. Cardinality(ReexFor(u)') <= Cardinality(ReexFor(u)) + 1
        BY <1>2, <3>2, <3>3, <3>4
      <3>. QED
        BY <1>2, <3>1, <3>4, <3>5
    <2>. QED
      BY <2>1, <2>2, Zenon
  <1>5. OnWay(u)' <= OnWay(u)
    <2>1. Cardinality(ErrFor(u)') \in Nat /\ Cardinality(ReexFor(u)') \in Nat
      BY CountTypesNext, Zenon
    <2>. QED
      BY <1>2, <1>3, <1>4, <2>1 DEF OnWay
  <1>6. Held(u)' = Held(u)
    BY Zenon DEF Held
  <1>7. pending'[u] + OnWay(u) + Held(u) >= pending[u] + OnWay(u)' + Held(u)'
    BY <1>5, <1>6, LoadTypes
  <1>. QED
    BY <1>7, CountKeeps, Zenon

\* ReadMailBox turns a bit into a handler of the FIFO, or into a handled event.
<0>CountRead.
  ASSUME MTypeOK, MTypeOK', NEW u \in Task, Counted(u), UNCHANGED <<lost, pending, fly>>,
         \/ /\ \E p \in ErrFor(u) : errFlag' = errFlag \ {p}
            /\ reexFlag' = reexFlag
         \/ /\ \E p \in ReexFor(u) : reexFlag' = reexFlag \ {p}
            /\ errFlag' = errFlag,
         Held(u)' = Held(u) + 1
  PROVE  Counted(u)'
  <1> USE <0>CountRead
  <1>1. FlyTo(u)' = FlyTo(u)
    BY Zenon DEF FlyTo
  <1>2. /\ IsFiniteSet(ErrFor(u)) /\ IsFiniteSet(ReexFor(u))
        /\ Cardinality(ErrFor(u)) \in Nat /\ Cardinality(ReexFor(u)) \in Nat
        /\ Cardinality(FlyTo(u)) \in Nat
    BY CountTypes, Zenon
  <1>3. ASSUME NEW p \in ErrFor(u), errFlag' = errFlag \ {p}, reexFlag' = reexFlag
        PROVE  OnWay(u)' = OnWay(u) - 1
    <2>1. ErrFor(u)' = ErrFor(u) \ {p} /\ ReexFor(u)' = ReexFor(u)
      BY <1>3, Zenon DEF ErrFor, ReexFor
    <2>2. Cardinality(ErrFor(u)') = Cardinality(ErrFor(u)) - 1
      BY <1>2, <2>1, FS_RemoveElement, ZenonT(30)
    <2>. QED
      BY <1>1, <1>2, <2>1, <2>2 DEF OnWay
  <1>4. ASSUME NEW p \in ReexFor(u), reexFlag' = reexFlag \ {p}, errFlag' = errFlag
        PROVE  OnWay(u)' = OnWay(u) - 1
    <2>1. ReexFor(u)' = ReexFor(u) \ {p} /\ ErrFor(u)' = ErrFor(u)
      BY <1>4, Zenon DEF ErrFor, ReexFor
    <2>2. Cardinality(ReexFor(u)') = Cardinality(ReexFor(u)) - 1
      BY <1>2, <2>1, FS_RemoveElement, ZenonT(30)
    <2>. QED
      BY <1>1, <1>2, <2>1, <2>2 DEF OnWay
  <1>5. OnWay(u)' = OnWay(u) - 1
    BY <1>3, <1>4, Zenon
  <1>6. pending'[u] + OnWay(u) + Held(u) >= pending[u] + OnWay(u)' + Held(u)'
    BY <1>5, LoadTypes
  <1>. QED
    BY <1>6, CountKeeps, ZenonT(30)

\* A handler that has run becomes a handled event.
<0>CountPop.
  ASSUME MTypeOK, MTypeOK', NEW t \in Task, NEW u \in Task, Counted(u),
         UNCHANGED <<lost, pending, errFlag, reexFlag, fly>>,
         queue[t] # <<>>, PopHandled(t)
  PROVE  Counted(u)'
  <1> USE <0>CountPop
  <1>1. CASE u # t
    BY <1>1, CountStay, ZenonT(30) DEF PopHandled, MTypeOK
  <1>2. CASE u = t
    <2>1. OnWay(t)' = OnWay(t)
      BY Zenon DEF OnWay, ErrFor, ReexFor, FlyTo
    <2>2. /\ queue'[t] = Tail(queue[t]) /\ queue[t] \in Seq(Handlers)
          /\ handled'[t] = handled[t] + 1
      BY Zenon DEF PopHandled, MTypeOK
    <2>3. Len(queue'[t]) = Len(queue[t]) - 1
      BY <2>2, PopKeeps, Zenon
    <2>4. Held(t)' = Held(t)
      BY <2>2, <2>3, CountTypes DEF Held
    <2>5. pending'[t] + OnWay(t) + Held(t) >= pending[t] + OnWay(t)' + Held(t)'
      BY <2>1, <2>4, LoadTypes
    <2>. QED
      BY <1>2, <2>5, CountKeeps, Zenon
  <1>. QED
    BY <1>1, <1>2, Zenon

\* Sending keeps every process covered.
<0>CountSend.
  ASSUME TInv, MTypeOK', CountAll, NEW t \in Task,
         Detect(t) \/ Assert(t) \/ RemoteSetFlag(t)
  PROVE  CountAll'
  <1> USE <0>CountSend
  <1> USE DEF TInv
  <1>1. ASSUME RemoteSetFlag(t), NEW u \in Task PROVE Counted(u)'
    <2>1. at[t] \in Shared /\ fly[t] = HeadOf[at[t]] /\ fly[t] \in Task
      BY <1>1, LevelFacts, Zenon DEF RemoteSetFlag, CallState, CallOK
    <2>2. /\ UNCHANGED <<lost, pending, queue, handled>> /\ reexFlag' = reexFlag
          /\ fly' = [fly EXCEPT ![t] = NoTask] /\ errFlag' = errFlag \cup {<<at[t], t>>}
      BY <1>1, Zenon DEF RemoteSetFlag, posts
    <2>3. CASE u = fly[t]
      <3>1. <<at[t], t>> \in Shared \X Task
        BY <2>1, Zenon
      <3>. QED
        BY <2>2, <2>3, <3>1, <0>CountLand, ZenonT(30) DEF CountAll
    <2>4. CASE u # fly[t]
      <3>1. ErrFor(u)' = ErrFor(u)
        BY <2>1, <2>2, <2>4 DEF ErrFor
      <3>2. ReexFor(u)' = ReexFor(u)
        BY <2>2, Zenon DEF ReexFor
      <3>3. \A s \in Task : fly'[s] = IF s = t THEN NoTask ELSE fly[s]
        BY <2>2, Zenon DEF MTypeOK
      <3>4. FlyTo(u)' = FlyTo(u)
        BY <2>4, <3>3, LevelFacts, Zenon DEF FlyTo
      <3>5. OnWay(u)' = OnWay(u) /\ Held(u)' = Held(u)
        BY <2>2, <3>1, <3>2, <3>4, ZenonT(30) DEF OnWay, Held
      <3>. QED
        BY <2>2, <3>5, Zenon DEF CountAll, Counted
    <2>. QED
      BY <2>3, <2>4, Zenon
  <1>2. ASSUME Detect(t) \/ Assert(t), NEW u \in Task PROVE Counted(u)'
    <2>1. Fails(t) /\ OneReport(t)
      BY <1>2, FindsError, Zenon
    <2>2. lost' = lost
      BY <2>1, Zenon DEF Fails
    <2>3. ASSUME NEW c \in Shared, LocalSetMailBox(t, c) PROVE Counted(u)'
      <3> DEFINE err == [ev |-> "ErrorOccurred", cd |-> c]
      <3>1. err \in Handlers
        BY Zenon DEF Handlers
      <3> HIDE DEF err
      <3>2. /\ pending' = [pending EXCEPT ![t] = @ + 1] /\ errFlag' \subseteq errFlag
            /\ queue' = [queue EXCEPT ![t] = Append(@, err)]
            /\ UNCHANGED <<reexFlag, fly, handled>>
        BY <2>3, Zenon DEF LocalSetMailBox, err
      <3>3. CASE u = t
        <4>1. pending'[u] = pending[u] + 1 /\ queue'[u] = Append(queue[u], err)
          BY <3>2, <3>3, Zenon DEF MTypeOK
        <4>. QED
          BY <2>2, <3>1, <3>2, <4>1, <0>CountPush, ZenonT(30) DEF CountAll
      <3>4. CASE u # t
        <4>1. pending'[u] = pending[u] /\ queue'[u] = queue[u]
          BY <3>2, <3>4, ZenonT(30) DEF MTypeOK
        <4>. QED
          BY <2>2, <3>2, <4>1, CountStay, ZenonT(30) DEF CountAll
      <3>. QED
        BY <3>3, <3>4, Zenon
    <2>4. ASSUME NEW c \in Shared, RemoteSetMailBox(t, c) PROVE Counted(u)'
      <3>1. /\ pending' = [pending EXCEPT ![HeadOf[c]] = @ + 1]
            /\ fly' = [fly EXCEPT ![t] = HeadOf[c]]
            /\ UNCHANGED <<errFlag, reexFlag, queue, handled>>
        BY <2>4, Zenon DEF RemoteSetMailBox, flags
      <3>2. CASE u = HeadOf[c]
        <4>1. pending'[u] = pending[u] + 1
          BY <3>1, <3>2, ZenonT(30) DEF MTypeOK
        <4>. QED
          BY <2>2, <3>1, <3>2, <4>1, <0>CountPost, ZenonT(30) DEF CountAll
      <3>3. CASE u # HeadOf[c]
        <4>1. pending'[u] = pending[u] /\ \A s \in Task : fly'[s] = u => fly[s] = u
          BY <3>1, <3>3, ZenonT(30) DEF MTypeOK
        <4>. QED
          BY <2>2, <3>1, <4>1, CountStay, ZenonT(30) DEF CountAll
      <3>. QED
        BY <3>2, <3>3, Zenon
    <2>5. CASE NoMailBox(t)
      <3>1. UNCHANGED <<pending, errFlag, reexFlag, fly, queue, handled>>
        BY <2>5, Zenon DEF NoMailBox, flags
      <3>. QED
        BY <1>2, <2>2, <3>1, CountStay, ZenonT(30) DEF CountAll
    <2>. QED
      BY <2>1, <2>3, <2>4, <2>5, Zenon DEF OneReport
  <1>. QED
    BY <1>1, <1>2, Zenon DEF CountAll

\* Reading the mailboxes keeps every process covered.
<0>CountReadStep.
  ASSUME TInv, MTypeOK', CountAll, NEW t \in Task, ReadMailBox(t)
  PROVE  CountAll'
  <1> USE <0>CountReadStep
  <1> USE DEF TInv
  <1> DEFINE c == at[t]
             s == Lowest(todo[t])
             err == [ev |-> "ErrorOccurred", cd |-> c]
             reex == [ev |-> "AllReexecute", cd |-> c]
  <1>1. c \in Shared /\ s \in todo[t] /\ todo[t] \in SUBSET Task
    <2>1. at[t] \in Shared /\ todo[t] # {} /\ todo[t] \in SUBSET Task
      BY ZenonT(30) DEF ReadMailBox, CallState, CallOK, MTypeOK
    <2>. QED
      BY <2>1, HasLowest, Zenon
  <1>2. /\ IsHead(t, c) => <<c, s>> \in errFlag /\ HeadOf[c] = t
        /\ ~IsHead(t, c) => <<c, t>> \in reexFlag
    BY <1>1, Zenon DEF ReadMailBox, CallState, CallOK, IsHead
  <1>3. err \in Handlers /\ reex \in Handlers
    BY <1>1, Zenon DEF Handlers
  <1> HIDE DEF c, s, err, reex
  <1>4. UNCHANGED <<lost, pending, fly>>
    BY Zenon DEF ReadMailBox, posts
  <1>5. errFlag' \subseteq errFlag /\ reexFlag' \subseteq reexFlag
    BY Zenon DEF ReadMailBox
  <1>6. \/ /\ handled' = [handled EXCEPT ![t] = @ + 1] /\ queue' = queue
        \/ /\ handled' = handled
           /\ \/ queue' = [queue EXCEPT ![t] = Append(@, err)]
              \/ queue' = [queue EXCEPT ![t] = Append(@, reex)]
    BY Zenon DEF ReadMailBox, c, err, reex
  <1>7. Counted(t)'
    <2>1. \/ (\E p \in ErrFor(t) : errFlag' = errFlag \ {p}) /\ reexFlag' = reexFlag
          \/ (\E p \in ReexFor(t) : reexFlag' = reexFlag \ {p}) /\ errFlag' = errFlag
      <3>1. CASE IsHead(t, c)
        <4>1. errFlag' = errFlag \ {<<c, s>>} /\ reexFlag' = reexFlag
          BY <3>1, Zenon DEF ReadMailBox, c, s
        <4>2. <<c, s>> \in ErrFor(t)
          BY <1>2, <3>1, Zenon DEF ErrFor
        <4>. QED
          BY <4>1, <4>2, Zenon
      <3>2. CASE ~IsHead(t, c)
        <4>1. reexFlag' = reexFlag \ {<<c, t>>} /\ errFlag' = errFlag
          BY <3>2, Zenon DEF ReadMailBox, c, s
        <4>2. <<c, t>> \in ReexFor(t)
          BY <1>2, <3>2, ZenonT(30) DEF ReexFor
        <4>. QED
          BY <4>1, <4>2, ZenonT(30)
      <3>. QED
        BY <3>1, <3>2, ZenonT(30)
    <2>2. /\ queue[t] \in Seq(Handlers) /\ queue \in [Task -> Seq(Handlers)]
          /\ handled \in [Task -> Nat]
      BY Zenon DEF MTypeOK
    <2>3. Len(Append(queue[t], err)) = Len(queue[t]) + 1
      BY <1>3, <2>2, PushKeeps, ZenonT(30)
    <2>4. Len(Append(queue[t], reex)) = Len(queue[t]) + 1
      BY <1>3, <2>2, PushKeeps, ZenonT(30)
    <2>5. Len(queue[t]) \in Nat /\ handled[t] \in Nat
      BY CountTypes, Zenon
    <2>6. \/ Len(queue'[t]) = Len(queue[t]) /\ handled'[t] = handled[t] + 1
          \/ Len(queue'[t]) = Len(queue[t]) + 1 /\ handled'[t] = handled[t]
      BY <1>6, <2>2, <2>3, <2>4, Zenon
    <2>7. Held(t)' = Held(t) + 1
      <3>1. \A m, n \in Nat : (m + 1) + n = (m + n) + 1 /\ m + (n + 1) = (m + n) + 1
        OBVIOUS
      <3>2. Len(queue'[t]) + handled'[t] = (Len(queue[t]) + handled[t]) + 1
        BY <2>5, <2>6, <3>1, ZenonT(30)
      <3>. QED
        BY <3>2, Zenon DEF Held
    <2>. QED
      BY <1>4, <2>1, <2>7, <0>CountRead, ZenonT(30) DEF CountAll
  <1>8. ASSUME NEW u \in Task, u # t PROVE Counted(u)'
    <2>1. queue'[u] = queue[u] /\ handled'[u] = handled[u]
      BY <1>6, <1>8, Zenon DEF MTypeOK
    <2>. QED
      BY <1>4, <1>5, <2>1, CountStay, Zenon DEF CountAll
  <1>. QED
    BY <1>7, <1>8, ZenonT(30) DEF CountAll

\* The handlers, the broadcast and the decrement keep every process covered.
<0>CountHandle.
  ASSUME TInv, MTypeOK', CountAll, NEW t \in Task,
         \/ HandleAllReexecute(t) \/ HandleErrorOccurred(t) \/ Broadcast(t)
         \/ BroadcastFlag(t) \/ BroadcastEnd(t) \/ DecPendingCounter(t)
  PROVE  CountAll'
  <1> USE <0>CountHandle
  <1> USE DEF TInv
  <1>1. CASE HandleAllReexecute(t) \/ BroadcastEnd(t)
    <2>1. /\ UNCHANGED <<lost, pending, errFlag, reexFlag, fly>>
          /\ queue[t] # <<>> /\ PopHandled(t)
      BY <1>1, Zenon DEF HandleAllReexecute, BroadcastEnd, CallState, CallOK, flags, ctl, posts
    <2>. QED
      BY <2>1, <0>CountPop, Zenon DEF CountAll
  <1>2. CASE HandleErrorOccurred(t)
    <2>1. UNCHANGED <<lost, pending, errFlag, reexFlag, fly>> /\ queue[t] # <<>>
      BY <1>2, Zenon DEF HandleErrorOccurred, flags, posts
    <2>2. UNCHANGED <<queue, handled>> \/ PopHandled(t)
      BY <1>2, Zenon DEF HandleErrorOccurred
    <2>3. CASE UNCHANGED <<queue, handled>>
      BY <2>1, <2>3, CountStay, Zenon DEF CountAll
    <2>4. CASE PopHandled(t)
      BY <2>1, <2>4, <0>CountPop, Zenon DEF CountAll
    <2>. QED
      BY <2>2, <2>3, <2>4, ZenonT(30)
  <1>3. CASE Broadcast(t)
    <2> DEFINE i == Lowest(todo[t])
               reex == [ev |-> "AllReexecute", cd |-> at[t]]
    <2>1. i \in Task
      <3>1. todo[t] # {} /\ todo[t] \in SUBSET Task
        BY <1>3, Zenon DEF Broadcast, MTypeOK
      <3>. QED
        BY <3>1, HasLowest, Zenon
    <2>2. reex \in Handlers
      BY <1>3, Zenon DEF Broadcast, CallState, CallOK, Handlers
    <2> HIDE DEF i, reex
    <2>3. /\ pending' = [pending EXCEPT ![i] = @ + 1]
          /\ UNCHANGED <<lost, errFlag, reexFlag, handled>>
          /\ \/ i = t /\ queue' = [queue EXCEPT ![t] = Append(@, reex)] /\ fly' = fly
             \/ i # t /\ queue' = queue /\ fly' = [fly EXCEPT ![t] = i]
      BY <1>3, Zenon DEF Broadcast, i, reex, flags, posts
    <2>4. ASSUME NEW u \in Task, u = i PROVE Counted(u)'
      <3>1. pending'[u] = pending[u] + 1
        BY <2>3, <2>4, ZenonT(30) DEF MTypeOK
      <3>2. CASE i = t
        <4>1. queue'[u] = Append(queue[u], reex)
          BY <2>3, <2>4, <3>2, ZenonT(30) DEF MTypeOK
        <4>. QED
          BY <2>2, <2>3, <3>1, <3>2, <4>1, <0>CountPush, ZenonT(30) DEF CountAll
      <3>3. CASE i # t
        BY <2>3, <2>4, <3>1, <3>3, <0>CountPost, ZenonT(30) DEF CountAll
      <3>. QED
        BY <3>2, <3>3, Zenon
    <2>5. ASSUME NEW u \in Task, u # i PROVE Counted(u)'
      <3>1. pending'[u] = pending[u]
        BY <2>3, <2>5, ZenonT(30) DEF MTypeOK
      <3>2. queue'[u] = queue[u]
        BY <2>3, <2>5, ZenonT(30) DEF MTypeOK
      <3>3. \A s \in Task : fly'[s] = u => fly[s] = u
        BY <2>3, <2>5, ZenonT(30) DEF MTypeOK
      <3>. QED
        BY <2>3, <3>1, <3>2, <3>3, CountStay, ZenonT(30) DEF CountAll
    <2>. QED
      BY <2>4, <2>5, Zenon DEF CountAll
  <1>4. CASE BroadcastFlag(t)
    <2>1. at[t] \in Shared /\ fly[t] \in Task
      <3>1. fly[t] \in Task \cup {NoTask}
        BY Zenon DEF MTypeOK
      <3>. QED
        BY <1>4, <3>1, Zenon DEF BroadcastFlag, CallState, CallOK
    <2>2. /\ UNCHANGED <<lost, pending, queue, handled>> /\ errFlag' = errFlag
          /\ fly' = [fly EXCEPT ![t] = NoTask]
          /\ reexFlag' = reexFlag \cup {<<at[t], fly[t]>>}
      BY <1>4, Zenon DEF BroadcastFlag, posts
    <2>3. ASSUME NEW u \in Task, u = fly[t] PROVE Counted(u)'
      <3>1. <<at[t], fly[t]>> \in Shared \X Task
        BY <2>1, Zenon
      <3>. QED
        BY <2>1, <2>2, <2>3, <3>1, <0>CountLand, ZenonT(30) DEF CountAll
    <2>4. ASSUME NEW u \in Task, u # fly[t] PROVE Counted(u)'
      <3>1. ErrFor(u)' = ErrFor(u)
        BY <2>2, Zenon DEF ErrFor
      <3>2. ReexFor(u)' = ReexFor(u)
        <4>1. \A p \in reexFlag' : p \notin reexFlag => p[2] # u
          BY <2>2, <2>4
        <4>2. ReexFor(u)' = {p \in reexFlag' : p[2] = u} /\ ReexFor(u) = {p \in reexFlag : p[2] = u}
          BY Zenon DEF ReexFor
        <4>. QED
          BY <2>2, <4>1, <4>2, Zenon
      <3>3. \A s \in Task : fly'[s] = IF s = t THEN NoTask ELSE fly[s]
        BY <2>2, Zenon DEF MTypeOK
      <3>4. FlyTo(u)' = FlyTo(u)
        BY <2>4, <3>3, LevelFacts, ZenonT(30) DEF FlyTo
      <3>5. OnWay(u)' = OnWay(u) /\ Held(u)' = Held(u)
        BY <2>2, <3>1, <3>2, <3>4, ZenonT(30) DEF OnWay, Held
      <3>. QED
        BY <2>2, <3>5, Zenon DEF CountAll, Counted
    <2>. QED
      BY <2>3, <2>4, Zenon DEF CountAll
  <1>5. CASE DecPendingCounter(t)
    <2>1. UNCHANGED <<lost, errFlag, reexFlag, fly, queue>>
      BY <1>5, Zenon DEF DecPendingCounter, flags, posts
    <2>2. \/ UNCHANGED <<pending, handled>>
          \/ /\ pending' = [pending EXCEPT ![t] = @ - handled[t]]
             /\ handled' = [handled EXCEPT ![t] = 0]
      BY <1>5, Zenon DEF DecPendingCounter
    <2>3. ASSUME NEW u \in Task, u # t PROVE Counted(u)'
      <3>1. pending'[u] = pending[u] /\ handled'[u] = handled[u]
        BY <2>2, <2>3, ZenonT(30) DEF MTypeOK
      <3>. QED
        BY <2>1, <3>1, CountStay, ZenonT(30) DEF CountAll
    <2>4. Counted(t)'
      <3>1. OnWay(t)' = OnWay(t)
        BY <2>1, Zenon DEF OnWay, ErrFor, ReexFor, FlyTo
      <3>2. Len(queue[t]) \in Nat /\ handled[t] \in Nat /\ pending[t] \in Int
        BY CountTypes, Zenon
      <3>3. \/ pending'[t] = pending[t] /\ handled'[t] = handled[t]
            \/ pending'[t] = pending[t] - handled[t] /\ handled'[t] = 0
        BY <2>2, Zenon DEF MTypeOK
      <3>4. pending'[t] + Held(t) = pending[t] + Held(t)'
        BY <2>1, <3>2, <3>3 DEF Held
      <3>5. pending'[t] + OnWay(t) + Held(t) >= pending[t] + OnWay(t)' + Held(t)'
        BY <3>1, <3>4, LoadTypes
      <3>. QED
        BY <2>1, <3>5, CountKeeps, Zenon DEF CountAll
    <2>. QED
      BY <2>3, <2>4, Zenon DEF CountAll
  <1>. QED
    BY <1>1, <1>2, <1>3, <1>4, <1>5, ZenonT(30)

\* Leaving a CD, and creating one again, keep every process covered.
<0>CountMove.
  ASSUME TInv, MTypeOK', CountAll, NEW t \in Task, Recreate(t) \/ Destroy(t)
  PROVE  CountAll'
  <1> USE <0>CountMove
  <1> USE DEF TInv
  <1>1. UNCHANGED <<queue, fly>> /\ errFlag' \subseteq errFlag /\ reexFlag' \subseteq reexFlag
    BY Zenon DEF Recreate, Destroy, Move, ctl
  <1>2. ASSUME NEW u \in Task, u # t PROVE Counted(u)'
    <2>1. pending'[u] = pending[u] /\ handled'[u] = handled[u]
      BY <1>2, Zenon DEF Recreate, Destroy, MTypeOK
    <2>2. lost'[u] = lost[u]
      <3>1. lost \in [Task -> BOOLEAN]
        BY Zenon DEF MTypeOK
      <3>2. lost' = lost \/ lost' = [lost EXCEPT ![t] = @ \/ pending[t] # 0]
        BY Zenon DEF Recreate, Destroy
      <3>. QED
        BY <1>2, <3>1, <3>2, Zenon
    <2>. QED
      BY <1>1, <2>1, <2>2, CountStay, ZenonT(30) DEF CountAll
  <1>3. CASE Recreate(t)
    <2>1. pending'[t] = 0 /\ handled' = handled
      BY <1>3, ZenonT(30) DEF Recreate, MTypeOK
    <2>2. ASSUME ~lost'[t] PROVE ~lost[t] /\ pending[t] = 0
      <3>1. lost \in [Task -> BOOLEAN]
        BY Zenon DEF MTypeOK
      <3>2. lost' = [lost EXCEPT ![t] = @ \/ pending[t] # 0]
        BY <1>3, Zenon DEF Recreate
      <3>. QED
        BY <2>2, <3>1, <3>2, ZenonT(30)
    <2>3. OnWay(t)' <= OnWay(t) /\ Held(t)' = Held(t)
      <3>1. /\ ErrFor(t)' \subseteq ErrFor(t) /\ ReexFor(t)' \subseteq ReexFor(t)
            /\ FlyTo(t)' \subseteq FlyTo(t)
        BY <1>1, Zenon DEF ErrFor, ReexFor, FlyTo
      <3>. QED
        BY <1>1, <2>1, <3>1, OnWayShrinks, ZenonT(30) DEF Held
    <2>4. ASSUME ~lost'[t] PROVE pending'[t] >= OnWay(t)' + Held(t)'
      <3>1. pending[t] = 0 /\ pending[t] >= OnWay(t) + Held(t)
        BY <2>2, <2>4, Zenon DEF CountAll, Counted
      <3>. QED
        BY <2>1, <2>3, <3>1, LoadTypes
    <2>. QED
      BY <1>2, <2>4, ZenonT(30) DEF CountAll, Counted
  <1>4. CASE Destroy(t)
    <2> DEFINE c == GetCDLevel(t, len[t])
               e == OwnErrFlags(t, c)
               r == OwnReexFlags(t, c)
    <2>1. e \subseteq ErrFor(t) /\ r \subseteq ReexFor(t)
      BY DEF OwnErrFlags, OwnReexFlags, ErrFor, ReexFor, IsHead
    <2>2. ErrFor(t)' = ErrFor(t) \ e /\ ReexFor(t)' = ReexFor(t) \ r /\ FlyTo(t)' = FlyTo(t)
      BY <1>1, <1>4, Zenon DEF Destroy, ErrFor, ReexFor, FlyTo
    <2> HIDE DEF c, e, r
    <2>3. /\ pending' = [pending EXCEPT ![t] = @ - handled[t] - Cardinality(e) - Cardinality(r)]
          /\ handled' = [handled EXCEPT ![t] = 0] /\ lost' = lost
      BY <1>4, Zenon DEF Destroy, c, e, r
    <2>4. /\ IsFiniteSet(ErrFor(t)) /\ Cardinality(ErrFor(t)) \in Nat
          /\ IsFiniteSet(ReexFor(t)) /\ Cardinality(ReexFor(t)) \in Nat
          /\ Cardinality(FlyTo(t)) \in Nat
          /\ Len(queue[t]) \in Nat /\ handled[t] \in Nat /\ pending[t] \in Int
      BY CountTypes, Zenon
    <2>5. Cardinality(e) \in Nat /\ Cardinality(r) \in Nat
      BY <2>1, <2>4, FS_Subset, FS_CardinalityType, ZenonT(30)
    <2>6. ErrFor(t) \cap e = e /\ ReexFor(t) \cap r = r
      BY <2>1, Zenon
    <2>7. /\ Cardinality(ErrFor(t)') = Cardinality(ErrFor(t)) - Cardinality(e)
          /\ Cardinality(ReexFor(t)') = Cardinality(ReexFor(t)) - Cardinality(r)
      <3>1. IsFiniteSet(ErrFor(t)) /\ IsFiniteSet(ReexFor(t))
        BY <2>4, Zenon
      <3>2. Cardinality(ErrFor(t) \ e) = Cardinality(ErrFor(t)) - Cardinality(ErrFor(t) \cap e)
        BY <3>1, FS_Difference, Zenon
      <3>3. Cardinality(ReexFor(t) \ r)
              = Cardinality(ReexFor(t)) - Cardinality(ReexFor(t) \cap r)
        BY <3>1, FS_Difference, Zenon
      <3>. QED
        BY <2>2, <2>6, <3>2, <3>3, ZenonT(30)
    <2>8. OnWay(t)' = OnWay(t) - Cardinality(e) - Cardinality(r)
      <3>1. \A a, b, k, x, y \in Nat : (a - x) + (b - y) + k = (a + b + k) - x - y
        OBVIOUS
      <3>2. /\ Cardinality(ErrFor(t)) \in Nat /\ Cardinality(ReexFor(t)) \in Nat
            /\ Cardinality(FlyTo(t)) \in Nat
        BY <2>4, Zenon
      <3>3. (Cardinality(ErrFor(t)) - Cardinality(e))
              + (Cardinality(ReexFor(t)) - Cardinality(r)) + Cardinality(FlyTo(t))
              = (Cardinality(ErrFor(t)) + Cardinality(ReexFor(t)) + Cardinality(FlyTo(t)))
                - Cardinality(e) - Cardinality(r)
        BY <2>5, <3>1, <3>2
      <3>4. Cardinality(FlyTo(t)') = Cardinality(FlyTo(t))
        BY <2>2, Zenon
      <3>. QED
        BY <2>7, <3>3, <3>4, ZenonT(30) DEF OnWay
    <2>9. pending'[t] = pending[t] - handled[t] - Cardinality(e) - Cardinality(r)
      BY <2>3, ZenonT(30) DEF MTypeOK
    <2>10. handled'[t] = 0
      BY <2>3, Zenon DEF MTypeOK
    <2>11. Held(t)' = Held(t) - handled[t]
      <3>1. Len(queue[t])' = Len(queue[t])
        BY <1>1, Zenon
      <3>2. Held(t)' = Len(queue[t]) + 0
        BY <2>10, <3>1, Zenon DEF Held
      <3>3. \A m, n \in Nat : m + 0 = (m + n) - n
        OBVIOUS
      <3>4. Len(queue[t]) \in Nat /\ handled[t] \in Nat
        BY <2>4, Zenon
      <3>5. Len(queue[t]) + 0 = (Len(queue[t]) + handled[t]) - handled[t]
        BY <3>3, <3>4, Zenon
      <3>. QED
        BY <3>2, <3>5, Zenon DEF Held
    <2>12. pending'[t] + OnWay(t) + Held(t) >= pending[t] + OnWay(t)' + Held(t)'
      <3>1. OnWay(t) \in Nat /\ Held(t) \in Nat
        BY LoadTypes, Zenon
      <3>2. \A p, h, x, y, o, q \in Int :
               (p - h - x - y) + o + q >= p + (o - x - y) + (q - h)
        OBVIOUS
      <3>3. /\ pending[t] \in Int /\ handled[t] \in Int /\ Cardinality(e) \in Int
            /\ Cardinality(r) \in Int /\ OnWay(t) \in Int /\ Held(t) \in Int
        <4>1. \A n \in Nat : n \in Int
          OBVIOUS
        <4>2. handled[t] \in Nat /\ pending[t] \in Int
          BY <2>4, Zenon
        <4>. QED
          BY <2>5, <3>1, <4>1, <4>2, ZenonT(30)
      <3>4. (pending[t] - handled[t] - Cardinality(e) - Cardinality(r)) + OnWay(t) + Held(t)
              >= pending[t] + (OnWay(t) - Cardinality(e) - Cardinality(r))
                 + (Held(t) - handled[t])
        BY <3>2, <3>3, Zenon
      <3>. QED
        BY <2>8, <2>9, <2>11, <3>4, ZenonT(30)
    <2>13. Counted(t)'
      BY <2>3, <2>12, CountKeeps, ZenonT(30) DEF CountAll
    <2>. QED
      BY <1>2, <2>13, Zenon DEF CountAll
  <1>. QED
    BY <1>3, <1>4, Zenon
<0> QED
  <1>1. ASSUME NEW t \in Task,
               \/ InternalCheckMailBox(t) \/ ScanEnd(t) \/ CheckMailBox(t)
               \/ Create(t) \/ Begin(t) \/ Complete(t) \/ SetRollbackPoint(t)
        PROVE  UNCHANGED <<lost, pending, errFlag, reexFlag, fly, queue, handled>>
    BY <1>1, Zenon DEF InternalCheckMailBox, ScanEnd, CheckMailBox, Create, Begin, Complete, Move,
                SetRollbackPoint, ctl, flags, posts
  <1>2. ASSUME UNCHANGED mvars
        PROVE  UNCHANGED <<lost, pending, errFlag, reexFlag, fly, queue, handled>>
    BY <1>2, Zenon DEF mvars
  <1>3. ASSUME TInv, MTypeOK', CountAll,
               UNCHANGED <<lost, pending, errFlag, reexFlag, fly, queue, handled>>
        PROVE  CountAll'
    BY <1>3, CountStay, Zenon DEF CountAll, TInv
  <1>. QED
    BY <1>1, <1>2, <1>3, <0>CountSend, <0>CountReadStep, <0>CountHandle, <0>CountMove, ZenonT(30)
       DEF MNext, Progress, Calls

----------------------------------------------------------------------------
(* Handled events are taken off                                             *)

\* HandledOK of a process whose call and handlers do not change.
LEMMA HandledFrame ==
  ASSUME NEW u \in Task, HandledOK(u), lost'[u] = lost[u], pc'[u] = pc[u],
         event_count'[u] = event_count[u], queue'[u] = queue[u], handled'[u] = handled[u]
  PROVE  HandledOK(u)'
BY Zenon DEF HandledOK

\* Every step of a task keeps HandledState.
LEMMA HandledStep == TInv /\ CountAll /\ DuplicateHasBroadcast /\ HandledState /\ [MNext]_mvars
                       => HandledState'
<1> SUFFICES ASSUME TInv, CountAll, DuplicateHasBroadcast, HandledState, [MNext]_mvars
             PROVE  HandledState'
  BY Zenon
<1>0. HandlerTypes /\ PathTypes /\ CallTypes /\ CallState
  BY TypeParts, Zenon DEF TInv
<1>t. MTypeOK
  BY Zenon DEF TInv
<1>1. ASSUME NEW t \in Task, RemoteSetFlag(t) PROVE HandledState'
  <2>1. ASSUME NEW u \in Task, u # t PROVE HandledOK(u)'
    <3>1. /\ lost'[u] = lost[u] /\ pc'[u] = pc[u] /\ event_count'[u] = event_count[u]
          /\ queue'[u] = queue[u] /\ handled'[u] = handled[u]
      BY <1>0, <1>1, <2>1, Zenon DEF RemoteSetFlag, posts, CallTypes, HandlerTypes
    <3>. QED
      BY <3>1, HandledFrame, Zenon DEF HandledState
  <2>2. HandledOK(t)'
    BY <1>0, <1>1, Zenon DEF RemoteSetFlag, posts, HandledState, HandledOK, CallTypes, HandlerTypes
  <2>. QED
    BY <2>1, <2>2, Zenon DEF HandledState
<1>2. ASSUME NEW t \in Task, InternalCheckMailBox(t) PROVE HandledState'
  <2>1. ASSUME NEW u \in Task, u # t PROVE HandledOK(u)'
    <3>1. /\ lost'[u] = lost[u] /\ pc'[u] = pc[u] /\ event_count'[u] = event_count[u]
          /\ queue'[u] = queue[u] /\ handled'[u] = handled[u]
      BY <1>0, <1>2, <2>1, Zenon DEF InternalCheckMailBox, posts, CallTypes, HandlerTypes
    <3>. QED
      BY <3>1, HandledFrame, Zenon DEF HandledState
  <2>2. HandledOK(t)'
    BY <1>0, <1>2, Zenon DEF InternalCheckMailBox, posts, HandledState, HandledOK, CallTypes, HandlerTypes
  <2>. QED
    BY <2>1, <2>2, Zenon DEF HandledState
<1>3. ASSUME NEW t \in Task, ScanEnd(t) PROVE HandledState'
  <2>1. ASSUME NEW u \in Task, u # t PROVE HandledOK(u)'
    <3>1. /\ lost'[u] = lost[u] /\ pc'[u] = pc[u] /\ event_count'[u] = event_count[u]
          /\ queue'[u] = queue[u] /\ handled'[u] = handled[u]
      BY <1>0, <1>3, <2>1, Zenon DEF ScanEnd, posts, CallTypes, HandlerTypes
    <3>. QED
      BY <3>1, HandledFrame, Zenon DEF HandledState
  <2>2. HandledOK(t)'
    BY <1>0, <1>3, Zenon DEF ScanEnd, posts, HandledState, HandledOK, CallTypes, HandlerTypes
  <2>. QED
    BY <2>1, <2>2, Zenon DEF HandledState
<1>4. ASSUME NEW t \in Task, HandleAllReexecute(t) PROVE HandledState'
  <2>1. ASSUME NEW u \in Task, u # t PROVE HandledOK(u)'
    <3>1. /\ lost'[u] = lost[u] /\ pc'[u] = pc[u] /\ event_count'[u] = event_count[u]
          /\ queue'[u] = queue[u] /\ handled'[u] = handled[u]
      BY <1>0, <1>4, <2>1, Zenon DEF HandleAllReexecute, PopHandled, ctl, posts, CallTypes, HandlerTypes
    <3>. QED
      BY <3>1, HandledFrame, Zenon DEF HandledState
  <2>2. HandledOK(t)'
    BY <1>0, <1>4, Zenon
       DEF HandleAllReexecute, PopHandled, ctl, posts, HandledState, HandledOK, CallTypes, HandlerTypes
  <2>. QED
    BY <2>1, <2>2, Zenon DEF HandledState
<1>5. ASSUME NEW t \in Task, HandleErrorOccurred(t) PROVE HandledState'
  <2>1. ASSUME NEW u \in Task, u # t PROVE HandledOK(u)'
    <3>1. /\ lost'[u] = lost[u] /\ pc'[u] = pc[u] /\ event_count'[u] = event_count[u]
          /\ queue'[u] = queue[u] /\ handled'[u] = handled[u]
      <4>1. UNCHANGED <<lost, event_count>>
        BY <1>5, Zenon DEF HandleErrorOccurred, posts
      <4>2. pc' = pc \/ pc' = [pc EXCEPT ![t] = "cast"]
        BY <1>5, Zenon DEF HandleErrorOccurred
      <4>3. UNCHANGED <<queue, handled>> \/ PopHandled(t)
        BY <1>5, Zenon DEF HandleErrorOccurred
      <4>4. pc'[u] = pc[u]
        BY <1>0, <2>1, <4>2, Zenon DEF CallTypes
      <4>5. queue'[u] = queue[u] /\ handled'[u] = handled[u]
        BY <1>0, <2>1, <4>3, Zenon DEF PopHandled, HandlerTypes
      <4>. QED
        BY <4>1, <4>4, <4>5, Zenon
    <3>. QED
      BY <3>1, HandledFrame, Zenon DEF HandledState
  <2>2. HandledOK(t)'
    BY <1>0, <1>5, Zenon
       DEF HandleErrorOccurred, PopHandled, posts, HandledState, HandledOK, CallTypes, HandlerTypes
  <2>. QED
    BY <2>1, <2>2, Zenon DEF HandledState
<1>6. ASSUME NEW t \in Task, Broadcast(t) PROVE HandledState'
  <2>1. ASSUME NEW u \in Task, u # t PROVE HandledOK(u)'
    <3>1. /\ lost'[u] = lost[u] /\ pc'[u] = pc[u] /\ event_count'[u] = event_count[u]
          /\ queue'[u] = queue[u] /\ handled'[u] = handled[u]
      BY <1>0, <1>6, <2>1, ZenonT(30) DEF Broadcast, posts, CallTypes, HandlerTypes
    <3>. QED
      BY <3>1, HandledFrame, Zenon DEF HandledState
  <2>2. HandledOK(t)'
    BY <1>0, <1>6, Zenon DEF Broadcast, posts, HandledState, HandledOK, CallTypes, HandlerTypes
  <2>. QED
    BY <2>1, <2>2, Zenon DEF HandledState
<1>7. ASSUME NEW t \in Task, BroadcastFlag(t) PROVE HandledState'
  <2>1. ASSUME NEW u \in Task, u # t PROVE HandledOK(u)'
    <3>1. /\ lost'[u] = lost[u] /\ pc'[u] = pc[u] /\ event_count'[u] = event_count[u]
          /\ queue'[u] = queue[u] /\ handled'[u] = handled[u]
      BY <1>0, <1>7, <2>1, Zenon DEF BroadcastFlag, posts, CallTypes, HandlerTypes
    <3>. QED
      BY <3>1, HandledFrame, Zenon DEF HandledState
  <2>2. HandledOK(t)'
    BY <1>0, <1>7, Zenon DEF BroadcastFlag, posts, HandledState, HandledOK, CallTypes, HandlerTypes
  <2>. QED
    BY <2>1, <2>2, Zenon DEF HandledState
<1>8. ASSUME NEW t \in Task, BroadcastEnd(t) PROVE HandledState'
  <2>1. ASSUME NEW u \in Task, u # t PROVE HandledOK(u)'
    <3>1. /\ lost'[u] = lost[u] /\ pc'[u] = pc[u] /\ event_count'[u] = event_count[u]
          /\ queue'[u] = queue[u] /\ handled'[u] = handled[u]
      BY <1>0, <1>8, <2>1, Zenon DEF BroadcastEnd, PopHandled, posts, CallTypes, HandlerTypes
    <3>. QED
      BY <3>1, HandledFrame, Zenon DEF HandledState
  <2>2. HandledOK(t)'
    BY <1>0, <1>8, Zenon DEF BroadcastEnd, PopHandled, posts, HandledState, HandledOK, CallTypes, HandlerTypes
  <2>. QED
    BY <2>1, <2>2, Zenon DEF HandledState
<1>9. ASSUME NEW t \in Task, DecPendingCounter(t) PROVE HandledState'
  <2>1. ASSUME NEW u \in Task, u # t PROVE HandledOK(u)'
    <3>1. /\ lost'[u] = lost[u] /\ pc'[u] = pc[u] /\ event_count'[u] = event_count[u]
          /\ queue'[u] = queue[u] /\ handled'[u] = handled[u]
      BY <1>0, <1>9, <2>1, Zenon DEF DecPendingCounter, posts, CallTypes, HandlerTypes
    <3>. QED
      BY <3>1, HandledFrame, Zenon DEF HandledState
  <2>2. HandledOK(t)'
    <3>1. ASSUME ~lost'[t] PROVE handled'[t] = 0
      <4>1. pc[t] = "drain" /\ lost' = lost
        BY <1>9, Zenon DEF DecPendingCounter, posts
      <4>2. event_count[t] # 0
        BY <3>1, <4>1, Zenon DEF HandledState, HandledOK
      <4>3. handled' = [handled EXCEPT ![t] = 0]
        BY <1>9, <4>2, Zenon DEF DecPendingCounter
      <4>. QED
        BY <1>0, <4>3, Zenon DEF HandlerTypes
    <3>2. pc'[t] \notin {"scan", "read", "drain", "cast", "castpost"}
      BY <1>0, <1>9, Zenon DEF DecPendingCounter, CallTypes
    <3>. QED
      BY <3>1, <3>2, Zenon DEF HandledOK
  <2>. QED
    BY <2>1, <2>2, Zenon DEF HandledState
<1>10. ASSUME NEW t \in Task, Create(t) PROVE HandledState'
  <2>1. ASSUME NEW u \in Task, u # t PROVE HandledOK(u)'
    <3>1. /\ lost'[u] = lost[u] /\ pc'[u] = pc[u] /\ event_count'[u] = event_count[u]
          /\ queue'[u] = queue[u] /\ handled'[u] = handled[u]
      BY <1>0, <1>10, <2>1, Zenon DEF Create, Move, ctl, CallTypes, HandlerTypes
    <3>. QED
      BY <3>1, HandledFrame, Zenon DEF HandledState
  <2>2. HandledOK(t)'
    BY <1>0, <1>10, Zenon DEF Create, Move, ctl, HandledState, HandledOK, CallTypes, HandlerTypes
  <2>. QED
    BY <2>1, <2>2, Zenon DEF HandledState
<1>11. ASSUME NEW t \in Task, Begin(t) PROVE HandledState'
  <2>1. ASSUME NEW u \in Task, u # t PROVE HandledOK(u)'
    <3>1. /\ lost'[u] = lost[u] /\ pc'[u] = pc[u] /\ event_count'[u] = event_count[u]
          /\ queue'[u] = queue[u] /\ handled'[u] = handled[u]
      BY <1>0, <1>11, <2>1, Zenon DEF Begin, Move, ctl, CallTypes, HandlerTypes
    <3>. QED
      BY <3>1, HandledFrame, Zenon DEF HandledState
  <2>2. HandledOK(t)'
    BY <1>0, <1>11, Zenon DEF Begin, Move, ctl, HandledState, HandledOK, CallTypes, HandlerTypes
  <2>. QED
    BY <2>1, <2>2, Zenon DEF HandledState
<1>12. ASSUME NEW t \in Task, Complete(t) PROVE HandledState'
  <2>1. ASSUME NEW u \in Task, u # t PROVE HandledOK(u)'
    <3>1. /\ lost'[u] = lost[u] /\ pc'[u] = pc[u] /\ event_count'[u] = event_count[u]
          /\ queue'[u] = queue[u] /\ handled'[u] = handled[u]
      BY <1>0, <1>12, <2>1, Zenon DEF Complete, Move, ctl, CallTypes, HandlerTypes
    <3>. QED
      BY <3>1, HandledFrame, Zenon DEF HandledState
  <2>2. HandledOK(t)'
    BY <1>0, <1>12, Zenon DEF Complete, Move, ctl, HandledState, HandledOK, CallTypes, HandlerTypes
  <2>. QED
    BY <2>1, <2>2, Zenon DEF HandledState
<1>13. ASSUME NEW t \in Task, Destroy(t) PROVE HandledState'
  <2>1. ASSUME NEW u \in Task, u # t PROVE HandledOK(u)'
    <3>1. /\ lost'[u] = lost[u] /\ pc'[u] = pc[u] /\ event_count'[u] = event_count[u]
          /\ queue'[u] = queue[u] /\ handled'[u] = handled[u]
      BY <1>0, <1>13, <2>1, ZenonT(30) DEF Destroy, Move, ctl, CallTypes, HandlerTypes
    <3>. QED
      BY <3>1, HandledFrame, Zenon DEF HandledState
  <2>2. HandledOK(t)'
    BY <1>0, <1>13, Zenon DEF Destroy, Move, ctl, HandledState, HandledOK, CallTypes, HandlerTypes
  <2>. QED
    BY <2>1, <2>2, Zenon DEF HandledState
<1>14. ASSUME NEW t \in Task, Recreate(t) PROVE HandledState'
  <2>1. UNCHANGED <<pc, event_count, queue, handled>>
    BY <1>0, <1>14, Zenon DEF Recreate, Move, ctl
  <2>2. ASSUME NEW u \in Task, ~lost'[u] PROVE ~lost[u]
    BY <1>0, <1>14, <2>2, ZenonT(30) DEF Recreate, PathTypes
  <2>. QED
    BY <1>0, <1>14, <2>1, <2>2, ZenonT(30) DEF HandledState, HandledOK
<1>15. ASSUME NEW t \in Task, CheckMailBox(t) PROVE HandledState'
  <2>1. ASSUME NEW u \in Task, u # t PROVE HandledOK(u)'
    <3>1. /\ lost'[u] = lost[u] /\ pc'[u] = pc[u] /\ event_count'[u] = event_count[u]
          /\ queue'[u] = queue[u] /\ handled'[u] = handled[u]
      BY <1>0, <1>15, <2>1, ZenonT(30) DEF CheckMailBox, posts, CallTypes
    <3>. QED
      BY <3>1, HandledFrame, Zenon DEF HandledState
  <2>2. ASSUME ~lost[t], queue[t] # <<>> PROVE pending[t] # 0
    <3>1. queue[t] \in Seq(Handlers)
      BY <1>0, <1>15, Zenon DEF HandlerTypes
    <3>2. Len(queue[t]) \in Nat /\ Len(queue[t]) # 0
      BY <2>2, <3>1
    <3>3. OnWay(t) \in Nat /\ handled[t] \in Nat
      <4>1. /\ Cardinality(ErrFor(t)) \in Nat /\ Cardinality(ReexFor(t)) \in Nat
            /\ Cardinality(FlyTo(t)) \in Nat /\ handled[t] \in Nat
        BY <1>t, CountTypes, Zenon
      <4>2. \A a, b, k \in Nat : a + b + k \in Nat
        OBVIOUS
      <4>. QED
        BY <4>1, <4>2, Zenon DEF OnWay
    <3>4. pending[t] >= OnWay(t) + Held(t)
      BY <2>2, Zenon DEF CountAll, Counted
    <3>. QED
      BY <3>2, <3>3, <3>4 DEF Held
  <2>3. HandledOK(t)'
    BY <1>0, <1>15, <2>2, ZenonT(30) DEF CheckMailBox, posts, HandledState, HandledOK, CallTypes
  <2>. QED
    BY <2>1, <2>3, Zenon DEF HandledState
<1>16. ASSUME NEW t \in Task, ReadMailBox(t)
       PROVE  HandledState'
  <2> DEFINE c == at[t]
             err == [ev |-> "ErrorOccurred", cd |-> c]
             reex == [ev |-> "AllReexecute", cd |-> c]
  <2>1. c \in Shared /\ pc[t] = "read" /\ (IsHead(t, c) => HeadOf[c] = t)
    BY <1>0, <1>16, Zenon DEF ReadMailBox, CallState, CallOK, IsHead
  <2>2. err \in Handlers /\ reex \in Handlers /\ queue[t] \in Seq(Handlers)
    BY <1>0, <1>16, <2>1, ZenonT(30) DEF Handlers, HandlerTypes
  <2>3. Append(queue[t], err) # <<>> /\ Append(queue[t], reex) # <<>>
    BY <2>2, PushKeeps, Zenon
  <2>4. ASSUME IsHead(t, c), errOcc[c] PROVE queue[t] # <<>>
    <3>1. \E i \in 1 .. Len(queue[t]) : TRUE
      BY <1>0, <1>16, <2>1, <2>4, ZenonT(30) DEF DuplicateHasBroadcast
    <3>. QED
      BY <3>1
  <2> HIDE DEF c, err, reex
  <2>5. /\ pc' \in {[pc EXCEPT ![t] = "scan"], [pc EXCEPT ![t] = "read"]}
        /\ UNCHANGED <<event_count, lost>>
    BY <1>0, <1>16, Zenon DEF ReadMailBox, c, posts
  <2>6. \/ IsHead(t, c) /\ errOcc[c] /\ queue' = queue
           /\ handled' = [handled EXCEPT ![t] = @ + 1]
        \/ handled' = handled /\ queue' = [queue EXCEPT ![t] = Append(@, err)]
        \/ handled' = handled /\ queue' = [queue EXCEPT ![t] = Append(@, reex)]
    BY <1>0, <1>16, Zenon DEF ReadMailBox, c, err, reex
  <2>7. ASSUME NEW u \in Task, u # t PROVE HandledOK(u)'
    <3>1. pc'[u] = pc[u]
      BY <1>0, <1>16, <2>5, <2>7, ZenonT(30) DEF CallTypes
    <3>2. queue'[u] = queue[u] /\ handled'[u] = handled[u]
      BY <1>0, <1>16, <2>6, <2>7, ZenonT(30) DEF HandlerTypes
    <3>. QED
      BY <1>16, <2>5, <3>1, <3>2, HandledFrame, ZenonT(30) DEF HandledState
  <2>8. pc'[t] \in {"scan", "read"}
    BY <1>0, <1>16, <2>5, Zenon DEF CallTypes
  <2>9. queue'[t] # <<>>
    BY <1>0, <1>16, <2>3, <2>4, <2>6, ZenonT(30) DEF HandlerTypes
  <2>10. HandledOK(t)'
    BY <1>0, <1>16, <2>1, <2>5, <2>8, <2>9, ZenonT(30) DEF HandledState, HandledOK
  <2>. QED
    BY <2>7, <2>10, Zenon DEF HandledState
<1>17. ASSUME NEW t \in Task, Detect(t) \/ Assert(t) PROVE HandledState'
  <2>1. Fails(t) /\ OneReport(t)
    BY <1>t, <1>17, FindsError, Zenon
  <2>2. /\ UNCHANGED <<lost, handled, event_count>> /\ pc[t] = "run"
        /\ pc' \in {[pc EXCEPT ![t] = "check"], [pc EXCEPT ![t] = "post"]}
        /\ queue' = queue \/ \E h : queue' = [queue EXCEPT ![t] = Append(@, h)]
    BY <2>1, ZenonT(30) DEF Fails, OneReport, LocalSetMailBox, RemoteSetMailBox, NoMailBox
  <2>3. ASSUME NEW u \in Task, u # t PROVE HandledOK(u)'
    <3>1. pc'[u] = pc[u]
      BY <1>0, <1>17, <2>2, <2>3, ZenonT(30) DEF CallTypes
    <3>2. queue'[u] = queue[u]
      BY <1>0, <1>17, <2>2, <2>3, ZenonT(30) DEF HandlerTypes
    <3>. QED
      BY <1>17, <2>2, <3>1, <3>2, HandledFrame, ZenonT(30) DEF HandledState
  <2>4. HandledOK(t)'
    BY <1>0, <1>17, <2>2, Zenon DEF HandledState, HandledOK, CallTypes
  <2>. QED
    BY <2>3, <2>4, Zenon DEF HandledState
<1>18. ASSUME NEW t \in Task, SetRollbackPoint(t) PROVE HandledState'
  <2>1. UNCHANGED <<lost, pc, event_count, queue, handled>>
    BY <1>18, Zenon DEF SetRollbackPoint, posts
  <2>. QED
    BY <2>1, HandledFrame, Zenon DEF HandledState
<1>19. ASSUME UNCHANGED mvars PROVE HandledState'
  BY <1>19, Zenon DEF mvars, HandledState, HandledOK
<1>. QED
  BY <1>1, <1>2, <1>3, <1>4, <1>5, <1>6, <1>7, <1>8, <1>9, <1>10, <1>11, <1>12, <1>13,
     <1>14, <1>15, <1>16, <1>17, <1>18, <1>19, ZenonT(30) DEF MNext, Progress, Calls

----------------------------------------------------------------------------
(* The counters: theorems                                                   *)

\* Nothing is counted, and nothing is on its way, in the initial state.
LEMMA CInvInit == MInit => CInv
<1> SUFFICES ASSUME MInit PROVE CInv
  BY Zenon
<1>1. ASSUME NEW t \in Task
      PROVE  ErrFor(t) = {} /\ ReexFor(t) = {} /\ FlyTo(t) = {}
  BY <1>1, LevelFacts, Zenon DEF MInit, ErrFor, ReexFor, FlyTo
<1>2. EventsAreCounted
  <2>1. Cardinality({}) = 0
    BY FS_EmptySet, Zenon
  <2>2. Len(<<>>) = 0
    BY Zenon
  <2>3. \A t \in Task : pending[t] = 0 /\ handled[t] = 0 /\ Len(queue[t]) = 0
    BY <2>2, Zenon DEF MInit
  <2>4. ASSUME NEW t \in Task
        PROVE  pending[t] >= Cardinality(ErrFor(t)) + Cardinality(ReexFor(t))
                              + Cardinality(FlyTo(t)) + Len(queue[t]) + handled[t]
    <3>1. /\ Cardinality(ErrFor(t)) = 0 /\ Cardinality(ReexFor(t)) = 0
          /\ Cardinality(FlyTo(t)) = 0
      BY <1>1, <2>1, <2>4, ZenonT(30)
    <3>. QED
      BY <2>3, <3>1
  <2>. QED
    BY <2>4, Zenon DEF EventsAreCounted
<1>3. HandledState
  BY Zenon DEF MInit, HandledState, HandledOK
<1>4. DuplicateHasBroadcast
  BY Zenon DEF MInit, DuplicateHasBroadcast
<1>. QED
  BY <1>2, <1>3, <1>4, Zenon DEF CInv

\* TInv and CInv together are inductive.
LEMMA InvStep == TInv /\ CInv /\ [MNext]_mvars => TInv' /\ CInv'
<1> SUFFICES ASSUME TInv, CInv, [MNext]_mvars PROVE TInv' /\ CInv'
  BY Zenon
<1>1. MTypeOK' /\ CallState'
  BY SetFactsHold, TypeStep, CallStep, ZenonT(30)
<1>2. CountAll
  BY CountedIsEvents, Zenon DEF TInv, CInv, CountAll
<1>3. EventsAreCounted'
  BY <1>1, <1>2, CountStep, CountedIsEvents, ZenonT(30) DEF CountAll
<1>4. HandledState' /\ DuplicateHasBroadcast'
  BY <1>2, HandledStep, DupStep, ZenonT(30) DEF CInv
<1>. QED
  BY <1>1, <1>3, <1>4, ZenonT(30) DEF TInv, CInv

\* The inductive invariant holds in every reachable state.
LEMMA Inductive == MSpec => [](TInv /\ CInv)
BY TInvInit, CInvInit, InvStep, PTL DEF MSpec

\* Every step of the delivery protocol keeps its state well typed, for every tree of
\* CDs and any number of tasks, errors and calls.
THEOREM TypeCorrect == MSpec => []MTypeOK
BY Inductive, PTL DEF TInv

\* A counter that reads 0 means that nothing is on its way: the test at the top of
\* CheckMailBox never skips an event, unless a re-creation has reset the counter.
THEOREM CounterCoversEvents == MSpec => []EventsAreCounted
BY Inductive, PTL DEF CInv

\* The assertion at the top of CheckMailBox (handled_event_count == 0) holds, unless a
\* re-creation has reset the counter.
THEOREM HandledAssertion == MSpec => []HandledTakenOff
<1>1. HandledState => HandledTakenOff
  BY Zenon DEF HandledState, HandledOK, HandledTakenOff
<1>. QED
  BY <1>1, Inductive, PTL DEF CInv

\* A head that drops a report because error_occurred is set has a broadcast of that CD
\* still to run (HeadCD::ReadMailBox).
THEOREM DropLosesNothing == MSpec => []DuplicateHasBroadcast
BY Inductive, PTL DEF CInv

----------------------------------------------------------------------------
(* A task that waits                                                        *)

\* What holds of the loop's own variables, and of the rollback point it leaves behind.
WInv == TInv /\ CInv /\ WTypeOK /\ EscalatesWithReason

----------------------------------------------------------------------------
(* The look of the loop at the kAllReexecute bit                            *)

\* AfterCheck changes the state of the mailboxes only by clearing a bit of the task that
\* runs it and by lowering that task's rollback point.
LEMMA AfterCheckFrame ==
  ASSUME TInv, NEW t \in Task, AfterCheck(t)
  PROVE  /\ UNCHANGED <<pending, errFlag, queue, handled, errOcc, cur, len, made>>
         /\ UNCHANGED <<pc, at, lv, todo, fly, event_count, lost, nerr, moves, iters>>
         /\ reexFlag' \subseteq reexFlag
         /\ \A c \in Shared, u \in Task : u # t /\ <<c, u>> \in reexFlag => <<c, u>> \in reexFlag'
         /\ rb' \in [Task -> RollbackPoints]
<1>1. /\ UNCHANGED <<pending, errFlag, queue, handled, errOcc, cur, len, made>>
      /\ UNCHANGED <<pc, at, lv, todo, fly, event_count, lost, nerr, moves, iters>>
  BY Zenon DEF AfterCheck, path, ctl, posts
<1>2. /\ reexFlag' \subseteq reexFlag
      /\ \A c \in Shared, u \in Task : u # t /\ <<c, u>> \in reexFlag => <<c, u>> \in reexFlag'
  BY Zenon DEF AfterCheck
<1>3. rb' \in [Task -> RollbackPoints]
  <2>1. rb \in [Task -> RollbackPoints] /\ cur[t] \in RollbackPoints
    BY LevelFacts, Zenon DEF TInv, MTypeOK
  <2>2. rb[t] \in RollbackPoints
    BY <2>1, Zenon
  <2>3. MinOf(rb[t], cur[t]) \in RollbackPoints
    BY <2>1, <2>2, MinOfType, Zenon
  <2>4. rb' = rb \/ rb' = [rb EXCEPT ![t] = MinOf(rb[t], cur[t])]
    BY <2>1, Zenon DEF AfterCheck
  <2>. QED
    BY <2>1, <2>3, <2>4, Zenon
<1>. QED
  BY <1>1, <1>2, <1>3, Zenon

\* AfterCheck keeps the invariant of the delivery protocol: the bit it clears was counted,
\* and the counter is left too large, never too small.
LEMMA AfterCheckKeeps ==
  ASSUME TInv, CInv, NEW t \in Task, AfterCheck(t)
  PROVE  TInv' /\ CInv'
<1>1. MTypeOK'
  <2>1. reexFlag' \subseteq Shared \X Task
    BY AfterCheckFrame, Zenon DEF TInv, MTypeOK
  <2>. QED
    BY <2>1, AfterCheckFrame, ZenonT(30) DEF TInv, MTypeOK
<1>2. CallState'
  <2>1. ASSUME NEW u \in Task, u # t PROVE CallOK(u)'
    <3>1. CallOK(u) /\ todo[u] \subseteq Task
      BY Zenon DEF TInv, CallState, MTypeOK
    <3>. QED
      BY <2>1, <3>1, AfterCheckFrame, OthersKeep, ZenonT(30)
  <2>2. CallOK(t)'
    <3>1. pc[t] = "run" /\ CallOK(t)
      BY Zenon DEF AfterCheck, TInv, CallState
    <3>. QED
      BY <3>1, AfterCheckFrame, Zenon DEF CallOK
  <2>. QED
    BY <2>1, <2>2, Zenon DEF CallState
<1>3. EventsAreCounted'
  <2>1. ASSUME NEW u \in Task PROVE Counted(u)'
    <3>1. MTypeOK /\ Counted(u)
      BY CountedIsEvents, Zenon DEF TInv, CInv
    <3>. QED
      BY <1>1, <3>1, AfterCheckFrame, CountStay, ZenonT(30)
  <2>. QED
    BY <1>1, <2>1, CountedIsEvents, Zenon
<1>4. HandledState'
  BY AfterCheckFrame, HandledFrame, Zenon DEF CInv, HandledState
<1>5. DuplicateHasBroadcast'
  BY AfterCheckFrame, DupFrame, Zenon DEF CInv
<1>. QED
  BY <1>1, <1>2, <1>3, <1>4, <1>5, ZenonT(30) DEF TInv, CInv

----------------------------------------------------------------------------
(* Escalation                                                               *)

\* No call in progress moves a task to another CD or raises a rollback point: the handlers
\* and SetRollbackPoint keep the minimum.
LEMMA ProgressLowers ==
  ASSUME TInv, NEW t \in Task, Progress(t)
  PROVE  cur' = cur /\ \A u \in Task : rb'[u] <= rb[u]
<1>1. rb \in [Task -> RollbackPoints] /\ RollbackPoints \subseteq Int
  BY TreeAssumption DEF TInv, MTypeOK, RollbackPoints, INVALID
<1>2. \A u \in Task : rb[u] \in Int
  BY <1>1, Zenon
<1>3. ASSUME NEW s \in Task, NEW l \in Levels, LowerRollbackPoint(s, l)
      PROVE  \A u \in Task : rb'[u] <= rb[u]
  <2>1. l \in Int
    BY <1>3, LevelFacts, <1>1, Zenon
  <2>. QED
    BY <1>1, <1>2, <1>3, <2>1 DEF LowerRollbackPoint, MinOf
<1>4. queue[t] # <<>> => Level[Head(queue[t]).cd] \in Levels
  <2>1. queue[t] \in Seq(Handlers)
    BY Zenon DEF TInv, MTypeOK
  <2>2. queue[t] # <<>> => Head(queue[t]) \in Handlers
    BY <2>1
  <2>. QED
    BY <2>2, LevelFacts, Zenon DEF Handlers
<1>5. CASE HandleAllReexecute(t)
  <2>1. /\ LowerRollbackPoint(t, Level[Head(queue[t]).cd]) /\ queue[t] # <<>>
        /\ cur' = cur
    BY <1>5, Zenon DEF HandleAllReexecute, path
  <2>. QED
    BY <1>3, <1>4, <2>1, Zenon
<1>6. CASE HandleErrorOccurred(t)
  <2>1. /\ LowerRollbackPoint(t, Level[Head(queue[t]).cd]) \/ rb' = rb
        /\ queue[t] # <<>> /\ cur' = cur
    BY <1>6, Zenon DEF HandleErrorOccurred, path
  <2>. QED
    BY <1>2, <1>3, <1>4, <2>1
<1>7. CASE SetRollbackPoint(t)
  <2>1. cur' = cur /\ pc[t] = "check" /\ \E s \in todo[t] : LowerRollbackPoint(s, lv[t])
    BY <1>7, Zenon DEF SetRollbackPoint, path
  <2>2. CallOK(t) /\ todo[t] \subseteq Task
    BY Zenon DEF TInv, CallState, MTypeOK
  <2>3. lv[t] \in Levels
    BY <2>1, <2>2, Zenon DEF CallOK
  <2>. QED
    BY <1>3, <2>1, <2>2, <2>3, Zenon
<1>8. CASE ~HandleAllReexecute(t) /\ ~HandleErrorOccurred(t) /\ ~SetRollbackPoint(t)
  <2>1. cur' = cur /\ rb' = rb
    BY <1>8, ZenonT(30) DEF Progress, RemoteSetFlag, InternalCheckMailBox, ReadMailBox, ScanEnd, Broadcast,
                BroadcastFlag, BroadcastEnd, DecPendingCounter, path
  <2>. QED
    BY <1>2, <2>1
<1>. QED
  BY <1>5, <1>6, <1>7, <1>8, ZenonT(30)

\* Every call of the path moves only the task that makes it.
LEMMA CallsMoveOne ==
  ASSUME TInv, NEW t \in Task, Calls(t)
  PROVE  \A u \in Task : u # t => cur'[u] = cur[u] /\ rb'[u] = rb[u]
<1>1. cur \in [Task -> Levels] /\ rb \in [Task -> RollbackPoints]
  BY Zenon DEF TInv, MTypeOK
<1>2. CASE CheckMailBox(t) \/ Create(t) \/ Destroy(t)
  BY <1>2, Zenon DEF CheckMailBox, Create, Destroy, path
<1>3. CASE Recreate(t) \/ Begin(t) \/ Complete(t)
  BY <1>1, <1>3, Zenon DEF Recreate, Begin, Complete, SyncCDs
<1>4. CASE Detect(t) \/ Assert(t)
  <2>1. OneReport(t)
    BY <1>4, FindsError, Zenon DEF TInv
  <2>. QED
    BY <2>1, Zenon DEF OneReport, LocalSetMailBox, RemoteSetMailBox, NoMailBox, path
<1>. QED
  BY <1>2, <1>3, <1>4, Zenon DEF Calls

\* The types of the loop, and the reason of an escalation, are kept by every step.
LEMMA WaitStep ==
  ASSUME WInv, NEW t \in Task,
         \/ BlockUntilValid(t) \/ WaitLoop(t)
         \/ /\ \/ Progress(t)
               \/ wait[t] = "no" /\ Calls(t)
               \/ wait[t] = "escalate" /\ CheckMailBox(t)
            /\ UNCHANGED <<wait, iters>>
  PROVE  WInv'
<1>1. /\ TInv /\ CInv
      /\ wait \in [Task -> {"no", "test", "poll", "escalate"}]
      /\ iters \in [Task -> 0 .. ForceAfter + 1]
      /\ \A u \in Task : wait[u] = "escalate" => rb[u] <= cur[u]
  BY Zenon DEF WInv, WTypeOK, EscalatesWithReason
<1>2. cur \in [Task -> Levels] /\ rb \in [Task -> RollbackPoints]
  BY <1>1, Zenon DEF TInv, MTypeOK
<1>3. \A u \in Task : cur[u] \in Int /\ rb[u] \in Int
  BY <1>2, TreeAssumption DEF Levels, RollbackPoints, INVALID
<1>4. SUFFICES /\ TInv' /\ CInv'
               /\ wait' \in [Task -> {"no", "test", "poll", "escalate"}]
               /\ iters' \in [Task -> 0 .. ForceAfter + 1]
               /\ \A u \in Task : wait'[u] = "escalate" => rb'[u] <= cur'[u]
  BY Zenon DEF WInv, WTypeOK, EscalatesWithReason, TInv
<1>5. CASE BlockUntilValid(t) \/ MessageArrives(t)
  <2>1. UNCHANGED mvars
    BY <1>5, Zenon DEF BlockUntilValid, MessageArrives
  <2>2. TInv' /\ CInv'
    BY <1>1, <2>1, InvStep, Zenon
  <2>3. rb' = rb /\ cur' = cur
    BY <2>1, Zenon DEF mvars
  <2>4. PICK w \in {"no", "test"} : wait' = [wait EXCEPT ![t] = w]
    BY <1>5, Zenon DEF BlockUntilValid, MessageArrives
  <2>5. iters' = iters \/ iters' = [iters EXCEPT ![t] = 0]
    BY <1>5, Zenon DEF BlockUntilValid, MessageArrives
  <2>6. wait' \in [Task -> {"no", "test", "poll", "escalate"}]
    BY <1>1, <2>4, Zenon
  <2>7. iters' \in [Task -> 0 .. ForceAfter + 1]
    <3>1. 0 \in 0 .. ForceAfter + 1
      BY WaitBounds
    <3>. QED
      BY <1>1, <2>5, <3>1, Zenon
  <2>8. \A u \in Task : wait'[u] = "escalate" => wait[u] = "escalate"
    BY <1>1, <2>4, Zenon
  <2>. QED
    BY <1>1, <2>2, <2>3, <2>6, <2>7, <2>8, Zenon
<1>6. CASE NothingArrived(t)
  <2>1. CheckMailBox(t)
    BY <1>6, Zenon DEF NothingArrived
  <2>2. TInv' /\ CInv'
    BY <1>1, <2>1, InvStep, ZenonT(30) DEF MNext, Calls
  <2>3. rb' = rb /\ cur' = cur
    BY <2>1, Zenon DEF CheckMailBox, path
  <2>4. iters' \in [Task -> 0 .. ForceAfter + 1]
    <3>1. iters' = [iters EXCEPT ![t] = IF iters[t] > ForceAfter THEN iters[t] ELSE iters[t] + 1]
      BY <1>6, Zenon DEF NothingArrived
    <3>2. iters[t] \in 0 .. ForceAfter + 1
      BY <1>1, Zenon
    <3>3. (IF iters[t] > ForceAfter THEN iters[t] ELSE iters[t] + 1) \in 0 .. ForceAfter + 1
      BY <3>2, WaitBounds
    <3>. QED
      BY <1>1, <3>1, <3>3, ZenonT(30)
  <2>. QED
    BY <1>1, <1>6, <2>2, <2>3, <2>4, ZenonT(30) DEF NothingArrived
<1>7. CASE AfterCheck(t)
  <2>1. TInv' /\ CInv' /\ cur' = cur /\ iters' = iters
    BY <1>1, <1>7, AfterCheckKeeps, AfterCheckFrame, Zenon
  <2>2. wait' \in [Task -> {"no", "test", "poll", "escalate"}]
    BY <1>1, <1>7, Zenon DEF AfterCheck
  <2>3. ASSUME NEW u \in Task, u # t PROVE wait'[u] = wait[u] /\ rb'[u] = rb[u]
    BY <1>1, <1>2, <1>7, <2>3, ZenonT(30) DEF AfterCheck
  <2>4. wait'[t] = "escalate" => rb'[t] <= cur[t]
    <3>1. CASE Forced(t)
      BY <1>2, <1>3, <1>7, <3>1 DEF AfterCheck, MinOf
    <3>2. CASE ~Forced(t)
      BY <1>1, <1>2, <1>3, <1>7, <3>2, ZenonT(30) DEF AfterCheck
    <3>. QED
      BY <3>1, <3>2, Zenon
  <2>. QED
    BY <1>1, <2>1, <2>2, <2>3, <2>4, ZenonT(30)
<1>8. CASE Progress(t) /\ UNCHANGED <<wait, iters>>
  <2>1. TInv' /\ CInv'
    BY <1>1, <1>8, InvStep, ZenonT(30) DEF MNext
  <2>2. cur' = cur /\ \A u \in Task : rb'[u] <= rb[u]
    BY <1>1, <1>8, ProgressLowers, ZenonT(30)
  <2>3. \A u \in Task : rb'[u] \in Int
    BY <2>1, TreeAssumption DEF TInv, MTypeOK, RollbackPoints, INVALID
  <2>4. ASSUME NEW u \in Task, wait'[u] = "escalate" PROVE rb'[u] <= cur'[u]
    <3>1. rb[u] <= cur[u] /\ rb'[u] <= rb[u] /\ cur'[u] = cur[u]
      BY <1>1, <1>8, <2>2, <2>4, ZenonT(30)
    <3>2. rb[u] \in Int /\ rb'[u] \in Int /\ cur[u] \in Int
      BY <1>3, <2>3, Zenon
    <3>. QED
      BY <3>1, <3>2
  <2>. QED
    BY <1>1, <1>8, <2>1, <2>4, ZenonT(30)
<1>9. CASE wait[t] = "no" /\ Calls(t) /\ UNCHANGED <<wait, iters>>
  <2>1. TInv' /\ CInv'
    BY <1>1, <1>9, InvStep, ZenonT(30) DEF MNext
  <2>2. \A u \in Task : u # t => cur'[u] = cur[u] /\ rb'[u] = rb[u]
    BY <1>1, <1>9, CallsMoveOne, ZenonT(30)
  <2>. QED
    BY <1>1, <1>9, <2>1, <2>2, ZenonT(30)
<1>10. CASE wait[t] = "escalate" /\ CheckMailBox(t) /\ UNCHANGED <<wait, iters>>
  <2>1. TInv' /\ CInv'
    BY <1>1, <1>10, InvStep, ZenonT(30) DEF MNext, Calls
  <2>2. rb' = rb /\ cur' = cur
    BY <1>10, Zenon DEF CheckMailBox, path
  <2>. QED
    BY <1>1, <1>10, <2>1, <2>2, ZenonT(30)
<1>. QED
  BY <1>5, <1>6, <1>7, <1>8, <1>9, <1>10, ZenonT(30) DEF WaitLoop

----------------------------------------------------------------------------
(* The wait: theorems                                                       *)

\* The invariant holds in every reachable state of a job whose tasks wait.
LEMMA WaitInductive == WSpec => []WInv
<1>1. WInit => WInv
  <2> SUFFICES ASSUME WInit PROVE WInv
    BY Zenon
  <2>1. TInv /\ CInv
    BY TInvInit, CInvInit, Zenon DEF WInit
  <2>2. WTypeOK /\ EscalatesWithReason
    BY <2>1, WaitBounds DEF WInit, WTypeOK, EscalatesWithReason, TInv
  <2>. QED
    BY <2>1, <2>2, Zenon DEF WInv
<1>2. WInv /\ [WNext]_wvars => WInv'
  <2> SUFFICES ASSUME WInv, [WNext]_wvars PROVE WInv'
    BY Zenon
  <2>1. CASE WNext
    BY <2>1, WaitStep, Zenon DEF WNext
  <2>2. CASE UNCHANGED wvars
    <3>1. UNCHANGED mvars /\ wait' = wait /\ iters' = iters /\ rb' = rb /\ cur' = cur
      BY <2>2, Zenon DEF wvars, mvars
    <3>2. TInv' /\ CInv'
      BY <3>1, InvStep, Zenon DEF WInv
    <3>. QED
      BY <3>1, <3>2, Zenon DEF WInv, WTypeOK, EscalatesWithReason, TInv
  <2>. QED
    BY <2>1, <2>2, Zenon
<1>. QED
  BY <1>1, <1>2, PTL DEF WSpec

\* The look of BlockUntilValid at event_flag_, which takes a kAllReexecute bit without its
\* handler, leaves every counter at or above the events it stands for: CheckMailBox still
\* skips nothing when the counter reads 0.
THEOREM WaitKeepsCount == WSpec => []EventsAreCounted
BY WaitInductive, PTL DEF WInv, CInv

\* A task that leaves BlockUntilValid without its message has a rollback point that
\* GetCDToRecover can climb to, whether it was told to roll back or gave up by itself, and
\* keeps it until it has climbed.
THEOREM EscalationIsValid == WSpec => []EscalatesWithReason
BY WaitInductive, PTL DEF WInv

\* The state of the loop, and with it the rollback point it sets, keeps its type.
THEOREM WaitTypes == WSpec => []WTypeOK
BY WaitInductive, PTL DEF WInv

----------------------------------------------------------------------------
(* The handlers, and the notices of an error                                *)

\* "Invalid rollback level %u. It cannot be larger than current level %u": the handlers
\* that InvokeAllErrorHandler runs are all for CDs at or above the current one, for every
\* tree of CDs and any number of tasks, errors and calls.
THEOREM HandlersStayOnPath == MSpec => []HandlersAreOnPath
<1>1. MInit => TInv /\ PathState
  <2> SUFFICES ASSUME MInit PROVE PathState
    BY TInvInit, Zenon
  <2>1. ASSUME NEW t \in Task PROVE queue[t] = <<>> /\ pc[t] = "run"
    BY <2>1, Zenon DEF MInit
  <2>. QED
    BY <2>1, BelowEmpty, Zenon DEF PathState, PathOK
<1>2. TInv /\ PathState /\ [MNext]_mvars => TInv' /\ PathState'
  <2> SUFFICES ASSUME TInv, PathState, [MNext]_mvars PROVE TInv' /\ PathState'
    BY Zenon
  <2>1. TInv'
    BY SetFactsHold, TypeStep, CallStep, Zenon DEF TInv
  <2>2. ASSUME NEW t \in Task, Progress(t) \/ Calls(t) PROVE PathState'
    <3>1. PathOK(t)'
      BY <2>2, ProgressOnPath, CallsOnPath, Zenon DEF PathState
    <3>2. \A u \in Task : u # t => PathOK(u)'
      BY <2>2, OwnStep, Zenon DEF PathState
    <3>. QED
      BY <3>1, <3>2, Zenon DEF PathState
  <2>3. CASE UNCHANGED mvars
    <3>1. queue' = queue /\ cur' = cur /\ pc' = pc /\ lv' = lv /\ at' = at
      BY <2>3, Zenon DEF mvars
    <3>2. SUFFICES ASSUME NEW u \in Task PROVE PathOK(u)'
      BY <2>1, Zenon DEF PathState
    <3>3. PathOK(u)
      BY Zenon DEF PathState
    <3>. QED
      BY <3>1, <3>3, Zenon DEF PathOK
  <2>. QED
    BY <2>1, <2>2, <2>3, Zenon DEF MNext
<1>3. PathState => HandlersAreOnPath
  BY Zenon DEF PathState, PathOK, Below, HandlersAreOnPath
<1>. QED
  BY <1>1, <1>2, <1>3, PTL DEF MSpec

\* The mailboxes implement ErrorNotice for every tree of CDs and any number of tasks: through
\* the epochs of SetMailBox, the scans of CheckMailBox, the handlers of a broadcast and the
\* re-creation of CDs, no report is dropped before every task of its CD has been told of it,
\* no notice before the task has lowered its rollback point, and a rollback point is lowered
\* only for a notice, for an error the task, or a task of a CD it heads, has found, or to that
\* of a task it synchronises with.
THEOREM MailboxesKeepNotices == MSpec => NoticesAreKept
<1>1. NInv /\ [MNext]_mvars => NInv' /\ [EN!NNext]_(EN!nvars)
  <2> SUFFICES ASSUME NInv, [MNext]_mvars PROVE NInv' /\ [EN!NNext]_(EN!nvars)
    BY Zenon
  <2>1. CASE UNCHANGED mvars
    BY <2>1, SetFactsHold, NoticeStutter, Zenon
  <2>2. CASE MNext
    <3>1. PICK t \in Task : Progress(t) \/ Calls(t)
      BY <2>2, Zenon DEF MNext
    <3>. QED
      BY <3>1, SetFactsHold, NoticeStep, NoticeSim, ZenonT(30)
  <2>. QED
    BY <2>1, <2>2, Zenon
<1>. QED
  BY <1>1, NoticeInit, PTL DEF MSpec, NoticesAreKept, EN!NSpec

=============================================================================
