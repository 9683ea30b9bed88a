------------------------------ MODULE Rollback ------------------------------
(***************************************************************************)
(* The coordinated rollback of an SPMD program (cd_internal.cc,            *)
(* cd_handle.cc): Create, Begin, Detect, CDAssert, Complete and Destroy of *)
(* every task, the two collectives inside SyncCDs, and GetCDToRecover,     *)
(* which climbs the CD path until it finds the CD to re-execute.           *)
(*                                                                         *)
(* Every task runs one program, a sequence of CD operations, with an       *)
(* instruction pointer of its own; re-executing a CD (longjmp) moves the   *)
(* pointer back to the CD's Begin.  A program may exchange messages inside *)
(* a CD: every task sends to the next task of the CD and waits for the one *)
(* before.  Mailboxes are used at the grain of whole calls: modules        *)
(* Mailbox and Wait show what holds between the epochs.                    *)
(***************************************************************************)
EXTENDS CDTree, Sequences, FiniteSetsExt

CONSTANT Programs  \* the programs and what may go wrong in them: see Program

Ops == {"create", "begin", "detect", "assert", "send", "wait", "complete", "destroy"}

\* calls: the operations; collective: the argument of Begin, TRUE by default, FALSE from
\* CreateAndBegin; errors, timeouts: bounds of the errors found and of the waits that give
\* up.
Program(p) ==
  /\ p.calls \in Seq([op : Ops, lv : Levels])
  /\ p.collective \in BOOLEAN
  /\ p.errors \in Nat /\ p.timeouts \in Nat

ASSUME RollbackAssumption == \A p \in Programs : Program(p)

VARIABLES
  app,    \* the program the tasks run
  mb,     \* the RMA windows: pending counters, mailbox bits, rollback points
  ip,     \* next operation of each task
  cur,    \* level of CDPath::GetCurrentCD(); -1 once the root is complete
  made,   \* access_store_: levels the task has created before
  reex,   \* levels whose exec mode is kReexecution
  pc,     \* where the task is inside the operation
  ctx,    \* the caller of SyncCDs: "begin", "complete" or "recover"
  sl,     \* the level SyncCDs or GetCDToRecover works on
  coll,   \* GetCDToRecover's argument collective
  rlv,    \* rollback_lv, read by GetCDToRecover before it synchronizes
  val,    \* the task's value in, then the result of, the Allreduce
  net,    \* messages sent to each task and not received
  nerr,   \* errors found so far
  ntime,  \* waits that gave up so far
  owed    \* history: CDs of the task with a reported error and no re-execution yet

tvars == <<cur, made, reex>>
svars == <<ctx, sl, coll, rlv, val>>
nvars == <<net, ntime>>
vars  == <<app, mb, ip, cur, made, reex, pc, ctx, sl, coll, rlv, val, net, nerr, ntime, owed>>

Prog        == app.calls
Collective  == app.collective
MaxErrors   == app.errors
MaxTimeouts == app.timeouts

Init ==
  /\ app \in Programs
  /\ mb = [pending |-> [t \in Task |-> 0], err |-> {}, reex |-> {},
           rb |-> [t \in Task |-> INVALID]]
  /\ ip = [t \in Task |-> 1]
  /\ cur = [t \in Task |-> -1]
  /\ made = [t \in Task |-> {0}]
  /\ reex = [t \in Task |-> {}]
  /\ pc = [t \in Task |-> "run"]
  /\ ctx = [t \in Task |-> "none"]
  /\ sl = [t \in Task |-> 0]
  /\ coll = [t \in Task |-> FALSE]
  /\ rlv = [t \in Task |-> INVALID]
  /\ val = [t \in Task |-> INVALID]
  /\ net = [t \in Task |-> 0]
  /\ nerr = 0 /\ ntime = 0
  /\ owed = [t \in Task |-> {}]

----------------------------------------------------------------------------
(* The windows                                                              *)

\* SetRollbackPoint(l, false): INVALID resets, anything else takes the minimum.
SetRollbackPoint(t, l, m) ==
  [m EXCEPT !.rb[t] = IF l = INVALID THEN INVALID ELSE MinOf(@, l)]

\* SetRollbackPoint(l, true) on CD c: accumulated (MPI_MIN) at the head of the
\* innermost shared CD.
SetRollbackPointAtHead(t, c, l, m) ==
  [m EXCEPT !.rb[HeadOf[GetCoarseCD(t, c)]] = MinOf(@, l)]

\* SetMailBox(kErrorOccurred) on CD c.
SetMailBox(t, c, m) ==
  LET d == GetCoarseCD(t, c)
  IN  [m EXCEPT !.pending[HeadOf[d]] = @ + 1, !.err = @ \cup {<<d, t>>}]

\* CheckMailBox of a task whose current level is l.  A head broadcasts the errors
\* reported to it; whoever finds kAllReexecute lowers its rollback point.
CheckMailBox(t, l, m) ==
  LET mine  == {c \in Shared : t \in Member[c] /\ Level[c] <= l}
      bits  == {p \in m.err : p[1] \in mine /\ IsHead(t, p[1])}
      heard == {c \in mine : <<c, t>> \in m.reex}
      cast  == {p[1] : p \in bits}
      sent  == UNION {{<<c, u>> : u \in Member[c] \ {t}} : c \in cast}
      found == {Level[c] : c \in cast \cup heard}
  IN  IF m.pending[t] = 0 \/ found = {} THEN m
      ELSE [pending |-> [u \in Task |->
                           IF u = t THEN m.pending[t] - Cardinality(bits) - Cardinality(heard)
                           ELSE m.pending[u] + Cardinality({p \in sent : p[2] = u})],
            err  |-> m.err \ bits,
            reex |-> (m.reex \ (heard \X {t})) \cup sent,
            rb   |-> [m.rb EXCEPT ![t] = MinOf(@, Min(found))]]

\* The bits task t owns in the mailbox of c.
OwnBits(t, c, m) == [err  |-> {p \in m.err : p[1] = c /\ IsHead(t, c)},
                     reex |-> {p \in m.reex : p = <<c, t>>}]

\* InitializeMailBox: the reuse of a CD object resets the process's windows.
InitializeMailBox(t, c, m) ==
  [m EXCEPT !.pending[t] = 0, !.rb[t] = INVALID,
            !.err = @ \ OwnBits(t, c, m).err, !.reex = @ \ OwnBits(t, c, m).reex]

\* FinalizeMailBox: what is left in the mailbox counts as handled.
FinalizeMailBox(t, c, m) ==
  LET own == OwnBits(t, c, m)
  IN  [m EXCEPT !.pending[t] = @ - Cardinality(own.err) - Cardinality(own.reex),
                !.err = @ \ own.err, !.reex = @ \ own.reex]

----------------------------------------------------------------------------
(* SyncCDs                                                                  *)

Op(t)     == Prog[ip[t]]
At(t, op) == pc[t] = "run" /\ ip[t] <= Len(Prog) /\ Op(t).op = op
Cdl(t, l) == GetCDLevel(t, l)

\* SyncCDs(level l) of a shared CD is entered with windows m: CheckMailBox (twice,
\* with nothing in between), then the fence.
EnterSync(t, l, m, cx) ==
  /\ mb' = CheckMailBox(t, cur'[t], m)
  /\ pc' = [pc EXCEPT ![t] = "fence"]
  /\ ctx' = [ctx EXCEPT ![t] = cx]
  /\ sl' = [sl EXCEPT ![t] = l]

\* MPI_Win_fence on the mailbox of c: returns once every task of c has called it.
Fence(c) ==
  /\ \A t \in Member[c] : pc[t] = "fence" /\ sl[t] = Level[c]
  /\ pc' = [t \in Task |-> IF t \in Member[c] THEN "fenced" ELSE pc[t]]
  /\ UNCHANGED <<mb, ip, tvars, svars, nerr, owed>>

\* After the fence: CheckMailBox again, and the task's own rollback point goes into
\* the Allreduce.
EnterReduce(t) ==
  /\ pc[t] = "fenced"
  /\ LET m == CheckMailBox(t, cur[t], mb)
     IN  /\ mb' = m
         /\ val' = [val EXCEPT ![t] = m.rb[t]]
  /\ pc' = [pc EXCEPT ![t] = "reduce"]
  /\ UNCHANGED <<ip, tvars, ctx, sl, coll, rlv, nerr, owed>>

\* MPI_Allreduce(MPI_MIN) over the tasks of c.  A Begin that does not escalate starts
\* a new instance of c: whatever was owed to the old one has been re-executed.
Allreduce(c) ==
  /\ \A t \in Member[c] : pc[t] = "reduce" /\ sl[t] = Level[c]
  /\ LET new == Min({val[t] : t \in Member[c]})
         begun == \A t \in Member[c] : ctx[t] = "begin" /\ new >= Level[c]
     IN  /\ val' = [t \in Task |-> IF t \in Member[c] THEN new ELSE val[t]]
         /\ owed' = [t \in Task |-> IF t \in Member[c] /\ begun
                                    THEN {d \in owed[t] : Level[d] < Level[c]}
                                    ELSE owed[t]]
  /\ pc' = [t \in Task |-> IF t \in Member[c] THEN "reduced" ELSE pc[t]]
  /\ UNCHANGED <<mb, ip, tvars, ctx, sl, coll, rlv, nerr>>

----------------------------------------------------------------------------
(* Leaving an operation                                                     *)

NextOp(t) ==
  /\ pc' = [pc EXCEPT ![t] = "run"]
  /\ ip' = [ip EXCEPT ![t] = @ + 1]

\* Escalate / GetCDToRecover is called on the CD of level l.
StartRecovery(t, l, collective) ==
  /\ pc' = [pc EXCEPT ![t] = "recover"]
  /\ sl' = [sl EXCEPT ![t] = l]
  /\ coll' = [coll EXCEPT ![t] = collective]
  /\ UNCHANGED <<ip, ctx, rlv>>

\* Mutant: the climb never synchronizes with the tasks of the CD above.
NeedSyncNever(t, l) == FALSE

\* need_sync_next_cdh: the CD above has more tasks than the one of level l.
NeedSync(t, l) == l > 0 /\ task_size(Cdl(t, l - 1)) > task_size(Cdl(t, l))

----------------------------------------------------------------------------
(* Begin                                                                    *)

\* What Begin does with the result of SyncCDs.
FinishBegin(t, l, new, m) ==
  LET m1 == SetRollbackPoint(t, new, m)
  IN  IF new < l
      THEN /\ mb' = m1
           /\ StartRecovery(t, l, NeedSync(t, l))
      ELSE /\ mb' = SetRollbackPoint(t, INVALID, m1)
           /\ NextOp(t)
           /\ UNCHANGED <<sl, coll, ctx, rlv>>

\* Mutant: Begin resets the rollback point although it has nothing to re-execute.
BeginAlwaysResets(t) ==
  /\ At(t, "begin")
  /\ LET l == Op(t).lv
         m == SetRollbackPoint(t, INVALID, mb)
     IN  /\ cur' = [cur EXCEPT ![t] = l]
         /\ IF Cdl(t, l) \in Shared
            THEN /\ EnterSync(t, l, m, "begin")
                 /\ UNCHANGED <<ip, coll, rlv, owed>>
            ELSE /\ FinishBegin(t, l, INVALID, m)
                 /\ owed' = [owed EXCEPT ![t] = {d \in @ : Level[d] < l}]
  /\ UNCHANGED <<made, reex, val, nerr>>

\* Mutant: a CD of one task, which has nothing to synchronize, keeps its rollback point.
BeginKeepsAlone(t) ==
  /\ At(t, "begin")
  /\ LET l == Op(t).lv
         m == IF l \in reex[t] \/ Collective THEN SetRollbackPoint(t, INVALID, mb) ELSE mb
     IN  /\ cur' = [cur EXCEPT ![t] = l]
         /\ IF Cdl(t, l) \in Shared
            THEN /\ EnterSync(t, l, m, "begin")
                 /\ UNCHANGED <<ip, coll, rlv, owed>>
            ELSE /\ NextOp(t)
                 /\ owed' = [owed EXCEPT ![t] = {d \in @ : Level[d] < l}]
                 /\ UNCHANGED <<mb, sl, coll, ctx, rlv>>
  /\ UNCHANGED <<made, reex, val, nerr>>

Begin(t) ==
  /\ At(t, "begin")
  /\ LET l == Op(t).lv
         m == IF l \in reex[t] \/ Collective THEN SetRollbackPoint(t, INVALID, mb) ELSE mb
     IN  /\ cur' = [cur EXCEPT ![t] = l]
         /\ IF Cdl(t, l) \in Shared
            THEN /\ EnterSync(t, l, m, "begin")
                 /\ UNCHANGED <<ip, coll, rlv, owed>>
            ELSE /\ FinishBegin(t, l, INVALID, m)
                 /\ owed' = [owed EXCEPT ![t] = {d \in @ : Level[d] < l}]
  /\ UNCHANGED <<made, reex, val, nerr>>

BeginSynced(t) ==
  /\ pc[t] = "reduced" /\ ctx[t] = "begin"
  /\ FinishBegin(t, sl[t], val[t], mb)
  /\ UNCHANGED <<tvars, val, nerr, owed>>

----------------------------------------------------------------------------
(* Complete                                                                 *)

\* Mutant: the agreed rollback point is not stored before the escalation.
FinishCompleteUnset(t, l, new, m) ==
  /\ mb' = m
  /\ IF new <= l
     THEN /\ StartRecovery(t, l, FALSE)
          /\ UNCHANGED <<cur, reex>>
     ELSE /\ NextOp(t)
          /\ cur' = [cur EXCEPT ![t] = l - 1]
          /\ reex' = [reex EXCEPT ![t] = @ \ {l}]
          /\ UNCHANGED <<sl, coll, ctx, rlv>>

\* new_rollback_point is what SetRollbackPoint returns.
FinishComplete(t, l, new, m) ==
  LET m1  == SetRollbackPoint(t, new, m)
  IN  /\ mb' = m1
      /\ IF m1.rb[t] <= l
         THEN /\ StartRecovery(t, l, FALSE)
              /\ UNCHANGED <<cur, reex>>
         ELSE /\ NextOp(t)
              /\ cur' = [cur EXCEPT ![t] = l - 1]
              /\ reex' = [reex EXCEPT ![t] = @ \ {l}]
              /\ UNCHANGED <<sl, coll, ctx, rlv>>

Complete(t) ==
  /\ At(t, "complete")
  /\ LET l == Op(t).lv
     IN  IF Cdl(t, l) \in Shared
         THEN /\ UNCHANGED <<cur, reex, ip, coll, rlv>>
              /\ EnterSync(t, l, mb, "complete")
         ELSE FinishComplete(t, l, mb.rb[t], mb)
  /\ UNCHANGED <<made, val, nerr, owed>>

CompleteSynced(t) ==
  /\ pc[t] = "reduced" /\ ctx[t] = "complete"
  /\ FinishComplete(t, sl[t], val[t], mb)
  /\ UNCHANGED <<made, val, nerr, owed>>

----------------------------------------------------------------------------
(* GetCDToRecover                                                           *)

\* Mutant: the longjmp returns to before the Begin.
BeforeBeginOf(t, l) ==
  Max({i \in 1 .. MinOf(ip[t], Len(Prog)) : Prog[i].op = "begin" /\ Prog[i].lv = l}) - 1

\* The index of the Begin that the longjmp of a CD of level l returns to.
BeginOf(t, l) ==
  Max({i \in 1 .. MinOf(ip[t], Len(Prog)) : Prog[i].op = "begin" /\ Prog[i].lv = l})

\* The CD of level l is left for good (CompletePhase, Destroy) and the one above tried.
Climb(t, l, m) ==
  /\ mb' = FinalizeMailBox(t, Cdl(t, l), m)
  /\ cur' = [cur EXCEPT ![t] = l - 1]
  /\ pc' = [pc EXCEPT ![t] = "recover"]
  /\ sl' = [sl EXCEPT ![t] = l - 1]
  /\ coll' = [coll EXCEPT ![t] = NeedSync(t, l)]
  /\ UNCHANGED <<ip, reex>>

\* Recover: the CD of level l is re-executed.
Recover(t, l, m) ==
  /\ mb' = m
  /\ reex' = [reex EXCEPT ![t] = @ \cup {l}]
  /\ ip' = [ip EXCEPT ![t] = BeginOf(t, l)]
  /\ pc' = [pc EXCEPT ![t] = "run"]
  /\ UNCHANGED <<cur, sl, coll>>

\* The two branches of GetCDToRecover after its synchronization: lv is rollback_lv,
\* new the agreed rollback point.
FinishRecover(t, l, lv, new) ==
  IF lv = l
  THEN LET m == IF new > lv THEN SetRollbackPointAtHead(t, Cdl(t, l), lv, mb)
                ELSE SetRollbackPoint(t, new, mb)
       IN  IF MinOf(new, lv) # l THEN Climb(t, l, m) ELSE Recover(t, l, m)
  ELSE Climb(t, l, SetRollbackPoint(t, new, mb))

GetCDToRecover(t) ==
  /\ pc[t] = "recover"
  /\ LET l == sl[t]
         r == mb.rb[t]
     IN  IF r > l
         THEN \* ERROR_MESSAGE("Invalid eslcation point"): abort
              /\ pc' = [pc EXCEPT ![t] = "aborted"]
              /\ UNCHANGED <<mb, ip, cur, reex, ctx, sl, coll, rlv>>
         ELSE IF coll[t] /\ Cdl(t, l) \in Shared
         THEN /\ UNCHANGED <<cur, ip, reex, coll>>
              /\ rlv' = [rlv EXCEPT ![t] = r]
              /\ EnterSync(t, l, mb, "recover")
         ELSE /\ FinishRecover(t, l, r, IF coll[t] THEN INVALID ELSE r)
              /\ UNCHANGED <<ctx, rlv>>
  /\ UNCHANGED <<made, val, nerr, owed>>

RecoverSynced(t) ==
  /\ pc[t] = "reduced" /\ ctx[t] = "recover"
  /\ FinishRecover(t, sl[t], rlv[t], val[t])
  /\ UNCHANGED <<made, ctx, rlv, val, nerr, owed>>

----------------------------------------------------------------------------
(* Detect and CDAssert                                                      *)

\* An error of CD c is found: all its tasks have to re-execute it.
Owe(c) == owed' = [t \in Task |-> IF t \in Member[c] THEN owed[t] \cup {c} ELSE owed[t]]

\* The windows after CDHandle::Detect, called in CD c, found an error of CD d.
ReportDetected(t, c, d, m) ==
  LET r == Level[d]
  IN  IF task_size(c) > 1
      THEN LET m1 == SetMailBox(t, d, m)
           IN  IF IsHead(t, c) THEN SetRollbackPoint(t, r, m1)
               ELSE SetRollbackPoint(t, r, SetRollbackPointAtHead(t, c, r, m1))
      ELSE IF task_size(d) > 1
      THEN SetRollbackPoint(t, IF IsHead(t, d) THEN r ELSE Level[c], SetMailBox(t, d, m))
      ELSE SetRollbackPoint(t, r, m)

\* The windows after CD::Assert(false) of CD d, called in CD c.
ReportAsserted(t, c, d, m) ==
  IF task_size(d) = 1 \/ (c = d /\ IsHead(t, d)) THEN SetRollbackPoint(t, Level[d], m)
  ELSE IF c = d THEN SetMailBox(t, d, m)
  ELSE SetRollbackPoint(t, Level[d], SetMailBox(t, d, m))

\* The error of a CD on the path is found, reported, and CheckMailBox called.
Report(t, d, m) ==
  /\ nerr < MaxErrors
  /\ nerr' = nerr + 1
  /\ Owe(d)
  /\ mb' = CheckMailBox(t, cur[t], m)
  /\ NextOp(t)
  /\ UNCHANGED <<tvars, svars>>

\* The test passes: only CheckMailBox is called.
TestPasses(t) ==
  /\ At(t, "detect") \/ At(t, "assert")
  /\ mb' = CheckMailBox(t, cur[t], mb)
  /\ NextOp(t)
  /\ UNCHANGED <<tvars, svars, nerr, owed>>

Detect(t) ==
  /\ At(t, "detect")
  /\ \E r \in 0 .. cur[t] :
       Report(t, Cdl(t, r), ReportDetected(t, Cdl(t, cur[t]), Cdl(t, r), mb))

CDAssert(t) ==
  /\ At(t, "assert")
  /\ LET c == Cdl(t, cur[t])
         d == Cdl(t, Op(t).lv)
     IN  Report(t, d, ReportAsserted(t, c, d, mb))

----------------------------------------------------------------------------
(* Create and Destroy                                                       *)

\* Create of a CD object found in access_store_: no communication at all.  Init sets its
\* exec mode to kSuspension.
Reuse(t) ==
  /\ At(t, "create") /\ Op(t).lv \in made[t]
  /\ mb' = InitializeMailBox(t, Cdl(t, Op(t).lv), mb)
  /\ reex' = [reex EXCEPT ![t] = @ \ {Op(t).lv}]
  /\ NextOp(t)
  /\ UNCHANGED <<cur, made, svars, nerr, owed>>

\* The first Create: CheckToReuseCD looks at the rollback point as it was before it
\* reads the mailbox, and escalates or goes on to the collective creation.
Create(t) ==
  /\ At(t, "create") /\ Op(t).lv \notin made[t]
  /\ LET p == Cdl(t, cur[t])
     IN  IF p \in Shared
         THEN /\ mb' = CheckMailBox(t, cur[t], mb)
              /\ IF mb.rb[t] <= cur[t]
                 THEN StartRecovery(t, cur[t], FALSE)
                 ELSE /\ pc' = [pc EXCEPT ![t] = "create"]
                      /\ sl' = [sl EXCEPT ![t] = cur[t]]
                      /\ UNCHANGED <<ip, ctx, rlv, coll>>
              /\ UNCHANGED made
         ELSE /\ NextOp(t)
              /\ made' = [made EXCEPT ![t] = @ \cup {Op(t).lv}]
              /\ UNCHANGED <<mb, sl, ctx, rlv, coll>>
  /\ UNCHANGED <<cur, reex, val, nerr, owed>>

\* MPI_Comm_split, the exchange of head and entry information and the allocation of
\* the mailbox windows: collective over the tasks of the parent p.
CreateTogether(p) ==
  /\ \A t \in Member[p] : pc[t] = "create" /\ sl[t] = Level[p]
  /\ pc' = [t \in Task |-> IF t \in Member[p] THEN "run" ELSE pc[t]]
  /\ ip' = [t \in Task |-> IF t \in Member[p] THEN ip[t] + 1 ELSE ip[t]]
  /\ made' = [t \in Task |-> IF t \in Member[p] THEN made[t] \cup {Level[p] + 1} ELSE made[t]]
  /\ UNCHANGED <<mb, cur, reex, svars, nerr, owed>>

Destroy(t) ==
  /\ At(t, "destroy")
  /\ mb' = FinalizeMailBox(t, Cdl(t, Op(t).lv), mb)
  /\ NextOp(t)
  /\ UNCHANGED <<tvars, svars, nerr, owed>>

----------------------------------------------------------------------------
(* Messages (strict CDs: MPI_Isend and MPI_Wait of a receive)               *)

\* The task of c that t sends to.
PeerOf(t, c) ==
  LET above == {u \in Member[c] : u > t} IN IF above = {} THEN Min(Member[c]) ELSE Min(above)

Send(t) ==
  /\ At(t, "send")
  /\ net' = [net EXCEPT ![PeerOf(t, Cdl(t, cur[t]))] = @ + 1]
  /\ NextOp(t)
  /\ UNCHANGED <<mb, tvars, svars, nerr, ntime, owed>>

\* PMPI_Test finds the message.
WaitReturns(t) ==
  /\ At(t, "wait") /\ net[t] > 0
  /\ net' = [net EXCEPT ![t] = @ - 1]
  /\ NextOp(t)
  /\ UNCHANGED <<mb, tvars, svars, nerr, ntime, owed>>

\* Mutant: the task rolls back without the other tasks of the CD.
WaitEscalatesAlone(t) ==
  /\ At(t, "wait") /\ Cdl(t, cur[t]) \in Shared
  /\ LET m == CheckMailBox(t, cur[t], mb)
     IN  \/ /\ mb' = m /\ m.rb[t] <= cur[t] /\ UNCHANGED ntime
         \/ /\ ntime < MaxTimeouts /\ ntime' = ntime + 1
            /\ mb' = SetRollbackPoint(t, cur[t], m)
  /\ StartRecovery(t, cur[t], FALSE)
  /\ UNCHANGED <<tvars, val, net, nerr, owed>>

\* PMPI_Test finds nothing, and CheckMailBox or the number of iterations tells the task to
\* roll back: Escalate, which synchronizes with the tasks of the CD.  A CD of one task is
\* left out: it has no event_flag_, which the loop reads.
WaitEscalates(t) ==
  /\ At(t, "wait") /\ Cdl(t, cur[t]) \in Shared
  /\ LET m == CheckMailBox(t, cur[t], mb)
     IN  \/ /\ mb' = m /\ m.rb[t] <= cur[t] /\ UNCHANGED ntime
         \/ /\ ntime < MaxTimeouts /\ ntime' = ntime + 1
            /\ mb' = SetRollbackPoint(t, cur[t], m)
  /\ StartRecovery(t, cur[t], TRUE)
  /\ UNCHANGED <<tvars, val, net, nerr, owed>>

----------------------------------------------------------------------------

\* CD_Finalize: the program is over for every task.
Finished == \A t \in Task : pc[t] = "run" /\ ip[t] = Len(Prog) + 1

Finalize == Finished /\ UNCHANGED vars

CdStep(t) ==
  \/ Begin(t) \/ BeginSynced(t) \/ Complete(t) \/ CompleteSynced(t)
  \/ EnterReduce(t) \/ GetCDToRecover(t) \/ RecoverSynced(t)
  \/ TestPasses(t) \/ Detect(t) \/ CDAssert(t)
  \/ Reuse(t) \/ Create(t) \/ Destroy(t)

MessageStep(t) == Send(t) \/ WaitReturns(t) \/ WaitEscalates(t)

TaskStep(t) == ((CdStep(t) /\ UNCHANGED nvars) \/ MessageStep(t)) /\ UNCHANGED app

Together(c) == (Fence(c) \/ Allreduce(c) \/ CreateTogether(c)) /\ UNCHANGED <<app, nvars>>

Next ==
  \/ \E t \in Task : TaskStep(t)
  \/ \E c \in Shared : Together(c)
  \/ Finalize

Spec == Init /\ [][Next]_vars

----------------------------------------------------------------------------
(* Properties                                                               *)

TypeOK ==
  /\ mb \in [pending : [Task -> Int], err : SUBSET (Shared \X Task),
             reex : SUBSET (Shared \X Task), rb : [Task -> RollbackPoints]]
  /\ ip \in [Task -> 1 .. Len(Prog) + 1]
  /\ cur \in [Task -> -1 .. MaxLevel]
  /\ made \in [Task -> SUBSET Levels] /\ reex \in [Task -> SUBSET Levels]
  /\ pc \in [Task -> {"run", "fence", "fenced", "reduce", "reduced", "recover", "create",
                      "aborted"}]
  /\ ctx \in [Task -> {"none", "begin", "complete", "recover"}]
  /\ sl \in [Task -> Levels] /\ coll \in [Task -> BOOLEAN]
  /\ rlv \in [Task -> RollbackPoints] /\ val \in [Task -> RollbackPoints]
  /\ net \in [Task -> Nat]
  /\ nerr \in 0 .. MaxErrors /\ ntime \in 0 .. MaxTimeouts
  /\ owed \in [Task -> SUBSET Cd]

\* The collective call a task is blocked in, if any.
Blocked(t) == pc[t] \in {"fence", "reduce", "create"}

\* Two tasks are never blocked in different collective calls that each need the
\* other: neither would ever return.  (The tasks of a CD must agree, in Create, SyncCDs
\* and GetCDToRecover, on the CD and on the call.)
NoCollectiveMismatch ==
  \A t, u \in Task :
    Blocked(t) /\ Blocked(u) /\ <<pc[t], sl[t]>> # <<pc[u], sl[u]>> =>
      ~(u \in Member[Cdl(t, sl[t])] /\ t \in Member[Cdl(u, sl[u])])

\* MPI matches fences by window only.  Tasks that meet in the fence of a CD are in the
\* same call of the program: all in the same Begin, or all in the same Complete or
\* recovering the CD.  No task completes an instance another one begins.
InStep ==
  \A t, u \in Task :
    pc[t] = "fence" /\ pc[u] = "fence" /\ sl[t] = sl[u] /\ Cdl(t, sl[t]) = Cdl(u, sl[u]) =>
      /\ ctx[t] = "begin" <=> ctx[u] = "begin"
      /\ ctx[t] = ctx[u] /\ ctx[t] # "recover" => ip[t] = ip[u]

\* "Invalid eslcation point": a task that climbs the path always has a valid
\* rollback point at or above the CD it has reached.
NoInvalidEscalation == \A t \in Task : pc[t] # "aborted"

\* A CD with a reported error is not committed: every task of the CD re-executes it
\* (or a CD around it) before it completes it.
ErrorsAreRecovered ==
  [][\A t \in Task :
       cur'[t] = cur[t] - 1 /\ ip'[t] = ip[t] + 1 => Cdl(t, cur[t]) \notin owed[t]]_vars

\* The program terminates: every rollback is followed by a re-execution that ends.
Termination == <>Finished
=============================================================================
