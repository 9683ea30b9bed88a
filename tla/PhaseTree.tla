----------------------------- MODULE PhaseTree -----------------------------
(***************************************************************************)
(* The phase tree of a task (phase_tree.h, phase_tree.cc) and the failure  *)
(* point that tells when a recovery is over: BeginPhase, CompletePhase,    *)
(* SetFailure, SetHealthy and what GetCDToRecover does to them             *)
(* (cd_internal.cc).                                                       *)
(*                                                                         *)
(* A phase stands for the CDs of one label below one phase; its sequential *)
(* id counts them.  The application is any sequence of Begin and Complete  *)
(* calls: it is chosen as it runs, kept in prog, and followed again after  *)
(* a rollback.  The counters that only feed the profile (seq_acc_,         *)
(* seq_acc_rb_, seq_max_) are left out.                                    *)
(***************************************************************************)
EXTENDS Integers, Sequences

CONSTANTS
  Words,  \* the words of labels
  Apps    \* the applications and when errors are found in them: see Application

\* labels: of the CDs below the root, sequences of words; level, ops, fails: bounds of the
\* CD path, the calls and the rollbacks; loops: levels at which a parent begins the same
\* label more than once; targets: levels an error of a deeper CD may roll back to; midway:
\* a rollback may be noticed before the Complete of the CD.
Application(a) ==
  /\ DOMAIN a = {"labels", "level", "ops", "fails", "loops", "targets", "midway"}
  /\ a.labels \subseteq Seq(Words)
  /\ a.level \in Nat /\ a.ops \in Nat /\ a.fails \in Nat
  /\ a.loops \subseteq 0 .. a.level /\ a.targets \subseteq 0 .. a.level
  /\ a.midway \in BOOLEAN

ASSUME PhaseAssumption == "Root" \in Words /\ \A a \in Apps : Application(a)

\* GetPhaseNode stops task 0, whatever the state, when it is asked for Root_MainLoop_CalcPos.
ASSUME DebugAssumption == ~({"MainLoop", "CalcPos"} \subseteq Words)

VARIABLES
  app,          \* the application that runs
  node,         \* the phases, in the order of phase_gen
  phasePath,    \* path of labels -> phase
  current,      \* phaseTree.current_
  prev_phase,   \* the phase begun last
  failed_phase, \* phase of the first error of a recovery, or HEALTHY
  failed_seqID, \* its sequential id, or HEALTHY
  assertion,    \* the assertion that stopped the task, or "none"
  open,         \* the CD path: phase_ and place of the Begin of every begun CD
  prog,         \* the calls of the application
  ip,           \* the next one
  fails,        \* rollbacks so far
  failed_at     \* history: place of the Begin of the CD that failed

vars == <<app, node, phasePath, current, prev_phase, failed_phase, failed_seqID, assertion,
          open, prog, ip, fails, failed_at>>

Labels   == app.labels
MaxLevel == app.level
MaxOps   == app.ops
MaxFails == app.fails
Loops    == app.loops
Targets  == app.targets
Midway   == app.midway

NULL    == 0
HEALTHY == -1
Root    == <<"Root">>

kExecution   == "kExecution"
kReexecution == "kReexecution"

Level      == Len(open) - 1           \* level of the current CD
Top        == open[Len(open)]
IsGood     == failed_phase = HEALTHY
IsFailed   == ~IsGood

Init ==
  /\ app \in Apps
  /\ node = <<>> /\ phasePath = <<>>
  /\ current = NULL /\ prev_phase = HEALTHY
  /\ failed_phase = HEALTHY /\ failed_seqID = HEALTHY
  /\ assertion = "none"
  /\ open = <<>> /\ prog = <<>> /\ ip = 1 /\ fails = 0 /\ failed_at = 0

----------------------------------------------------------------------------
(* The application                                                          *)

\* The application makes call c: the one it made before a rollback, or a new one.
Call(c) ==
  /\ assertion = "none"
  /\ IF ip <= Len(prog) THEN prog[ip] = c /\ prog' = prog
     ELSE Len(prog) < MaxOps /\ prog' = Append(prog, c)

\* Labels begun at level lv so far, in the current instance of the parent.
Begun(lv) ==
  LET from == IF open = <<>> THEN 1 ELSE Top.at + 1
  IN  {prog[i].label : i \in {j \in from .. ip - 1 :
                                 prog[j].op = "begin" /\ prog[j].lv = lv}}

----------------------------------------------------------------------------
(* PhaseNode                                                                *)

\* Mutant: the path is the label alone.
GetPhasePathLabel(label) == label

\* GetPhasePath(label) of the current phase; the label of the root is not part of the
\* path of its children.
GetPhasePath(label) ==
  IF node[current].parent = NULL THEN label ELSE node[current].path \o label

Children(p) == {c \in DOMAIN node : node[c].parent = p}

\* children_.back(): the child that was made last.
LastChild(p) == CHOOSE c \in Children(p) : \A d \in Children(p) : c >= d

\* The PhaseNode constructor and Init: the sequential ids go on where the previous child
\* of the same parent stands.
NewNode(lv, label, state) ==
  LET left == IF current = NULL \/ Children(current) = {} THEN NULL
              ELSE LastChild(current)
      seq  == IF left = NULL THEN 0 ELSE node[left].seq_end
  IN  [level |-> lv, parent |-> current, left |-> left, state |-> state,
       path |-> IF current = NULL THEN label ELSE node[current].path \o label,
       seq_begin |-> seq, seq_end |-> seq]

\* GetPhaseNode, called on the current phase: the phase of the path, created when there
\* is none.  A known phase inherits kReexecution.
GetPhaseNode(lv, label) ==
  LET key == GetPhasePath(label)
      p   == phasePath[key]
  IN  IF key \in DOMAIN phasePath
      THEN [phase |-> p, paths |-> phasePath,
            nodes |-> IF node[current].state = kReexecution
                      THEN [node EXCEPT ![p].state = kReexecution] ELSE node]
      ELSE [phase |-> Len(node) + 1,
            paths |-> [k \in DOMAIN phasePath \cup {key} |->
                         IF k = key THEN Len(node) + 1 ELSE phasePath[k]],
            nodes |-> Append(node, NewNode(lv, label, node[current].state))]

\* BeginPhase: Init and ReInit give the root, GetPhaseNode the others.
BeginPhase(lv, label) ==
  IF current # NULL THEN GetPhaseNode(lv, label)
  ELSE [phase |-> 1, paths |-> phasePath,
        nodes |-> IF node = <<>> THEN <<NewNode(lv, label, kExecution)>> ELSE node]

\* Mutant: the ids start one too low.
MarkSeqIDOneLess(nodes, p) ==
  LET seq == IF nodes[p].left = NULL THEN 0 ELSE nodes[nodes[p].left].seq_begin - 1
  IN  [nodes EXCEPT ![p].seq_begin = seq, ![p].seq_end = seq]

\* MarkSeqID: the ids of phase p start again where those of its left sibling started.
MarkSeqID(nodes, p) ==
  LET seq == IF nodes[p].left = NULL THEN 0 ELSE nodes[nodes[p].left].seq_begin
  IN  [nodes EXCEPT ![p].seq_begin = seq, ![p].seq_end = seq]

----------------------------------------------------------------------------
(* Begin                                                                    *)

\* The part of CD::Begin that marks a phase begun after another one of its own level or
\* above.
MarkAtBegin(nodes, p, lv) ==
  IF prev_phase # p /\ ~(prev_phase # HEALTHY /\ nodes[prev_phase].level > lv)
  THEN MarkSeqID(nodes, p) ELSE nodes

\* CD_ASSERT(state_ == kExecution) in GetPhaseNode fails.
BeginFails(label) ==
  /\ current # NULL
  /\ GetPhasePath(label) \notin DOMAIN phasePath
  /\ node[current].state # kExecution

Begin(label) ==
  LET lv == Len(open)
      g  == BeginPhase(lv, label)
  IN  /\ lv <= MaxLevel
      /\ IF lv = 0 THEN label = Root ELSE label \in Labels
      /\ Call([op |-> "begin", lv |-> lv, label |-> label])
      /\ lv \notin Loops => label \notin Begun(lv)
      /\ IF BeginFails(label)
         THEN /\ assertion' = "state_ == kExecution"
              /\ UNCHANGED <<node, phasePath, current, prev_phase, open, ip>>
         ELSE /\ node' = MarkAtBegin(g.nodes, g.phase, lv)
              /\ phasePath' = g.paths
              /\ current' = g.phase
              /\ prev_phase' = g.phase
              /\ open' = Append(open, [phase |-> g.phase, at |-> ip])
              /\ ip' = ip + 1
              /\ UNCHANGED assertion
      /\ UNCHANGED <<failed_phase, failed_seqID, fails, failed_at>>

----------------------------------------------------------------------------
(* Complete                                                                 *)

\* Mutant: only the phase that completes leaves re-execution.
FinishRecoveryHere == [node EXCEPT ![current].state = kExecution]

\* FinishRecovery: from the highest re-executing ancestor of the current phase down,
\* every phase is back in execution.
FinishRecovery ==
  LET top[p \in DOMAIN node] ==
        IF node[p].parent = NULL \/ node[node[p].parent].state # kReexecution THEN p
        ELSE top[node[p].parent]
      below[p \in DOMAIN node] ==
        p = top[current] \/ (node[p].parent # NULL /\ below[node[p].parent])
  IN  [p \in DOMAIN node |->
         IF below[p] THEN [node[p] EXCEPT !.state = kExecution] ELSE node[p]]

\* Mutant: a phase of a recovery is back in execution when it completes.
CompletePhaseClears(nodes, p, good) ==
  IF good THEN [nodes EXCEPT ![p].seq_end = @ + 1]
  ELSE [nodes EXCEPT ![p].state = kExecution]

\* CompletePhase of the current phase: one more error-free CD, or one more of a
\* recovery, which stays marked.
CompletePhase(nodes, p, good) ==
  IF good THEN [nodes EXCEPT ![p].seq_end = @ + 1]
  ELSE [nodes EXCEPT ![p].state = kReexecution]

\* The Complete that the failure point names.
AtFailurePoint ==
  IsFailed /\ failed_phase = Top.phase /\ failed_seqID = node[current].seq_end

\* The assertions of Complete, in the order they are met.
CompleteAssertion ==
  IF current = NULL THEN "phaseTree.current_"
  ELSE IF AtFailurePoint /\ node[current].state # kReexecution
  THEN "state_ == kReexecution"
  ELSE IF IsFailed /\ failed_phase = Top.phase /\ node[current].seq_end > failed_seqID
  THEN "curr_seqID > failed_seqID"
  ELSE "none"

\* Complete of the current CD when there is nothing to roll back.
Complete ==
  /\ open # <<>>
  /\ Call([op |-> "complete", lv |-> Level, label |-> <<>>])
  /\ assertion' = CompleteAssertion
  /\ IF assertion' # "none"
     THEN UNCHANGED <<node, current, failed_phase, failed_seqID, open, ip>>
     ELSE /\ node' = CompletePhase(IF AtFailurePoint THEN FinishRecovery ELSE node,
                                   current, IsGood \/ AtFailurePoint)
          /\ current' = node[current].parent
          /\ failed_phase' = IF AtFailurePoint THEN HEALTHY ELSE failed_phase
          /\ failed_seqID' = IF AtFailurePoint THEN HEALTHY ELSE failed_seqID
          /\ open' = SubSeq(open, 1, Level)
          /\ ip' = ip + 1
  /\ UNCHANGED <<phasePath, prev_phase, fails, failed_at>>

----------------------------------------------------------------------------
(* Rollback                                                                 *)

\* Mutant: a second error moves the failure point.
SetFailureAlways ==
  /\ failed_phase' = Top.phase
  /\ failed_seqID' = node[current].seq_end
  /\ failed_at' = IF IsGood THEN Top.at ELSE failed_at

\* Mutant: the id the phase started with is taken for the one that failed.
SetFailureFirstID ==
  IF IsGood
  THEN /\ failed_phase' = Top.phase
       /\ failed_seqID' = node[current].seq_begin
       /\ failed_at' = Top.at
  ELSE UNCHANGED <<failed_phase, failed_seqID, failed_at>>

\* SetFailure: only the first error of a recovery is remembered.
SetFailure ==
  IF IsGood
  THEN /\ failed_phase' = Top.phase
       /\ failed_seqID' = node[current].seq_end
       /\ failed_at' = Top.at
  ELSE UNCHANGED <<failed_phase, failed_seqID, failed_at>>

\* Mutant: the level that is re-executed is reset as well ("<=" for "<").
ResetSeqIDAll(n, rollback_lv) ==
  IF rollback_lv <= n.level THEN [n EXCEPT !.seq_end = n.seq_begin] ELSE n

\* ResetSeqID: the ids of a phase below the level that is re-executed start again.
ResetSeqID(n, rollback_lv) ==
  IF rollback_lv < n.level THEN [n EXCEPT !.seq_end = n.seq_begin] ELSE n

\* The phases GetCDToRecover goes through, one per level from the current CD up to
\* level r: it follows parent_ and not the CD path.
Climbed(r) ==
  LET at[l \in r .. Level] ==
        IF l = Level THEN current
        ELSE IF at[l + 1] = NULL THEN NULL ELSE node[at[l + 1]].parent
  IN  [l \in r .. Level |-> at[l]]

\* rollback_lv as GetCDToRecover reads it at every level from the current CD up to level r,
\* before it synchronizes: the level itself where another task lowers the rollback point later;
\* values below the level all reset the same.
RollbackLv(r) == {lv \in [r .. Level -> r .. Level] : \A l \in r .. Level : lv[l] \in {l, r}}

\* Where the rollback is noticed: in Complete, or before it in Begin, in the Create of a
\* child or in a wait.
RollbackCall ==
  \/ Call([op |-> "complete", lv |-> Level, label |-> <<>>])
  \/ Midway /\ assertion = "none" /\ UNCHANGED prog

\* SetFailure, GetCDToRecover with ResetSeqID and CompletePhase(phase, true) at every
\* level, and the longjmp to the Begin of level r.
Rollback(r) ==
  /\ open # <<>> /\ r \in 0 .. Level
  /\ fails < MaxFails
  /\ r # Level => r \in Targets
  /\ RollbackCall
  /\ fails' = fails + 1
  /\ LET c == Climbed(r)
     IN  IF \E l \in DOMAIN c : c[l] = NULL
         THEN /\ assertion' = "phaseTree.current_"
              /\ UNCHANGED <<node, current, failed_phase, failed_seqID, open, ip, failed_at>>
         ELSE /\ SetFailure
              /\ \E lv \in RollbackLv(r) :
                   node' = [p \in DOMAIN node |->
                              IF \E l \in DOMAIN c : c[l] = p
                              THEN [ResetSeqID(node[p], lv[CHOOSE l \in DOMAIN c : c[l] = p])
                                      EXCEPT !.state = kReexecution]
                              ELSE node[p]]
              /\ current' = node[c[r]].parent
              /\ open' = SubSeq(open, 1, r)
              /\ ip' = open[r + 1].at
              /\ UNCHANGED assertion
  /\ UNCHANGED <<phasePath, prev_phase>>

Next ==
  /\ \/ \E label \in Labels \cup {Root} : Begin(label)
     \/ Complete
     \/ \E r \in 0 .. MaxLevel : Rollback(r)
  /\ UNCHANGED app

Spec == Init /\ [][Next]_vars

----------------------------------------------------------------------------
(* Properties                                                               *)

PTypeOK ==
  /\ node \in Seq([level : 0 .. MaxLevel, parent : Nat, left : Nat,
                   state : {kExecution, kReexecution}, path : Seq(Words),
                   seq_begin : Nat, seq_end : Nat])
  /\ \A p \in DOMAIN node : node[p].parent \in 0 .. p - 1 /\ node[p].left \in 0 .. p - 1
  /\ \A k \in DOMAIN phasePath : phasePath[k] \in DOMAIN node
  /\ current \in 0 .. Len(node)
  /\ prev_phase \in {HEALTHY} \cup DOMAIN node
  /\ failed_phase \in {HEALTHY} \cup DOMAIN node
  /\ failed_seqID \in {HEALTHY} \cup Nat
  /\ ip \in 1 .. Len(prog) + 1 /\ Len(prog) <= MaxOps
  /\ Len(open) <= MaxLevel + 1 /\ fails \in 0 .. MaxFails

\* "curr_seqID should not be greater than failed_seqID" (ERROR_MESSAGE in Complete):
\* while a recovery lasts, the failed phase never gets past the CD that failed.
SeqNeverPassesFailure ==
  IsFailed => failed_seqID # HEALTHY /\ node[failed_phase].seq_end <= failed_seqID

\* CD_ASSERT(state_ == kReexecution) in FinishRecovery: the phase that failed stays
\* marked as re-executing until the recovery is over.
FailedPhaseIsMarked == IsFailed => node[failed_phase].state = kReexecution

\* phaseTree.current_ is the phase of the current CD, and the phase of every CD on the
\* path is of the CD's level and below the phase of its parent: BeginPhase and
\* CompletePhase move one pointer, GetCDToRecover follows parent_.
CurrentFollowsPath ==
  assertion = "none" =>
    /\ current = IF open = <<>> THEN NULL ELSE Top.phase
    /\ \A l \in DOMAIN open :
         /\ node[open[l].phase].level = l - 1
         /\ node[open[l].phase].parent = IF l = 1 THEN NULL ELSE open[l - 1].phase

\* No label contains the separator of the path, '_'.
SingleWords == \A a \in Apps : \A l \in a.labels : Len(l) = 1

\* Errors are noticed in Complete, and if a level loops over a label, then an error rolls back
\* at most one level, to that level or below it, and the CDs it undoes have no children: the
\* applications whose recoveries the failure point tracks.
Orderly ==
  ~Midway /\ \A t \in Targets, l \in Loops : l <= t /\ MaxLevel <= t + 1

\* When no recovery is going on, no phase is left marked as re-executing: a mark left
\* behind stops the task at the next new phase (CD_ASSERT in GetPhaseNode).
HealthyMeansExecuting ==
  Orderly /\ IsGood => \A p \in DOMAIN node : node[p].state = kExecution

\* No assertion of the phase tree stops an orderly task (CD_ASSERT in GetPhaseNode and
\* FinishRecovery, ERROR_MESSAGE in Complete).
NoAssertionFails == Orderly => assertion = "none"

\* A Complete of a recovery: it ends the recovery if and only if it is the one of the CD
\* whose error started it.
EndsAtFailurePoint ==
  IsFailed /\ Len(open') < Len(open) /\ ip' = ip + 1 =>
    (failed_phase' = HEALTHY <=> Top.at = failed_at)

\* A recovery of an orderly task ends with the Complete of the very CD whose error started
\* it, neither before nor after.
OrderlyRecovery == [][Orderly => EndsAtFailurePoint]_vars

\* The same of every task: failed_phase is "reset when CD commits".
RecoveryEndsAtFailurePoint == [][EndsAtFailurePoint]_vars
=============================================================================
