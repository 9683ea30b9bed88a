--------------------------- MODULE PhaseTheorems ---------------------------
(***************************************************************************)
(* The rollbacks of an orderly task keep the invariant of HistoryProofs.   *)
(* The theorems about the phase tree: its types, for every application;    *)
(* the current phase and the failure point, for every application whose    *)
(* labels do not contain the separator of the path; and the recoveries of  *)
(* the orderly ones among them.                                            *)
(***************************************************************************)
EXTENDS RecoveryProofs

----------------------------------------------------------------------------
(* Rollback                                                                 *)

\* The phases of the CDs that a rollback to level r undoes.
Undone(r) == {open[l].phase : l \in r + 1 .. Len(open)}

\* What a rollback to level r does.
RollsBack(r) ==
  /\ Same(node, node') /\ Called(End) /\ Ended /\ Len(open) > 0 /\ current \in DOMAIN node
  /\ r \in Nat /\ r < Len(open) /\ (r + 1 # Len(open) => r \in Targets)
  /\ \A p \in DOMAIN node :
       IF p \in Undone(r)
       THEN /\ node'[p].state = kReexecution
            /\ \/ node'[p].seq_end = node[p].seq_end
               \/ r < node[p].level /\ node'[p].seq_end = node[p].seq_begin
       ELSE node'[p].state = node[p].state /\ node'[p].seq_end = node[p].seq_end
  /\ Len(open') = r /\ DOMAIN open' = 1 .. r /\ \A l \in 1 .. r : open'[l] = open[l]
  /\ ip' = open[r + 1].at /\ r + 1 \in DOMAIN open /\ prev_phase' = prev_phase
  /\ IF IsGood
     THEN /\ failed_phase' = Top.phase /\ failed_seqID' = node[current].seq_end
          /\ failed_at' = Top.at
     ELSE UNCHANGED <<failed_phase, failed_seqID, failed_at>>

\* What a rollback does: its target is allowed, and only ids below it are reset.
LEMMA RollbackFacts ==
  ASSUME LeastNumber, PhaseInv, PathInv, Orderly, NEW r, NEW c, RollbackStep(r, c)
  PROVE  RollsBack(r)
<1>1. /\ Len(open) \in Nat /\ DOMAIN open = 1 .. Len(open) /\ Level = Len(open) - 1
      /\ open \in Seq([phase : Nat, at : Nat])
  BY InvFacts, Zenon
<1>2. /\ Len(open) > 0 /\ r \in 0 .. Level /\ (r # Level => r \in Targets)
      /\ Climbs(c, r) /\ RolledBack(node, node', c, r)
      /\ open' = SubSeq(open, 1, r) /\ ip' = open[r + 1].at /\ prev_phase' = prev_phase
      /\ IF IsGood
         THEN /\ failed_phase' = Top.phase /\ failed_seqID' = node[current].seq_end
              /\ failed_at' = Top.at
         ELSE UNCHANGED <<failed_phase, failed_seqID, failed_at>>
  BY Zenon DEF RollbackStep
<1>3. Called(End)
  <2>1. ~Midway
    BY OrderlyFacts, Zenon DEF PhaseInv
  <2> QED
    BY <2>1, Zenon DEF RollbackStep, End
<1>0. Len(open) \in Nat /\ Level = Len(open) - 1 /\ r \in 0 .. Level /\ Len(open) > 0
  BY <1>1, <1>2, Zenon
<1>4. r \in Nat /\ r < Len(open) /\ (r + 1 # Len(open) => r \in Targets) /\ r + 1 \in DOMAIN open
  <2>1. r \in Nat /\ r < Len(open) /\ (r + 1 # Len(open) => r # Level) /\ r + 1 \in 1 .. Len(open)
    BY <1>0
  <2> QED
    BY <1>1, <1>2, <2>1, Zenon
<1>5. Len(open') = r /\ DOMAIN open' = 1 .. r /\ \A l \in 1 .. r : open'[l] = open[l]
  <2>1. open' = SubSeq(open, 1, r) /\ open \in Seq([phase : Nat, at : Nat]) /\ Len(open) \in Nat
    BY <1>1, <1>2, Zenon
  <2>2. r \in Nat /\ r <= Len(open)
    BY <1>0
  <2> QED
    BY <2>1, <2>2
<1>6. Same(node, node')
  BY <1>2, Zenon DEF RolledBack, Same
<1>7. \A p : p \in Undone(r) <=> \E l \in DOMAIN c : c[l] = p
  <2>1. DOMAIN c = r .. Level /\ \A l \in r .. Level : c[l] = open[l + 1].phase
    BY <1>2, ClimbsThePath, Zenon DEF Climbs
  <2>2. \A l \in r .. Level : l + 1 \in r + 1 .. Len(open)
    BY <1>0
  <2>3. \A l \in r + 1 .. Len(open) : l - 1 \in r .. Level /\ l = (l - 1) + 1
    BY <1>0
  <2> SUFFICES ASSUME NEW p PROVE p \in Undone(r) <=> \E l \in DOMAIN c : c[l] = p
    BY Zenon
  <2>4. ASSUME p \in Undone(r) PROVE \E l \in DOMAIN c : c[l] = p
    <3>1. PICK l \in r + 1 .. Len(open) : p = open[l].phase
      BY <2>4, Zenon DEF Undone
    <3>2. l - 1 \in DOMAIN c /\ c[l - 1] = p
      BY <2>1, <2>3, <3>1, Zenon
    <3> QED
      BY <3>2, Zenon
  <2>5. ASSUME NEW l \in DOMAIN c, c[l] = p PROVE p \in Undone(r)
    BY <2>1, <2>2, <2>5, Zenon DEF Undone
  <2> QED
    BY <2>4, <2>5, Zenon
<1>8. \A p \in DOMAIN node :
        IF p \in Undone(r)
        THEN /\ node'[p].state = kReexecution
             /\ \/ node'[p].seq_end = node[p].seq_end
                \/ r < node[p].level /\ node'[p].seq_end = node[p].seq_begin
        ELSE node'[p].state = node[p].state /\ node'[p].seq_end = node[p].seq_end
  BY <1>2, <1>7, Zenon DEF RolledBack
<1>9. Ended /\ current \in DOMAIN node
  <2>1. Len(open) # 0
    BY <1>0
  <2> QED
    BY <1>3, <2>1, EndCall, CurrentFacts, Zenon
<1> QED
  BY <1>2, <1>3, <1>4, <1>5, <1>6, <1>8, <1>9, ZenonT(30) DEF RollsBack

\* The Begin that the rollback goes back to.
LEMMA RollbackTarget ==
  ASSUME PhaseInv, NEW ph, Calling(ph), Prev(ph), NEW r, RollsBack(r)
  PROVE  /\ ip' \in Begins(prog) /\ ip' \in 1 .. ip - 1 /\ ip' \in Nat /\ prog[ip'].lv = r
         /\ open[r + 1].phase = ph[ip'] /\ Inside(prog, ip', ip - 1) /\ prog'[ip'] = prog[ip']
         /\ prev_phase \in DOMAIN node /\ (prev_phase = ph[ip'] \/ node[prev_phase].level > r)
<1>1. r + 1 \in DOMAIN open /\ ip' = open[r + 1].at /\ r \in Nat
  BY Zenon DEF RollsBack
<1>2. /\ ip' \in Begins(prog) /\ prog[ip'].lv = r + 1 - 1 /\ open[r + 1].phase = ph[ip']
      /\ Inside(prog, ip', ip - 1)
  BY <1>1 DEF Calling, OpenCalls
<1>3. ip' \in 1 .. ip - 1
  BY <1>1, Zenon DEF PhaseInv, PathOK
<1>4. ip' \in Nat /\ ip' \in 1 .. Len(prog)
  BY <1>2, <1>3 DEF Begins
<1>5. prog'[ip'] = prog[ip']
  BY <1>4, Zenon DEF RollsBack, Ended
<1>6. prev_phase \in DOMAIN node /\ (prev_phase = open[r + 1].phase \/ node[prev_phase].level >= r + 1)
  BY <1>1, Zenon DEF Prev, PrevOnPath
<1>7. prev_phase \in DOMAIN node /\ (prev_phase = ph[ip'] \/ node[prev_phase].level > r)
  <2>1. node[prev_phase].level \in Nat
    <3>1. node[prev_phase] \in Phases
      BY <1>6, InvFacts
    <3>2. node[prev_phase].level \in 0 .. MaxLevel
      BY <3>1, PhaseFields, Zenon
    <3> QED
      BY <3>2, InvFacts
  <2> QED
    BY <1>1, <1>2, <1>6, <2>1
<1> QED
  BY <1>1, <1>2, <1>3, <1>4, <1>5, <1>7, SMTT(30)

\* A rollback keeps the history.
LEMMA RollbackHistory ==
  \A ph, rp, r, c :
    /\ LeastNumber /\ PhaseInv /\ PathInv /\ FailInv /\ Orderly /\ History(ph, rp)
    /\ RollbackStep(r, c) /\ app' = app
    => \E q : History(ph, q)'

\* Fewer calls inside a CD.
<0>InsideLess.
  ASSUME NEW pr, NEW j \in Int, NEW m \in Int, NEW i \in Int, i <= m, Inside(pr, j, m)
  PROVE  Inside(pr, j, i)
  <1> USE <0>InsideLess
  <1>1. \A k \in j + 1 .. i : k \in j + 1 .. m
    OBVIOUS
  <1> QED
    BY <1>1, Zenon DEF Inside

\* A rollback keeps the rest of the CD path in the program.
<0>RollbackCalling.
  ASSUME PhaseInv, NEW ph, Calling(ph), Prev(ph), NEW r, RollsBack(r), app' = app
  PROVE  Calling(ph)'
  <1> USE <0>RollbackCalling
  <1>1. Same(node, node') /\ Ended
    BY Zenon DEF RollsBack
  <1>2. Program(node', prog', ph) /\ Distinct(prog', Loops) /\ (Loops = {} => Once(node', prog', ph))
    BY <1>1, EndProgram, Zenon
  <1>3. /\ r \in Nat /\ DOMAIN open' = 1 .. r /\ ip' = open[r + 1].at /\ r + 1 \in DOMAIN open
        /\ \A l \in 1 .. r : open'[l] = open[l]
    BY Zenon DEF RollsBack
  <1>4. /\ Len(open) \in Nat /\ DOMAIN open = 1 .. Len(open) /\ ip \in Nat /\ Len(prog) \in Nat
        /\ ip <= Len(prog) + 1
    BY InvFacts
  <1>5. ip' \in 1 .. ip - 1 /\ ip' \in Nat
    BY RollbackTarget, Zenon
  <1>6. /\ Begins(prog') = Begins(prog)
        /\ \A i \in 1 .. Len(prog) : prog'[i] = prog[i]
        /\ \A j \in Begins(prog), i \in Int : i <= Len(prog) => (Inside(prog', j, i) <=> Inside(prog, j, i))
    BY <1>1, Zenon DEF Ended
  <1>7. ASSUME NEW l \in 1 .. r
        PROVE  /\ open'[l].at \in Begins(prog') /\ open'[l].phase = ph[open'[l].at]
               /\ prog'[open'[l].at].lv = l - 1 /\ Inside(prog', open'[l].at, ip' - 1)
    <2> DEFINE a == open[l].at
    <2>1. l \in DOMAIN open /\ open'[l] = open[l]
      BY <1>3, <1>4
    <2>2. a \in Begins(prog) /\ open[l].phase = ph[a] /\ prog[a].lv = l - 1 /\ Inside(prog, a, ip - 1)
      BY <2>1, Zenon DEF Calling, OpenCalls
    <2> HIDE DEF a
    <2>3. prog'[a] = prog[a]
      BY <1>6, <2>2, Zenon DEF Begins
    <2>4. Inside(prog, a, ip' - 1)
      <3>1. a \in Int
        BY <2>2 DEF Begins
      <3>2. ip - 1 \in Int /\ ip' - 1 \in Int /\ ip' - 1 <= ip - 1
        BY <1>3, <1>4, <1>5
      <3> QED
        BY <2>2, <3>1, <3>2, <0>InsideLess, Zenon
    <2>5. ip' - 1 \in Int /\ ip' - 1 <= Len(prog)
      BY <1>4, <1>5
    <2>6. Inside(prog', a, ip' - 1)
      BY <1>6, <2>2, <2>4, <2>5, Zenon
    <2> QED
      BY <1>6, <2>1, <2>2, <2>3, <2>6, Zenon DEF a
  <1>8. OpenCalls(open', prog', ph, ip')
    BY <1>3, <1>7, Zenon DEF OpenCalls
  <1>9. Loops' = Loops
    BY Zenon DEF Loops
  <1> QED
    BY <1>2, <1>8, <1>9, Zenon DEF Calling

\* A rollback keeps what the ids of the phases satisfy.
<0>RollbackIds.
  ASSUME PhaseInv, NEW ph, Calling(ph), Ids(ph), NEW r, RollsBack(r), app' = app
  PROVE  Ids(ph)'
  <1> USE <0>RollbackIds
  <1>1. Same(node, node') /\ Ended
    BY Zenon DEF RollsBack
  <1>2. /\ Loops = {} => LeftIds(node', prog', ph)
        /\ Loops # {} => ZeroIds(node', DeepLevels)
    BY <1>1, EndIds, Zenon
  <1>3. /\ Len(prog') \in Nat /\ Len(prog) <= Len(prog') /\ Begins(prog') = Begins(prog)
        /\ \A i \in 1 .. Len(prog) : prog'[i] = prog[i]
        /\ \A j \in Begins(prog), i \in Int : i <= Len(prog) => (Inside(prog', j, i) <=> Inside(prog, j, i))
    BY <1>1, Zenon DEF Ended
  <1>4. Len(prog) \in Nat
    BY InvFacts, Zenon
  <1>5. ASSUME NEW j \in Begins(prog), prog'[j].lv \in DeepLevels, Inside(prog', j, Len(prog'))
        PROVE  node'[ph[j]].seq_end = node'[ph[j]].seq_begin
    <2>1. j \in 1 .. Len(prog) /\ ph[j] \in DOMAIN node /\ prog'[j] = prog[j]
      BY <1>3, Zenon DEF Begins, Calling, Program
    <2>2. Inside(prog, j, Len(prog))
      <3>1. \A k \in j + 1 .. Len(prog) : k \in j + 1 .. Len(prog')
        BY <1>3, <1>4, <2>1
      <3>2. Inside(prog', j, Len(prog))
        BY <1>5, <3>1, Zenon DEF Inside
      <3> QED
        BY <1>3, <1>4, <3>2
    <2>3. node[ph[j]].seq_end = node[ph[j]].seq_begin
      BY <1>5, <2>1, <2>2, Zenon DEF Ids, FirstIds
    <2>4. node'[ph[j]].seq_begin = node[ph[j]].seq_begin
      BY <1>1, <2>1, Zenon DEF Same
    <2>5. node'[ph[j]].seq_end \in {node[ph[j]].seq_begin, node[ph[j]].seq_end}
      BY <2>1, Zenon DEF RollsBack
    <2> QED
      BY <2>3, <2>4, <2>5, Zenon
  <1>6. FirstIds(node', prog', ph, DeepLevels)
    BY <1>3, <1>5, Zenon DEF FirstIds
  <1>7. Loops' = Loops /\ DeepLevels' = DeepLevels
    BY Zenon DEF Targets, DeepLevels, MaxLevel, Loops
  <1> QED
    BY <1>2, <1>6, <1>7, Zenon DEF Ids

\* A rollback records a failure and leaves prev_phase at the phase of the next call or deeper.
<0>RollbackPrev.
  ASSUME PhaseInv, PathInv, NEW ph, Calling(ph), Prev(ph), NEW r, RollsBack(r)
  PROVE  Prev(ph)' /\ IsFailed'
  <1> USE <0>RollbackPrev
  <1>1. IsFailed'
    <2>1. Top.phase \in DOMAIN node /\ Top.phase # HEALTHY
      <3>1. Len(open) # 0
        BY DEF RollsBack
      <3>2. Top.phase \in DOMAIN node
        BY <3>1, CurrentFacts, Zenon
      <3> QED
        BY <3>2, InvFacts DEF HEALTHY
    <2> QED
      BY <2>1, Zenon DEF RollsBack, IsFailed, IsGood
  <1>2. PrevOnPath(node', open', prev_phase)
    <2>1. /\ r \in Nat /\ DOMAIN open' = 1 .. r /\ \A l \in 1 .. r : open'[l] = open[l]
          /\ r < Len(open) /\ Same(node, node')
      BY Zenon DEF RollsBack
    <2>2. DOMAIN open' \subseteq DOMAIN open
      BY <2>1, InvFacts
    <2> QED
      BY <2>1, <2>2, ShorterPrev, Zenon DEF Prev
  <1>3. PrevIsLast(node', prog', ph, prev_phase, ip', TRUE)
    <2>1. /\ ip' \in Begins(prog) /\ prog[ip'].lv = r /\ prog'[ip'] = prog[ip']
          /\ prev_phase \in DOMAIN node /\ (prev_phase = ph[ip'] \/ node[prev_phase].level > r)
      BY RollbackTarget, Zenon
    <2>2. Begins(prog') = Begins(prog) /\ DOMAIN node' = DOMAIN node
          /\ \A p \in DOMAIN node : node'[p].level = node[p].level
      BY Zenon DEF RollsBack, Ended, Same, SamePhases
    <2>3. /\ ip' \in Begins(prog') /\ prev_phase \in DOMAIN node'
          /\ prev_phase = ph[ip'] \/ node'[prev_phase].level > prog'[ip'].lv
      BY <2>1, <2>2, Zenon
    <2> QED
      BY <2>3, Zenon DEF PrevIsLast
  <1>4. prev_phase' = prev_phase
    BY Zenon DEF RollsBack
  <1> QED
    BY <1>1, <1>2, <1>3, <1>4, Zenon DEF Prev

\* Of two ancestors of a phase, the deeper one is under the other.
<0>UnderBetween.
  ASSUME NEW n, IsTree(n), PathTree(n), NEW a \in DOMAIN n, NEW p \in DOMAIN n, NEW f \in DOMAIN n,
         Under(n, a, f), Under(n, p, f), n[a].level <= n[p].level
  PROVE  Under(n, a, p)
  <1> USE <0>UnderBetween
  <1>1. /\ n[a].level \in Nat /\ n[p].level \in Nat
        /\ Len(n[a].path) = n[a].level + 1 /\ Len(n[p].path) = n[p].level + 1
    BY PathFields, Zenon
  <1>2. Len(n[a].path) <= Len(n[p].path) /\ Len(n[a].path) \in Nat /\ Len(n[p].path) \in Nat
    BY <1>1
  <1>3. ASSUME NEW i \in 1 .. Len(n[a].path)
        PROVE  n[a].path[i] = n[p].path[i]
    <2>1. i \in 1 .. Len(n[p].path)
      BY <1>2
    <2> QED
      BY <2>1, Zenon DEF Under
  <1> QED
    BY <1>2, <1>3, Zenon DEF Under

\* The phases that a rollback undoes, below the one it goes back to.
<0>UndoneUnder.
  ASSUME LeastNumber, PhaseInv, PathInv, NEW r \in Nat, r < Len(open), NEW l \in 1 .. r + 1
  PROVE  \A p \in Undone(r) : p \in DOMAIN node /\ Under(node, open[l].phase, p)
  <1> USE <0>UndoneUnder
  <1>1. Len(open) \in Nat /\ DOMAIN open = 1 .. Len(open)
    BY InvFacts, Zenon
  <1> SUFFICES ASSUME NEW p \in Undone(r) PROVE p \in DOMAIN node /\ Under(node, open[l].phase, p)
    BY Zenon
  <1>2. PICK m \in r + 1 .. Len(open) : p = open[m].phase
    BY Zenon DEF Undone
  <1>3. m \in DOMAIN open /\ l \in 1 .. m
    BY <1>1
  <1>4. p \in DOMAIN node
    BY <1>2, <1>3, Zenon DEF PhaseInv, PathOK
  <1> QED
    BY <1>2, <1>3, <1>4, OpenUnder, Zenon

\* The phases between the one that the rollback goes back to and one of the CD path are those of
\* the CD path.
<0>UndoneBetween.
  ASSUME LeastNumber, PhaseInv, PathInv, NEW r \in Nat, NEW m \in DOMAIN open, r < m, NEW p \in DOMAIN node,
         Under(node, open[r + 1].phase, p), node[p].level < m,
         NEW f \in DOMAIN node, Under(node, open[m].phase, f), Under(node, p, f)
  PROVE  p \in Undone(r)
  <1> USE <0>UndoneBetween
  <1>1. Len(open) \in Nat /\ DOMAIN open = 1 .. Len(open) /\ IsTree(node) /\ PathTree(node)
    BY InvFacts, Zenon DEF PathInv
  <1>2. m \in 1 .. Len(open) /\ r + 1 \in DOMAIN open
    BY <1>1
  <1>3. \A l \in DOMAIN open : open[l].phase \in DOMAIN node /\ node[open[l].phase].level = l - 1
    BY Zenon DEF PhaseInv, PathOK, PathInv, OnPath
  <1>4. node[p].level \in Nat /\ r <= node[p].level
    <2>1. node[open[r + 1].phase].level <= node[p].level
      BY <1>1, <1>2, <1>3, UnderOrder, Zenon
    <2>2. node[open[r + 1].phase].level = r
      BY <1>2, <1>3
    <2>3. node[p].level \in Nat
      BY <1>1, PathFields, Zenon
    <2> QED
      BY <2>1, <2>2, <2>3, Zenon
  <1> DEFINE k == node[p].level + 1
  <1>5. k \in r + 1 .. Len(open) /\ k \in DOMAIN open /\ k \in 1 .. m
    BY <1>1, <1>2, <1>4
  <1>6. node[open[k].phase].level = node[p].level /\ open[k].phase \in DOMAIN node
    BY <1>3, <1>4, <1>5
  <1>7. Under(node, open[k].phase, f)
    <2>1. Under(node, open[k].phase, open[m].phase)
      BY <1>5, OpenUnder, Zenon
    <2>2. open[m].phase \in DOMAIN node
      BY <1>3, Zenon
    <2> QED
      BY <1>1, <1>6, <2>1, <2>2, UnderOrder, Zenon
  <1> HIDE DEF k
  <1>8. p = open[k].phase
    BY <1>1, <1>6, <1>7, UnderSame, Zenon
  <1> QED
    BY <1>5, <1>8, Zenon DEF Undone

\* The first rollback of a recovery.
<0>RollbackFirst.
  ASSUME LeastNumber, PhaseInv, PathInv, Orderly, NEW ph, NEW rp, History(ph, rp), NEW r, RollsBack(r), IsGood,
         app' = app, NEW q, q = ip'
  PROVE  Recovery(ph, q)'
  <1> USE <0>RollbackFirst
  <1>1. Calling(ph) /\ Ids(ph) /\ Prev(ph) /\ Healthy(node, prog, ip)
    BY Zenon DEF History
  <1>2. /\ ip' \in Begins(prog) /\ ip' \in 1 .. ip - 1 /\ ip' \in Nat /\ prog[ip'].lv = r
        /\ open[r + 1].phase = ph[ip'] /\ Inside(prog, ip', ip - 1) /\ prog'[ip'] = prog[ip']
        /\ prev_phase \in DOMAIN node /\ (prev_phase = ph[ip'] \/ node[prev_phase].level > r)
    BY <1>1, RollbackTarget, Zenon
  <1>3. /\ Same(node, node') /\ Ended /\ r \in Nat /\ r < Len(open) /\ (r + 1 # Len(open) => r \in Targets)
        /\ Len(open') = r /\ failed_phase' = Top.phase /\ failed_seqID' = node[current].seq_end
        /\ failed_at' = Top.at /\ prev_phase' = prev_phase /\ ip' = open[r + 1].at /\ r + 1 \in DOMAIN open
    BY Zenon DEF RollsBack
  <1>4. /\ Len(open) \in Nat /\ DOMAIN open = 1 .. Len(open) /\ ip \in Nat /\ Len(prog) \in Nat
        /\ Level = Len(open) - 1 /\ IsTree(node) /\ PathTree(node) /\ prog \in Seq(Calls) /\ ip - 1 \in Int
    BY InvFacts DEF PathInv
  <1>a. r \in Nat /\ Len(open) \in Nat /\ r < Len(open) /\ Level = Len(open) - 1 /\ DOMAIN open = 1 .. Len(open)
    BY <1>3, <1>4, Zenon
  <1>5. ip = Len(prog) + 1 /\ Len(prog') = ip /\ ip - 1 = Len(prog) /\ Len(prog') - 1 = ip - 1
    <2>1. ip = Len(prog) + 1
      BY <1>1, Zenon DEF Healthy
    <2>2. ip \in Nat /\ Len(prog) \in Nat
      BY <1>4, Zenon
    <2>3. ~(ip <= Len(prog))
      BY <2>1, <2>2
    <2>4. Len(prog') = Len(prog) + 1
      BY <1>3, <2>3, Zenon DEF Ended
    <2> QED
      BY <2>1, <2>2, <2>4
  <1>6. /\ Top.at \in Begins(prog) /\ Top.at \in 1 .. ip - 1 /\ ph[Top.at] = current
        /\ prog[Top.at].lv = Level /\ Inside(prog, Top.at, ip - 1) /\ Top.phase = current
        /\ current \in DOMAIN node /\ Top.at \in 1 .. Len(prog)
    <2>1. Len(open) # 0
      BY <1>a
    <2> QED
      BY <1>1, <1>4, <2>1, TopFacts, CurrentFacts, ZenonT(30) DEF Calling
  <1>7. /\ Begins(prog') = Begins(prog) /\ ip \notin Begins(prog) /\ prog'[ip].lv = Level
        /\ \A i \in 1 .. Len(prog) : prog'[i] = prog[i]
        /\ Inside(prog', Top.at, ip - 1) /\ Inside(prog', ip', ip - 1)
    <2>1. /\ Begins(prog') = Begins(prog) /\ ip \notin Begins(prog) /\ prog'[ip].lv = Level
          /\ \A i \in 1 .. Len(prog) : prog'[i] = prog[i]
          /\ \A j \in Begins(prog), i \in Int : i <= Len(prog) => (Inside(prog', j, i) <=> Inside(prog, j, i))
      BY <1>3, Zenon DEF Ended
    <2>2. ip - 1 <= Len(prog)
      BY <1>4, <1>5
    <2> QED
      BY <1>2, <1>4, <1>6, <2>1, <2>2, ZenonT(30)
  <1>8. Failure(prog', ph, failed_phase', failed_at', ip')
    <2>1. Top.at < Len(prog') /\ ip' <= Len(prog')
      BY <1>2, <1>4, <1>5, <1>6
    <2>2. prog'[Top.at] = prog[Top.at]
      BY <1>6, <1>7, Zenon
    <2> QED
      BY <1>3, <1>5, <1>6, <1>7, <2>1, <2>2, ZenonT(30) DEF Failure
  <1>9. Within(open', prog', failed_at', ip', q, Targets)
    <2>1. r + 1 = Len(open) => ip' = Top.at
      BY <1>3, Zenon DEF Top
    <2>2. ip' <= Top.at
      <3>1. r + 1 # Len(open) => r + 1 < Len(open) /\ Len(open) \in DOMAIN open
        BY <1>a
      <3>2. r + 1 # Len(open) => ip' < Top.at
        BY <1>3, <3>1, Zenon DEF PhaseInv, PathOK, Top
      <3> QED
        BY <1>2, <1>6, <2>1, <3>2
    <2>3. ip' # Top.at => r \in Targets
      BY <1>3, <2>1, Zenon
    <2> QED
      BY <1>2, <1>3, <1>5, <1>7, <2>2, <2>3, ZenonT(30) DEF Within
  <1>10. PrevAtTarget(node', prog', ph, prev_phase', ip', q)
    <2>1. DOMAIN node' = DOMAIN node /\ node'[prev_phase].level = node[prev_phase].level
      BY <1>2, <1>3, Zenon DEF Same, SamePhases
    <2> QED
      BY <1>2, <1>3, <2>1, Zenon DEF PrevAtTarget
  <1>11. node[current].level = Level
    BY <1>1, <1>6, Zenon DEF Calling, Program
  <1>12. Level \in DeepLevels => node[current].seq_end = node[current].seq_begin
    BY <1>1, <1>5, <1>6, Zenon DEF Ids, FirstIds
  <1>13. r < Level => Level \in DeepLevels
    <2> SUFFICES ASSUME r < Level PROVE Level \in DeepLevels
      BY Zenon
    <2>1. r \in Targets
      <3>1. r + 1 # Len(open)
        BY <1>a
      <3> QED
        BY <1>3, <3>1, Zenon
    <2>2. Level \in 0 .. MaxLevel
      <3>1. Len(open) <= MaxLevel + 1 /\ MaxLevel \in Nat
        BY InvFacts, Zenon DEF PhaseInv, PathOK
      <3> QED
        BY <1>a, <3>1
    <2> QED
      BY <2>1, <2>2, OrderlyFacts, Zenon DEF PhaseInv
  <1>14. AtFailedID(node', failed_phase', failed_seqID', DeepLevels)
    <2>1. /\ node'[current].seq_begin = node[current].seq_begin /\ node'[current].level = Level
      BY <1>3, <1>6, <1>11, Zenon DEF Same, SamePhases
    <2>2. node'[current].seq_end = node[current].seq_end
      <3>1. \/ node'[current].seq_end = node[current].seq_end
            \/ r < node[current].level /\ node'[current].seq_end = node[current].seq_begin
        BY <1>6, Zenon DEF RollsBack
      <3> QED
        BY <1>11, <1>12, <1>13, <3>1, Zenon
    <2> QED
      BY <1>3, <1>6, <1>12, <2>1, <2>2, ZenonT(30) DEF AtFailedID
  <1>15. \A a, p \in DOMAIN node : Under(node', a, p) <=> Under(node, a, p)
    BY <1>3, Zenon DEF Under, Same, SamePhases
  <1>16. DOMAIN node' = DOMAIN node /\ ph[ip'] \in DOMAIN node
    BY <1>1, <1>2, <1>3, Zenon DEF Same, SamePhases, Calling, Program
  <1>17. MarkedBelow(node', ph[q], failed_phase')
    <2>1. ASSUME NEW p \in DOMAIN node, node'[p].state = kReexecution
          PROVE  Under(node', ph[ip'], p)
      <3>1. p \in Undone(r)
        <4>1. node[p].state # kReexecution
          BY <1>1, Zenon DEF Healthy, kExecution, kReexecution
        <4> QED
          BY <2>1, <4>1, Zenon DEF RollsBack
      <3>2. r + 1 \in 1 .. r + 1
        BY <1>3
      <3>3. Under(node, ph[ip'], p)
        BY <1>2, <1>3, <3>1, <3>2, <0>UndoneUnder, ZenonT(30)
      <3> QED
        BY <1>15, <1>16, <3>3, Zenon
    <2>2. ASSUME NEW p \in DOMAIN node, Under(node', ph[ip'], p), Under(node', p, current)
          PROVE  node'[p].state = kReexecution
      <3>1. Under(node, open[r + 1].phase, p) /\ Under(node, p, current)
        BY <1>2, <1>6, <1>15, <1>16, <2>2, ZenonT(30)
      <3>2. node[p].level < Len(open)
        <4>1. node[p].level <= Level /\ node[p].level \in Nat
          BY <1>4, <1>6, <1>11, <3>1, UnderOrder, PathFields, ZenonT(30)
        <4> QED
          BY <1>4, <4>1
      <3>3. Len(open) \in DOMAIN open /\ Under(node, open[Len(open)].phase, current)
        <4>1. Len(open) \in DOMAIN open
          BY <1>a
        <4>2. Under(node, current, current)
          BY <1>4, <1>6, UnderOrder, Zenon
        <4> QED
          BY <1>6, <4>1, <4>2, Zenon DEF Top
      <3>4. p \in Undone(r)
        BY <1>3, <1>6, <3>1, <3>2, <3>3, <0>UndoneBetween, ZenonT(30)
      <3> QED
        BY <3>4, Zenon DEF RollsBack
    <2> QED
      BY <1>3, <1>6, <1>16, <2>1, <2>2, ZenonT(30) DEF MarkedBelow
  <1>18. Targets' = Targets /\ DeepLevels' = DeepLevels
    BY Zenon DEF Targets, DeepLevels, MaxLevel
  <1> QED
    BY <1>8, <1>9, <1>10, <1>14, <1>17, <1>18, ZenonT(30) DEF Recovery

\* A rollback during a recovery stays inside the CD the recovery began with, or makes the
\* recovery one of a higher CD.
<0>RollbackWithin.
  ASSUME PhaseInv, PathInv, Orderly, NEW ph, NEW rp, Calling(ph), Prev(ph), IsFailed, Recovery(ph, rp),
         NEW r, RollsBack(r), NEW q, q = IF r < prog[rp].lv THEN ip' ELSE rp
  PROVE  /\ prog' = prog /\ q \in Begins(prog) /\ Within(open', prog', failed_at, ip', q, Targets)
         /\ ip' = q => prog[q].lv = r /\ open[r + 1].phase = ph[q]
         /\ prog[rp].lv \in Nat /\ prog[rp].lv + 1 \in DOMAIN open /\ open[prog[rp].lv + 1].phase = ph[rp]
         /\ r < prog[rp].lv => open[r + 1].phase = ph[q]
  <1> USE <0>RollbackWithin
  <1>1. /\ ip' \in Begins(prog) /\ ip' \in 1 .. ip - 1 /\ ip' \in Nat /\ prog[ip'].lv = r
        /\ open[r + 1].phase = ph[ip'] /\ Inside(prog, ip', ip - 1)
    BY RollbackTarget, Zenon
  <1>2. /\ r \in Nat /\ r < Len(open) /\ (r + 1 # Len(open) => r \in Targets) /\ Len(open') = r
        /\ ip' = open[r + 1].at /\ r + 1 \in DOMAIN open /\ \A l \in 1 .. r : open'[l] = open[l]
    BY Zenon DEF RollsBack
  <1>3. /\ ip \in rp + 1 .. Len(prog) /\ prog' = prog /\ Len(open) > prog[rp].lv
        /\ open[prog[rp].lv + 1].at = rp
    BY FailurePoint, Zenon DEF RollsBack
  <1>4. /\ rp \in Begins(prog) /\ rp <= failed_at /\ Inside(prog, rp, Len(prog) - 1)
        /\ rp # failed_at => prog[rp].lv \in Targets
    BY Zenon DEF Recovery, Within
  <1>5. failed_at \in Begins(prog)
    BY Zenon DEF Recovery, Failure
  <1>6. \A i \in 1 .. Len(prog) : prog[i].lv \in Nat
    BY CallFields, InvFacts, Zenon
  <1> DEFINE t == prog[rp].lv
  <1>7. t \in Nat /\ rp \in Nat /\ Len(open) \in Nat /\ Len(prog) \in Nat
        /\ DOMAIN open = 1 .. Len(open) /\ ip \in Nat
        /\ failed_at \in Nat
    BY <1>4, <1>5, <1>6, InvFacts DEF Begins
  <1>a. r \in Nat /\ t \in Nat
    BY <1>2, <1>7, Zenon
  <1>8. t + 1 \in DOMAIN open /\ open[t + 1].phase = ph[rp] /\ open[t + 1].at = rp
    <2>1. t + 1 \in DOMAIN open
      BY <1>3, <1>7
    <2> QED
      BY <1>3, <2>1, Zenon DEF Calling, OpenCalls
  <1>9. /\ r < t => ip' < rp
        /\ r = t => ip' = rp
        /\ t < r => rp < ip'
    <2>1. \A k, l \in DOMAIN open : k < l => open[k].at < open[l].at
      BY Zenon DEF PhaseInv, PathOK
    <2>2. r < t => r + 1 < t + 1
      BY <1>a
    <2>3. t < r => t + 1 < r + 1
      BY <1>a
    <2> HIDE DEF t
    <2> QED
      BY <1>2, <1>8, <2>1, <2>2, <2>3, ZenonT(30)
  <1> HIDE DEF t
  <1>10. CASE r < t
    <2>1. q = ip'
      BY <1>10, Zenon DEF t
    <2>2. ip' <= failed_at
      <3>1. ip' < rp /\ ip' \in Nat
        BY <1>1, <1>9, <1>10, Zenon
      <3> QED
        BY <1>4, <1>7, <3>1
    <2>3. \A k \in ip' + 1 .. Len(prog) - 1 : k \in ip' + 1 .. ip - 1 \/ k \in rp + 1 .. Len(prog) - 1
      <3>1. rp < ip /\ ip' \in Nat
        BY <1>1, <1>3, <1>7
      <3>2. ip \in Nat /\ rp \in Nat /\ Len(prog) \in Nat
        BY <1>7, Zenon
      <3>3. \A a, b, c, n \in Nat :
              b < c => \A k \in a + 1 .. n - 1 : k \in a + 1 .. c - 1 \/ k \in b + 1 .. n - 1
        OBVIOUS
      <3> QED
        BY <3>1, <3>2, <3>3, Zenon
    <2>4. ASSUME NEW k \in ip' + 1 .. Len(prog) - 1
          PROVE  prog[k].lv > r
      <3>1. CASE k \in ip' + 1 .. ip - 1
        BY <1>1, <3>1, Zenon DEF Inside
      <3>2. CASE k \in rp + 1 .. Len(prog) - 1
        <4>1. prog[k].lv > t
          BY <1>4, <3>2, Zenon DEF Inside, t
        <4>2. k \in 1 .. Len(prog)
          BY <1>7, <3>2
        <4>3. prog[k].lv \in Nat
          BY <1>6, <4>2, Zenon
        <4>4. r \in Nat /\ t \in Nat
          BY <1>2, <1>7, Zenon
        <4> QED
          BY <1>10, <4>1, <4>3, <4>4
      <3> QED
        BY <2>3, <3>1, <3>2, Zenon
    <2>5. Inside(prog, ip', Len(prog) - 1)
      BY <1>1, <2>4, Zenon DEF Inside
    <2>6. r \in Targets
      <3>1. r + 1 # Len(open)
        <4>1. r \in Nat /\ t \in Nat /\ Len(open) \in Nat /\ Len(open) > t
          BY <1>2, <1>3, <1>7, Zenon DEF t
        <4> QED
          BY <1>10, <4>1
      <3> QED
        BY <1>2, <3>1, Zenon
    <2>7. Within(open', prog', failed_at, ip', ip', Targets)
      BY <1>1, <1>2, <1>3, <2>2, <2>5, <2>6, ZenonT(30) DEF Within
    <2> QED
      BY <1>1, <1>3, <1>7, <1>8, <2>1, <2>7, ZenonT(30) DEF t
  <1>11. CASE ~(r < t)
    <2>1. q = rp
      BY <1>11, Zenon DEF t
    <2>2. r = t \/ t < r
      BY <1>a, <1>11
    <2>3. \/ ip' = rp /\ Len(open') = t
          \/ ip' > rp /\ Len(open') > t /\ open'[t + 1].at = rp
      <3>1. CASE r = t
        BY <1>2, <1>9, <3>1, Zenon
      <3>2. CASE t < r
        <4>1. t + 1 \in 1 .. r /\ r > t
          BY <1>a, <3>2
        <4>2. rp < ip' /\ ip' > rp
          BY <1>1, <1>7, <1>9, <3>2, Zenon
        <4> QED
          BY <1>2, <1>8, <4>1, <4>2, Zenon
      <3> QED
        BY <2>2, <3>1, <3>2, Zenon
    <2>4. Within(open', prog', failed_at, ip', rp, Targets)
      BY <1>3, <1>4, <2>3, Zenon DEF Within, t
    <2> QED
      BY <1>1, <1>3, <1>4, <1>7, <1>8, <1>11, <2>1, <2>4, ZenonT(30) DEF t
  <1> QED
    BY <1>10, <1>11, Zenon

\* A rollback during a recovery leaves the phase that failed at the id that failed.
<0>RollbackAtFailed.
  ASSUME PhaseInv, PathInv, Orderly, NEW r, RollsBack(r), failed_phase \in DOMAIN node,
         AtFailedID(node, failed_phase, failed_seqID, DeepLevels)
  PROVE  AtFailedID(node', failed_phase, failed_seqID, DeepLevels)
  <1> USE <0>RollbackAtFailed
  <1>1. /\ node'[failed_phase].level = node[failed_phase].level
        /\ node'[failed_phase].seq_begin = node[failed_phase].seq_begin
    BY Zenon DEF RollsBack, Same, SamePhases
  <1>2. node'[failed_phase].seq_end = node[failed_phase].seq_end
    <2>1. CASE failed_phase \in Undone(r) /\ r < node[failed_phase].level
      <3>1. PICK m \in r + 1 .. Len(open) : failed_phase = open[m].phase
        BY <2>1, Zenon DEF Undone
      <3>2. /\ r \in Nat /\ Len(open) \in Nat /\ DOMAIN open = 1 .. Len(open) /\ Len(open) <= MaxLevel + 1
            /\ MaxLevel \in Nat
        BY InvFacts, Zenon DEF RollsBack, PhaseInv, PathOK
      <3>3. m \in DOMAIN open /\ m \in Nat
        BY <3>2
      <3>4. node[failed_phase].level = m - 1
        BY <3>1, <3>3, Zenon DEF PathInv, OnPath
      <3>5. r < m - 1
        BY <2>1, <3>4, Zenon
      <3>6. r + 1 # Len(open) /\ m - 1 \in 0 .. MaxLevel
        <4>1. /\ r \in Nat /\ Len(open) \in Nat /\ Len(open) <= MaxLevel + 1 /\ MaxLevel \in Nat
              /\ m \in Nat /\ m <= Len(open) /\ m # 0
          BY <3>2, <3>3
        <4>2. m - 1 <= MaxLevel /\ m - 1 >= 0
          BY <4>1
        <4>3. r + 1 # Len(open)
          BY <3>5, <4>1
        <4> QED
          BY <4>1, <4>2, <4>3
      <3>7. r \in Targets
        BY <3>6, Zenon DEF RollsBack
      <3>8. m - 1 \in DeepLevels
        BY <3>5, <3>6, <3>7, OrderlyFacts, Zenon DEF PhaseInv
      <3>9. node[failed_phase].seq_begin = node[failed_phase].seq_end
        BY <3>4, <3>8, Zenon DEF AtFailedID
      <3> QED
        BY <2>1, <3>9, Zenon DEF RollsBack
    <2>2. CASE ~(failed_phase \in Undone(r) /\ r < node[failed_phase].level)
      BY <2>2, Zenon DEF RollsBack
    <2> QED
      BY <2>1, <2>2, Zenon
  <1> QED
    BY <1>1, <1>2, Zenon DEF AtFailedID

\* A rollback during a recovery marks the phases from the CD it goes back to down to the one
\* that failed.
<0>RollbackMarked.
  ASSUME LeastNumber, PhaseInv, PathInv, NEW r, RollsBack(r), NEW t \in Nat, t + 1 \in DOMAIN open,
         failed_phase \in DOMAIN node, node[failed_phase].state = kReexecution,
         MarkedBelow(node, open[t + 1].phase, failed_phase),
         NEW b, b = IF r < t THEN open[r + 1].phase ELSE open[t + 1].phase
  PROVE  MarkedBelow(node', b, failed_phase)
  <1> USE <0>RollbackMarked
  <1>1. /\ IsTree(node) /\ PathTree(node) /\ Len(open) \in Nat /\ DOMAIN open = 1 .. Len(open)
    BY InvFacts, Zenon DEF PathInv
  <1>2. r \in Nat /\ r < Len(open) /\ r + 1 \in DOMAIN open
    BY Zenon DEF RollsBack
  <1>3. \A l \in DOMAIN open : open[l].phase \in DOMAIN node /\ node[open[l].phase].level = l - 1
    BY Zenon DEF PhaseInv, PathOK, PathInv, OnPath
  <1>4. DOMAIN node' = DOMAIN node /\ \A a, p \in DOMAIN node : Under(node', a, p) <=> Under(node, a, p)
    BY Zenon DEF RollsBack, Under, Same, SamePhases
  <1> DEFINE d == open[t + 1].phase
  <1>5. d \in DOMAIN node /\ b \in DOMAIN node /\ node[d].level = t
    BY <1>2, <1>3
  <1>6. Under(node, b, d)
    <2>1. r < t => r + 1 \in 1 .. t + 1
      BY <1>2
    <2>2. CASE r < t
      BY <2>1, <2>2, OpenUnder, Zenon
    <2>3. CASE ~(r < t)
      BY <1>1, <1>5, <2>3, UnderOrder, Zenon
    <2> QED
      BY <2>2, <2>3, Zenon
  <1>7. Under(node, d, failed_phase)
    BY Zenon DEF MarkedBelow
  <1>8. ASSUME NEW p \in DOMAIN node, node'[p].state = kReexecution
        PROVE  Under(node, b, p)
    <2>1. CASE p \in Undone(r)
      <3>1. CASE r < t
        <4>1. r + 1 \in 1 .. r + 1
          BY <1>2
        <4> QED
          BY <1>2, <2>1, <3>1, <4>1, <0>UndoneUnder, Zenon
      <3>2. CASE ~(r < t)
        <4>1. t + 1 \in 1 .. r + 1
          BY <1>2, <3>2
        <4> QED
          BY <1>2, <2>1, <3>2, <4>1, <0>UndoneUnder, Zenon
      <3> QED
        BY <3>1, <3>2, Zenon
    <2>2. CASE p \notin Undone(r)
      <3>1. node[p].state = kReexecution
        BY <1>8, <2>2, Zenon DEF RollsBack
      <3>2. Under(node, d, p)
        BY <3>1, Zenon DEF MarkedBelow
      <3> QED
        BY <1>1, <1>5, <1>6, <3>2, UnderOrder, Zenon
    <2> QED
      BY <2>1, <2>2, Zenon
  <1>9. ASSUME NEW p \in DOMAIN node, Under(node, b, p), Under(node, p, failed_phase)
        PROVE  node'[p].state = kReexecution
    <2>1. node[p].state = kReexecution => node'[p].state = kReexecution
      BY Zenon DEF RollsBack
    <2>2. CASE Under(node, d, p)
      <3>1. node[p].state = kReexecution
        BY <1>9, <2>2, Zenon DEF MarkedBelow
      <3> QED
        BY <2>1, <3>1, Zenon
    <2>3. CASE ~Under(node, d, p)
      <3>1. r < t
        BY <1>9, <2>3, Zenon
      <3>2. node[p].level \in Nat
        BY <1>1, PathFields, Zenon
      <3>3. ~(node[d].level <= node[p].level)
        BY <1>1, <1>5, <1>7, <1>9, <2>3, <0>UnderBetween, Zenon
      <3>4. node[p].level < t + 1 /\ r < t + 1
        BY <1>2, <1>5, <3>1, <3>2, <3>3, SMTT(30)
      <3>5. Under(node, open[r + 1].phase, p)
        BY <1>9, <3>1, Zenon
      <3>6. p \in Undone(r)
        BY <1>2, <1>7, <1>9, <3>4, <3>5, <0>UndoneBetween, ZenonT(30)
      <3> QED
        BY <3>6, Zenon DEF RollsBack
    <2> QED
      BY <2>2, <2>3, Zenon
  <1> QED
    BY <1>4, <1>5, <1>8, <1>9, Zenon DEF MarkedBelow

\* A rollback during a recovery.
<0>RollbackAgain.
  ASSUME LeastNumber, PhaseInv, PathInv, FailInv, Orderly, NEW ph, NEW rp, History(ph, rp), NEW r, RollsBack(r),
         IsFailed, ~IsGood, app' = app, NEW q, q = IF r < prog[rp].lv THEN ip' ELSE rp
  PROVE  Recovery(ph, q)'
  <1> USE <0>RollbackAgain
  <1>1. Calling(ph) /\ Prev(ph) /\ Recovery(ph, rp)
    BY Zenon DEF History
  <1>2. /\ prog' = prog /\ q \in Begins(prog) /\ Within(open', prog', failed_at, ip', q, Targets)
        /\ ip' = q => prog[q].lv = r /\ open[r + 1].phase = ph[q]
        /\ prog[rp].lv \in Nat /\ prog[rp].lv + 1 \in DOMAIN open /\ open[prog[rp].lv + 1].phase = ph[rp]
        /\ r < prog[rp].lv => open[r + 1].phase = ph[q]
    BY <1>1, <0>RollbackWithin, SMTT(30)
  <1>3. /\ failed_phase' = failed_phase /\ failed_seqID' = failed_seqID /\ failed_at' = failed_at
        /\ prev_phase' = prev_phase /\ Same(node, node')
    BY Zenon DEF RollsBack
  <1>4. /\ prev_phase \in DOMAIN node /\ (prev_phase = ph[ip'] \/ node[prev_phase].level > r)
        /\ ip' \in Nat /\ ip' \in 1 .. ip - 1 /\ prog[ip'].lv = r
    BY <1>1, RollbackTarget, Zenon
  <1>5. Failure(prog', ph, failed_phase', failed_at', ip')
    <2>1. Failure(prog, ph, failed_phase, failed_at, ip)
      BY <1>1, Zenon DEF Recovery
    <2>2. ip' <= Len(prog)
      <3>1. ip <= Len(prog) /\ ip \in Nat /\ Len(prog) \in Nat
        BY <2>1, InvFacts, Zenon DEF Failure
      <3> QED
        BY <1>4, <3>1
    <2> QED
      BY <1>2, <1>3, <2>1, <2>2, Zenon DEF Failure
  <1>6. PrevAtTarget(node', prog', ph, prev_phase', ip', q)
    <2>1. DOMAIN node' = DOMAIN node /\ node'[prev_phase].level = node[prev_phase].level
      BY <1>3, <1>4, Zenon DEF Same, SamePhases
    <2> QED
      BY <1>2, <1>3, <1>4, <2>1, Zenon DEF PrevAtTarget
  <1>7. failed_phase \in DOMAIN node /\ node[failed_phase].state = kReexecution
    <2>1. failed_phase \in DOMAIN node
      BY <1>1, Zenon DEF Recovery, Failure, Calling, Program
    <2> QED
      BY <2>1, Zenon DEF FailInv
  <1>8. AtFailedID(node', failed_phase', failed_seqID', DeepLevels)
    <2>1. AtFailedID(node, failed_phase, failed_seqID, DeepLevels)
      BY <1>1, Zenon DEF Recovery
    <2> QED
      BY <1>3, <1>7, <2>1, <0>RollbackAtFailed, Zenon
  <1>9. MarkedBelow(node', ph[q], failed_phase')
    <2>1. MarkedBelow(node, open[prog[rp].lv + 1].phase, failed_phase)
      BY <1>1, <1>2, Zenon DEF Recovery
    <2>2. ph[q] = IF r < prog[rp].lv THEN open[r + 1].phase ELSE open[prog[rp].lv + 1].phase
      BY <1>2, Zenon
    <2>3. MarkedBelow(node', ph[q], failed_phase)
      BY <1>2, <1>7, <2>1, <2>2, <0>RollbackMarked, Zenon
    <2> QED
      BY <1>3, <2>3, Zenon
  <1>10. Targets' = Targets /\ DeepLevels' = DeepLevels
    BY Zenon DEF Targets, DeepLevels, MaxLevel
  <1>11. Within(open', prog', failed_at', ip', q, Targets)
    BY <1>2, <1>3, Zenon
  <1> QED
    BY <1>5, <1>6, <1>8, <1>9, <1>10, <1>11, ZenonT(30) DEF Recovery
<0> QED
  <1> SUFFICES ASSUME LeastNumber, PhaseInv, PathInv, FailInv, Orderly, NEW ph, NEW rp, History(ph, rp), NEW r,
                      NEW c, RollbackStep(r, c), app' = app
               PROVE  \E q : History(ph, q)'
    BY Zenon
  <1>1. RollsBack(r)
    BY RollbackFacts, Zenon
  <1>2. assertion' = "none"
    BY Zenon DEF RollbackStep
  <1>3. Calling(ph) /\ Ids(ph) /\ Prev(ph)
    BY Zenon DEF History
  <1>4. Calling(ph)' /\ Ids(ph)' /\ Prev(ph)' /\ IsFailed'
    BY <1>1, <1>3, <0>RollbackCalling, <0>RollbackIds, <0>RollbackPrev, Zenon
  <1>5. ~IsGood'
    BY <1>4, Zenon DEF IsGood, IsFailed
  <1>6. PICK q : q = IF IsGood THEN ip' ELSE IF r < prog[rp].lv THEN ip' ELSE rp
    BY Zenon
  <1>7. Recovery(ph, q)'
    <2>1. CASE IsGood
      BY <1>1, <1>6, <2>1, <0>RollbackFirst, Zenon
    <2>2. CASE ~IsGood
      <3>1. IsFailed
        BY <2>2, Zenon DEF IsGood, IsFailed
      <3> QED
        BY <1>1, <1>6, <2>2, <3>1, <0>RollbackAgain, Zenon
    <2> QED
      BY <2>1, <2>2, Zenon
  <1>8. History(ph, q)'
    BY <1>2, <1>4, <1>5, <1>7, Zenon DEF History
  <1> QED
    BY <1>8, Zenon

----------------------------------------------------------------------------
(* No assertion stops the task, and the invariant is inductive              *)

\* A task that is orderly meets no assertion.
LEMMA NoStopStep ==
  \A ph, rp :
    LeastNumber /\ TaskInv /\ SingleWords /\ History(ph, rp) /\ Next => \A c \in Calls : ~StopStep(c)

\* GetPhaseNode makes no new phase under a phase that is marked: without a recovery no phase
\* is, and a recovery begins phases that are known.
<0>BeginPasses.
  ASSUME PhaseInv, PathInv, SingleWords, NEW ph, NEW rp, History(ph, rp), NEW label, Begin(label)
  PROVE  assertion' = "none"
  <1> USE <0>BeginPasses
  <1>1. /\ Len(open) <= MaxLevel
        /\ IF Len(open) = 0 THEN label = Root ELSE label \in Labels
        /\ Call([op |-> "begin", lv |-> Len(open), label |-> label])
        /\ ~BeginFails(label) => assertion' = assertion
    BY Zenon DEF Begin
  <1>2. assertion = "none"
    BY Zenon DEF History
  <1>3. ASSUME BeginFails(label)
        PROVE  FALSE
    <2>1. current # NULL /\ GetPhasePath(label) \notin DOMAIN phasePath /\ node[current].state # kExecution
      BY <1>3, Zenon DEF BeginFails
    <2>2. Len(open) # 0 /\ current \in DOMAIN node /\ label \in Labels
      BY <1>1, <2>1, CurrentFacts, Zenon
    <2>3. CASE IsGood
      BY <2>1, <2>2, <2>3, Zenon DEF History, Healthy
    <2>4. CASE IsFailed
      <3>1. Calling(ph) /\ ip <= Len(prog)
        BY <2>4, Zenon DEF History, Recovery, Failure
      <3>2. prog[ip] = [op |-> "begin", lv |-> Len(open), label |-> label]
        BY <1>1, <3>1, Zenon DEF Call
      <3>3. ip \in Begins(prog) /\ prog[ip].lv = Len(open) /\ prog[ip].label = label
        <4>1. ip \in 1 .. Len(prog)
          BY <3>1, InvFacts
        <4> QED
          BY <3>2, <4>1 DEF Begins
      <3>4. /\ Top.at \in Begins(prog) /\ Top.at \in 1 .. ip - 1 /\ ph[Top.at] = current
            /\ prog[Top.at].lv = Len(open) - 1 /\ Inside(prog, Top.at, ip - 1)
        BY <2>2, <3>1, TopFacts, Zenon DEF Calling
      <3>5. Len(open) \in Nat /\ ip \in Nat
        BY InvFacts, Zenon
      <3>6. Inside(prog, Top.at, ip)
        <4>1. Top.at \in Nat /\ Top.at < ip
          BY <3>4, <3>5
        <4>2. prog[ip].lv > prog[Top.at].lv
          BY <3>3, <3>4, <3>5
        <4> QED
          BY <3>4, <3>5, <4>1, <4>2, InsideNext, Zenon
      <3>7. ph[ip] \in DOMAIN node /\ node[ph[ip]].parent = current
            /\ node[ph[ip]].path = node[current].path \o label
        <4>1. Top.at < ip /\ prog[ip].lv = prog[Top.at].lv + 1
          BY <3>3, <3>4, <3>5, SMTT(30)
        <4> QED
          BY <3>1, <3>3, <3>4, <3>6, <4>1, Zenon DEF Calling, Program
      <3>8. ph[ip] # 1
        <4>1. current \in 0 .. ph[ip] - 1
          BY <3>7, InvFacts, Zenon DEF IsTree
        <4>2. current \in Nat /\ current # 0
          BY <2>2, InvFacts
        <4> QED
          BY <4>1, <4>2
      <3>9. PICK k \in DOMAIN phasePath : phasePath[k] = ph[ip]
        BY <3>7, <3>8, Zenon DEF PathInv, KeyMap
      <3>10. k \in Seq(Words) /\ Len(k) # 2 /\ FullPath(k) = node[current].path \o label
        BY <3>7, <3>9, Zenon DEF PathInv, KeyMap
      <3>11. /\ FullPath(GetPhasePath(label)) = node[current].path \o label
             /\ GetPhasePath(label) \in Seq(Words) /\ Len(GetPhasePath(label)) # 2
        BY <2>1, <2>2, KeyIsPath, Zenon
      <3>12. k = GetPhasePath(label)
        BY <3>10, <3>11, OneKey, Zenon
      <3> QED
        BY <2>1, <3>12, Zenon
    <2> QED
      BY <2>3, <2>4, Zenon DEF IsFailed
  <1> QED
    BY <1>1, <1>2, <1>3, Zenon

\* Complete meets none of its assertions.
<0>CompletePasses.
  ASSUME PhaseInv, PathInv, FailInv, Complete
  PROVE  assertion' = "none"
  <1> USE <0>CompletePasses
  <1>1. open # <<>> /\ assertion' = CompleteAssertion
    BY Zenon DEF Complete
  <1>2. Len(open) # 0 /\ current # NULL /\ current = Top.phase /\ current \in DOMAIN node
    <2>1. Len(open) # 0
      BY <1>1, InvFacts
    <2> QED
      BY <2>1, CurrentFacts, Zenon
  <1>3. ASSUME IsFailed, failed_phase = Top.phase
        PROVE  node[current].state = kReexecution /\ ~(node[current].seq_end > failed_seqID)
    <2>1. node[current].state = kReexecution /\ node[current].seq_end <= failed_seqID
      BY <1>2, <1>3, Zenon DEF FailInv
    <2>2. failed_seqID \in Nat /\ node[current].seq_end \in Nat
      <3>1. failed_seqID \in Nat
        BY <1>2, <1>3, Zenon DEF PhaseInv, PointOK
      <3>2. node[current] \in Phases
        BY <1>2, <1>3, InvFacts
      <3> QED
        BY <3>1, <3>2, PhaseFields, Zenon
    <2> QED
      BY <2>1, <2>2
  <1> QED
    BY <1>1, <1>2, <1>3, Zenon DEF CompleteAssertion, AtFailurePoint

\* Every level that a rollback undoes has a phase.
<0>RollbackPasses.
  ASSUME LeastNumber, PhaseInv, PathInv, NEW r, Rollback(r)
  PROVE  assertion' = "none"
  <1> USE <0>RollbackPasses
  <1>1. open # <<>> /\ r \in 0 .. Level /\ RollbackCall
    BY Zenon DEF Rollback
  <1>2. assertion = "none"
    BY <1>1, Zenon DEF RollbackCall, Call
  <1>3. Len(open) \in Nat /\ Len(open) > 0 /\ DOMAIN open = 1 .. Len(open)
        /\ Level = Len(open) - 1 /\ Level \in Int
    BY <1>1, InvFacts
  <1>4. current \in 0 .. Len(node) /\ IsTree(node) /\ Len(node) \in Nat /\ DOMAIN node = 1 .. Len(node)
    BY InvFacts, Zenon DEF PhaseInv, TreeOK
  <1>5. Climbs(Climbed(r), r)
    BY <1>1, <1>3, <1>4, ClimbedClimbs, Zenon
  <1>6. \A l \in r .. Level : Climbed(r)[l] = open[l + 1].phase
    BY <1>1, <1>3, <1>5, ClimbsThePath, Zenon
  <1>7. DOMAIN Climbed(r) = r .. Level
    BY <1>5, Zenon DEF Climbs
  <1>8. ASSUME NEW l \in DOMAIN Climbed(r)
        PROVE  Climbed(r)[l] # NULL
    <2>1. r \in Nat
      BY <1>1, <1>3
    <2>2. l + 1 \in DOMAIN open
      BY <1>3, <1>7, <2>1
    <2>3. open[l + 1].phase \in DOMAIN node
      BY <2>2, Zenon DEF PhaseInv, PathOK
    <2> QED
      BY <1>4, <1>6, <1>7, <2>3 DEF NULL
  <1> DEFINE c == Climbed(r)
  <1>9. ~\E l \in DOMAIN c : c[l] = NULL
    BY <1>8, Zenon
  <1>10. IF \E l \in DOMAIN c : c[l] = NULL THEN TRUE ELSE UNCHANGED assertion
    BY Zenon DEF Rollback
  <1> HIDE DEF c
  <1> QED
    BY <1>2, <1>9, <1>10, Zenon
<0> QED
  <1> SUFFICES ASSUME LeastNumber, TaskInv, SingleWords, NEW ph, NEW rp, History(ph, rp), Next
               PROVE  \A c \in Calls : ~StopStep(c)
    BY Zenon
  <1>1. PhaseInv /\ PathInv /\ FailInv
    BY Zenon DEF TaskInv
  <1>2. assertion' = "none"
    BY <1>1, <0>BeginPasses, <0>CompletePasses, <0>RollbackPasses, Zenon DEF Next
  <1> QED
    BY <1>2, Zenon DEF StopStep

\* A step of an orderly task goes on with its history.
LEMMA HistoryStep ==
  ASSUME LeastNumber, TaskInv, SingleWords, Orderly, NEW ph, NEW rp, History(ph, rp), Next
  PROVE  \E q, z : History(q, z)'
<1>1. PhaseInv /\ PathInv /\ FailInv
  BY Zenon DEF TaskInv
<1>2. /\ app' = app
      /\ \/ \E g, label : BeginStep(g, label)
         \/ \E n : CompleteStep(n)
         \/ \E r, c : RollbackStep(r, c)
  BY <1>1, StepIs, NoStopStep, Zenon
<1>3. ASSUME NEW g, NEW label, BeginStep(g, label)
      PROVE  \E q, z : History(q, z)'
  <2>1. PICK q : q = [i \in Begins(prog) \cup {ip} |-> IF i = ip THEN g.phase ELSE ph[i]]
    BY Zenon
  <2>2. q[ip] = g.phase
    BY <2>1, Zenon
  <2>3. ASSUME NEW i \in Begins(prog)
        PROVE  q[i] = ph[i]
    <3>1. CASE i = ip
      <4>1. ip <= Len(prog)
        BY <3>1 DEF Begins
      <4>2. Calling(ph)
        BY Zenon DEF History
      <4>3. g.phase = ph[ip]
        BY <1>1, <1>3, <4>1, <4>2, ReplayPhase, Zenon
      <4> QED
        BY <2>2, <3>1, <4>3, Zenon
    <3>2. CASE i # ip
      BY <2>1, <3>2, Zenon
    <3> QED
      BY <3>1, <3>2, Zenon
  <2>4. Extended(ph, q, g)
    BY <2>2, <2>3, Zenon DEF Extended
  <2>5. History(q, rp)'
    BY <1>1, <1>2, <1>3, <2>4, BeginHistory, Zenon
  <2> QED
    BY <2>5, Zenon
<1>4. ASSUME NEW n, CompleteStep(n)
      PROVE  \E q, z : History(q, z)'
  <2>1. History(ph, rp)'
    BY <1>1, <1>2, <1>4, CompleteHistory, Zenon
  <2> QED
    BY <2>1, Zenon
<1>5. ASSUME NEW r, NEW c, RollbackStep(r, c)
      PROVE  \E q, z : History(q, z)'
  <2>1. \E z : History(ph, z)'
    BY <1>1, <1>2, <1>5, RollbackHistory, Zenon
  <2> QED
    BY <2>1, Zenon
<1> QED
  BY <1>2, <1>3, <1>4, <1>5, Zenon

\* Before the first call.
LEMMA HistoryInit ==
  ASSUME Init
  PROVE  OrderlyInv
<1>1. /\ node = <<>> /\ open = <<>> /\ prog = <<>> /\ ip = 1 /\ prev_phase = HEALTHY
      /\ assertion = "none" /\ IsGood
  BY Zenon DEF Init, IsGood
<1>2. Begins(prog) = {} /\ DOMAIN open = {} /\ DOMAIN node = {} /\ ip = Len(prog) + 1 /\ ~IsFailed
  BY <1>1 DEF Begins, IsFailed
<1>3. PICK ph : ph = <<>>
  BY Zenon
<1>4. Calling(ph)
  BY <1>2, Zenon DEF Calling, Program, OpenCalls, Distinct, Once
<1>5. Ids(ph)
  BY <1>2, Zenon DEF Ids, LeftIds, ZeroIds, FirstIds
<1>6. Prev(ph)
  BY <1>1, <1>2, Zenon DEF Prev, PrevOnPath, PrevIsLast
<1>7. Healthy(node, prog, ip)
  BY <1>2, Zenon DEF Healthy
<1>8. History(ph, ph)
  BY <1>1, <1>2, <1>4, <1>5, <1>6, <1>7, Zenon DEF History
<1> QED
  BY <1>8, Zenon DEF OrderlyInv

\* Nothing changes the history between two calls.
LEMMA HistoryStutter ==
  ASSUME NEW ph, NEW rp, History(ph, rp), UNCHANGED vars
  PROVE  History(ph, rp)'
<1>1. /\ app' = app /\ node' = node /\ open' = open /\ prog' = prog /\ ip' = ip /\ prev_phase' = prev_phase
      /\ assertion' = assertion /\ failed_phase' = failed_phase /\ failed_seqID' = failed_seqID
      /\ failed_at' = failed_at
  BY Zenon DEF vars
<1>2. /\ Loops' = Loops /\ Targets' = Targets /\ DeepLevels' = DeepLevels
      /\ IsGood' = IsGood /\ IsFailed' = IsFailed
  BY <1>1, Zenon DEF Loops, Targets, DeepLevels, MaxLevel, IsGood, IsFailed
<1>3. Calling(ph)' <=> Calling(ph)
  BY <1>1, <1>2, Zenon DEF Calling
<1>4. Ids(ph)' <=> Ids(ph)
  BY <1>1, <1>2, Zenon DEF Ids
<1>5. Prev(ph)' <=> Prev(ph)
  BY <1>1, <1>2, Zenon DEF Prev
<1>6. Recovery(ph, rp)' <=> Recovery(ph, rp)
  BY <1>1, <1>2, Zenon DEF Recovery
<1> QED
  BY <1>1, <1>2, <1>3, <1>4, <1>5, <1>6, Zenon DEF History

\* Whether a task is orderly is a property of the application.
LEMMA SameOrderly ==
  ASSUME app' = app
  PROVE  Orderly' <=> Orderly
BY Zenon DEF Orderly, Midway, Targets, Loops, MaxLevel

----------------------------------------------------------------------------
(* The theorems                                                             *)

LOCAL INSTANCE WellFoundedInduction

\* A non-empty set of numbers has a least one.
LEMMA LeastNumberHolds ==
  LeastNumber
<1> SUFFICES ASSUME NEW S \in SUBSET Nat, S # {}
             PROVE  \E x \in S : \A y \in S : x <= y
  BY Zenon DEF LeastNumber
<1>1. PICK x \in S : \A y \in S : ~(<<y, x>> \in OpToRel(<, Nat))
  BY WFMin, NatLessThanWellFounded, Zenon
<1>2. \A y \in S : x <= y
  <2> TAKE y \in S
  <2>1. ~(y < x)
    BY <1>1, Zenon DEF OpToRel
  <2> QED
    BY <2>1
<1> QED
  BY <1>2, Zenon

\* The invariant of the phase tree holds of every behaviour.
LEMMA PhaseInductive ==
  Spec => []PhaseInv
<1>1. Init => PhaseInv
  BY PhaseInvInit, Zenon
<1>2. PhaseInv /\ [Next]_vars => PhaseInv'
  <2> SUFFICES ASSUME PhaseInv, [Next]_vars PROVE PhaseInv'
    BY Zenon
  <2>1. CASE Next
    BY <2>1, LeastNumberHolds, PhaseInvStep, Zenon
  <2>2. CASE UNCHANGED vars
    BY <2>2, PhaseInvStutter, Zenon
  <2> QED
    BY <2>1, <2>2, Zenon
<1> QED
  BY <1>1, <1>2, PTL DEF Spec

\* The invariant of a task whose labels are single words holds of every behaviour.
LEMMA TaskInductive ==
  ASSUME SingleWords
  PROVE  Spec => []TaskInv
<1>1. Init => TaskInv
  <2> SUFFICES ASSUME Init PROVE TaskInv
    BY Zenon
  <2>1. PhaseInv
    BY PhaseInvInit, Zenon
  <2>2. node = <<>> /\ phasePath = <<>> /\ open = <<>> /\ current = NULL /\ failed_phase = HEALTHY
    BY Zenon DEF Init
  <2>3. PathInv
    BY <2>2 DEF PathInv, PathTree, KeyMap, OnPath
  <2>4. FailInv
    BY <2>2, Zenon DEF FailInv, IsFailed, IsGood
  <2> QED
    BY <2>1, <2>3, <2>4, Zenon DEF TaskInv
<1>2. TaskInv /\ [Next]_vars => TaskInv'
  <2> SUFFICES ASSUME TaskInv, [Next]_vars PROVE TaskInv'
    BY Zenon
  <2>1. CASE Next
    BY <2>1, LeastNumberHolds, TaskInvStep, Zenon
  <2>2. CASE UNCHANGED vars
    <3>1. UNCHANGED <<node, phasePath, current, open, failed_phase, failed_seqID>>
      BY <2>2, Zenon DEF vars
    <3>2. PhaseInv'
      BY <2>2, PhaseInvStutter, Zenon DEF TaskInv
    <3>3. PathInv'
      BY <3>1, ZenonT(30) DEF TaskInv, PathInv, PathTree, KeyMap, OnPath, FullPath, Root, Top, NULL
    <3>4. FailInv'
      BY <3>1, Zenon DEF TaskInv, FailInv, IsFailed, IsGood
    <3> QED
      BY <3>2, <3>3, <3>4, Zenon DEF TaskInv
  <2> QED
    BY <2>1, <2>2, Zenon
<1> QED
  BY <1>1, <1>2, PTL DEF Spec

\* Every orderly task has a history.
LEMMA OrderlyInductive ==
  ASSUME SingleWords
  PROVE  Spec => []OrderlyInv
<1>1. Init => OrderlyInv
  BY HistoryInit, Zenon
<1>2. TaskInv /\ OrderlyInv /\ [Next]_vars => OrderlyInv'
  <2> SUFFICES ASSUME TaskInv, OrderlyInv, [Next]_vars, Orderly'
               PROVE  \E q, z : History(q, z)'
    BY Zenon DEF OrderlyInv
  <2>1. app' = app
    BY Zenon DEF Next, vars
  <2>2. Orderly
    BY <2>1, SameOrderly, Zenon
  <2>3. PICK ph, rp : History(ph, rp)
    BY <2>2, Zenon DEF OrderlyInv
  <2>4. CASE Next
    BY <2>2, <2>3, <2>4, LeastNumberHolds, HistoryStep, ZenonT(30)
  <2>5. CASE UNCHANGED vars
    <3>1. History(ph, rp)'
      BY <2>3, <2>5, HistoryStutter, Zenon
    <3> QED
      BY <3>1, Zenon
  <2> QED
    BY <2>4, <2>5, Zenon
<1> QED
  BY <1>1, <1>2, TaskInductive, PTL DEF Spec

\* The variables of the phase tree have their types: phaseTree.current_, the phase begun last,
\* the failure point and the entries of the map of paths are phases of the tree, which is
\* built from its root, whatever the application does.
THEOREM PhaseTypes ==
  Spec => []PTypeOK
<1>1. PhaseInv => PTypeOK
  <2> SUFFICES ASSUME PhaseInv PROVE PTypeOK
    BY Zenon
  <2>1. node \in Seq(Phases)
        /\ \A p \in DOMAIN node : node[p].parent \in 0 .. p - 1 /\ node[p].left \in 0 .. p - 1
    BY Zenon DEF PhaseInv, TreeOK, IsTree
  <2>2. /\ \A k \in DOMAIN phasePath : phasePath[k] \in DOMAIN node
        /\ current \in 0 .. Len(node)
    BY Zenon DEF PhaseInv, TreeOK
  <2>3. prev_phase \in {HEALTHY} \cup DOMAIN node /\ failed_phase \in {HEALTHY} \cup DOMAIN node
        /\ failed_seqID \in {HEALTHY} \cup Nat
    BY Zenon DEF PhaseInv, PointOK, IsGood, IsFailed
  <2>4. ip \in 1 .. Len(prog) + 1 /\ Len(prog) <= MaxOps /\ fails \in 0 .. MaxFails
    BY Zenon DEF PhaseInv, ProgOK
  <2>5. Len(open) <= MaxLevel + 1
    BY Zenon DEF PhaseInv, PathOK
  <2> QED
    BY <2>1, <2>2, <2>3, <2>4, <2>5, Zenon DEF PTypeOK, Phases
<1> QED
  BY <1>1, PhaseInductive, PTL

\* phaseTree.current_ is the phase of the current CD, and the phases of the CD path are each
\* below the one before, for every application whose labels do not contain the separator of
\* the path: BeginPhase and CompletePhase move one pointer, GetCDToRecover follows parent_, and
\* a phase is found by its path.
THEOREM CurrentIsOnPath ==
  ASSUME SingleWords
  PROVE  Spec => []CurrentFollowsPath
<1>1. TaskInv => CurrentFollowsPath
  BY Zenon DEF TaskInv, PathInv, OnPath, CurrentFollowsPath
<1> QED
  BY <1>1, TaskInductive, PTL

\* The phase that failed stays marked as re-executing until its recovery is over, so that
\* CD_ASSERT(state_ == kReexecution) in FinishRecovery never stops the task.
THEOREM FailedIsMarked ==
  ASSUME SingleWords
  PROVE  Spec => []FailedPhaseIsMarked
<1>1. TaskInv => FailedPhaseIsMarked
  BY Zenon DEF TaskInv, FailInv, FailedPhaseIsMarked
<1> QED
  BY <1>1, TaskInductive, PTL

\* While a recovery lasts, the sequential id of the phase that failed never gets past the id
\* that failed, so that the ERROR_MESSAGE of Complete is never met.
THEOREM NeverPastFailure ==
  ASSUME SingleWords
  PROVE  Spec => []SeqNeverPassesFailure
<1>1. TaskInv => SeqNeverPassesFailure
  <2> SUFFICES ASSUME TaskInv, IsFailed
               PROVE  failed_seqID # HEALTHY /\ node[failed_phase].seq_end <= failed_seqID
    BY Zenon DEF SeqNeverPassesFailure
  <2>1. failed_seqID \in Nat
    BY Zenon DEF TaskInv, PhaseInv, PointOK
  <2> QED
    BY <2>1 DEF TaskInv, FailInv, HEALTHY
<1> QED
  BY <1>1, TaskInductive, PTL

\* No phase stays marked as re-executing after the recovery that marked it: FinishRecovery
\* clears every mark that GetCDToRecover and GetPhaseNode left, for every application that is
\* orderly and whose labels do not contain the separator of the path.
THEOREM HealthyIsExecuting ==
  ASSUME SingleWords
  PROVE  Spec => []HealthyMeansExecuting
<1>1. OrderlyInv => HealthyMeansExecuting
  BY Zenon DEF OrderlyInv, History, Healthy, HealthyMeansExecuting
<1> QED
  BY <1>1, OrderlyInductive, PTL

\* None of the assertions of Begin, Complete and GetCDToRecover stops such a task.
THEOREM OrderlyNeverStops ==
  ASSUME SingleWords
  PROVE  Spec => []NoAssertionFails
<1>1. OrderlyInv => NoAssertionFails
  BY Zenon DEF OrderlyInv, History, NoAssertionFails
<1> QED
  BY <1>1, OrderlyInductive, PTL

\* Such a task ends its recovery at the Complete of the very CD that failed, neither at an
\* earlier CD of the same phase nor later: failed_phase and failed_seqID name one point of the
\* program.
THEOREM OrderlyTasksRecover ==
  ASSUME SingleWords
  PROVE  Spec => OrderlyRecovery
<1>1. TaskInv /\ OrderlyInv /\ [Next]_vars => [Orderly => EndsAtFailurePoint]_vars
  <2> SUFFICES ASSUME TaskInv, OrderlyInv, Next, Orderly, IsFailed, Len(open') < Len(open), ip' = ip + 1
               PROVE  failed_phase' = HEALTHY <=> Top.at = failed_at
    BY Zenon DEF EndsAtFailurePoint
  <2>1. PhaseInv /\ PathInv
    BY Zenon DEF TaskInv
  <2>2. PICK ph, rp : History(ph, rp)
    BY Zenon DEF OrderlyInv
  <2>3. Len(open) \in Nat /\ ip \in Nat
    BY <2>1, InvFacts, Zenon
  <2>4. ASSUME NEW g, NEW label, BeginStep(g, label)
        PROVE  FALSE
    <3>1. open' = Append(open, [phase |-> g.phase, at |-> ip])
      BY <2>4, Zenon DEF BeginStep
    <3>2. Len(open') = Len(open) + 1
      <4>1. open \in Seq([phase : Nat, at : Nat])
        BY <2>1, InvFacts, Zenon
      <4>2. Len(Append(open, [phase |-> g.phase, at |-> ip])) = Len(open) + 1
        BY <4>1, AppendIs
      <4> QED
        BY <3>1, <4>2, Zenon
    <3> QED
      BY <2>3, <3>2
  <2>5. ASSUME NEW r, NEW c, RollbackStep(r, c)
        PROVE  FALSE
    <3>1. RollsBack(r)
      BY <2>1, <2>5, LeastNumberHolds, RollbackFacts, Zenon
    <3>2. ip' \in 1 .. ip - 1
      BY <2>1, <2>2, <3>1, RollbackTarget, ZenonT(30) DEF History
    <3> QED
      BY <2>3, <3>2
  <2>6. ASSUME NEW c \in Calls, StopStep(c)
        PROVE  FALSE
    BY <2>3, <2>6 DEF StopStep
  <2>7. ASSUME NEW n, CompleteStep(n)
        PROVE  failed_phase' = HEALTHY <=> Top.at = failed_at
    <3>1. /\ Len(open) > 0 /\ Called(End)
          /\ failed_phase' = (IF AtFailurePoint THEN HEALTHY ELSE failed_phase)
      BY <2>7, Zenon DEF CompleteStep, End
    <3>2. AtFailurePoint <=> Top.at = failed_at
      BY <2>1, <2>2, <3>1, AtFailurePointIs, Zenon DEF History
    <3>3. failed_phase # HEALTHY
      BY Zenon DEF IsFailed, IsGood
    <3> QED
      BY <3>1, <3>2, <3>3, ZenonT(30)
  <2> QED
    BY <2>1, <2>4, <2>5, <2>6, <2>7, LeastNumberHolds, StepIs, ZenonT(30)
<1> QED
  BY <1>1, TaskInductive, OrderlyInductive, PTL DEF Spec, OrderlyRecovery
=============================================================================
