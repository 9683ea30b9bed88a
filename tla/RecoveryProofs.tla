--------------------------- MODULE RecoveryProofs ---------------------------
(***************************************************************************)
(* Complete in an orderly task: the recovery ends at the Complete of the   *)
(* CD whose error started it and at no other, and FinishRecovery leaves no *)
(* phase marked, so that the invariant of HistoryProofs is kept.           *)
(***************************************************************************)
EXTENDS HistoryProofs

----------------------------------------------------------------------------
(* Complete                                                                 *)

\* The call of Complete.
End == [op |-> "complete", lv |-> Level, label |-> <<>>]

\* The program once a Complete is called.
Ended ==
  /\ prog' \in Seq(Calls) /\ Len(prog') \in Nat /\ ip \in 1 .. Len(prog') /\ Len(prog) <= Len(prog')
  /\ Begins(prog') = Begins(prog) /\ ip \notin Begins(prog) /\ prog'[ip].lv = Level
  /\ \A i \in 1 .. Len(prog) : prog'[i] = prog[i]
  /\ \A j \in Begins(prog), i \in Int : i <= Len(prog) => (Inside(prog', j, i) <=> Inside(prog, j, i))
  /\ \/ ip <= Len(prog) /\ prog' = prog
     \/ ip = Len(prog) + 1 /\ Len(prog') = Len(prog) + 1

\* The phases keep their places and first ids.
Same(n, m) == SamePhases(n, m) /\ \A p \in DOMAIN n : m[p].seq_begin = n[p].seq_begin

\* What a Complete does to the program so far: it is the next call, replayed or new.
LEMMA EndCall ==
  ASSUME PhaseInv, Called(End)
  PROVE  Ended
<1>1. End.op = "complete" /\ End.lv = Level /\ "complete" # "begin"
  BY Zenon DEF End
<1>2. /\ prog' \in Seq(Calls) /\ Len(prog') \in Nat /\ ip \in 1 .. Len(prog') /\ prog'[ip] = End
      /\ \A i \in 1 .. Len(prog) : prog'[i] = prog[i]
      /\ Len(prog) <= Len(prog')
  BY CallFacts, Zenon
<1>3. Begins(prog') = Begins(prog)
  BY <1>1, CallBegins, Zenon
<1>4. ip \notin Begins(prog')
  BY <1>1, <1>2, Zenon DEF Begins
<1>5. \A j \in Begins(prog), i \in Int : i <= Len(prog) => (Inside(prog', j, i) <=> Inside(prog, j, i))
  <2> TAKE j \in Begins(prog), i \in Int
  <2>1. j \in 1 .. Len(prog)
    BY Zenon DEF Begins
  <2> QED
    BY <2>1, CallInside, Zenon
<1>6. \/ ip <= Len(prog) /\ prog' = prog
      \/ ip = Len(prog) + 1 /\ Len(prog') = Len(prog) + 1
  BY InvFacts DEF Called
<1> QED
  BY <1>1, <1>2, <1>3, <1>4, <1>5, <1>6, Zenon DEF Ended

\* A Complete adds no Begin to the program.
LEMMA EndProgram ==
  ASSUME PhaseInv, NEW ph, Calling(ph), Ended, Same(node, node')
  PROVE  /\ Program(node', prog', ph) /\ Distinct(prog', Loops)
         /\ Loops = {} => Once(node', prog', ph)
<1>1. \A p \in DOMAIN node : /\ p \in DOMAIN node' /\ node'[p].level = node[p].level
                             /\ node'[p].parent = node[p].parent /\ node'[p].path = node[p].path
  BY Zenon DEF Same, SamePhases
<1>2. DOMAIN node' = DOMAIN node
  BY Zenon DEF Same, SamePhases
<1>3. /\ Begins(prog') = Begins(prog) /\ \A i \in 1 .. Len(prog) : prog'[i] = prog[i]
      /\ \A j \in Begins(prog), i \in Int : i <= Len(prog) => (Inside(prog', j, i) <=> Inside(prog, j, i))
  BY Zenon DEF Ended
<1>4. \A i \in Begins(prog) : i \in 1 .. Len(prog) /\ prog'[i] = prog[i] /\ i \in Int /\ i <= Len(prog)
  BY <1>3, InvFacts DEF Begins
<1>5. Program(node, prog, ph) /\ Distinct(prog, Loops)
  BY Zenon DEF Calling
<1>6. Program(node', prog', ph)
  <2>1. \A i \in Begins(prog) : /\ ph[i] \in DOMAIN node' /\ node'[ph[i]].level = prog'[i].lv
                                /\ prog'[i].lv = 0 => prog'[i].label = Root
    BY <1>1, <1>4, <1>5, Zenon DEF Program
  <2>2. ASSUME NEW i \in Begins(prog), NEW j \in Begins(prog),
               j < i /\ Inside(prog', j, i) /\ prog'[i].lv = prog'[j].lv + 1
        PROVE  node'[ph[i]].parent = ph[j] /\ node'[ph[i]].path = node'[ph[j]].path \o prog'[i].label
    <3>1. Inside(prog, j, i) /\ prog[i].lv = prog[j].lv + 1
      BY <1>3, <1>4, <2>2, Zenon
    <3>2. node[ph[i]].parent = ph[j] /\ node[ph[i]].path = node[ph[j]].path \o prog[i].label
      BY <1>5, <2>2, <3>1, Zenon DEF Program
    <3>3. ph[i] \in DOMAIN node /\ ph[j] \in DOMAIN node
      BY <1>5, Zenon DEF Program
    <3> QED
      BY <1>1, <1>4, <3>2, <3>3, Zenon
  <2>3. ASSUME NEW i \in Begins(prog), prog'[i].lv > 0
        PROVE  \E j \in Begins(prog) : j < i /\ prog'[j].lv = prog'[i].lv - 1 /\ Inside(prog', j, i)
    <3>1. PICK j \in Begins(prog) : j < i /\ prog[j].lv = prog[i].lv - 1 /\ Inside(prog, j, i)
      BY <1>4, <1>5, <2>3, Zenon DEF Program
    <3>2. Inside(prog', j, i) /\ prog'[j].lv = prog'[i].lv - 1
      BY <1>3, <1>4, <3>1, Zenon
    <3> QED
      BY <3>1, <3>2, Zenon
  <2> QED
    BY <1>3, <2>1, <2>2, <2>3, Zenon DEF Program
<1>7. Distinct(prog', Loops)
  <2> SUFFICES ASSUME NEW i \in Begins(prog), NEW j \in Begins(prog),
                      i < j, prog'[i].lv = prog'[j].lv, prog'[i].lv \notin Loops,
                      \A k \in i .. j : prog'[k].lv >= prog'[i].lv
               PROVE  prog'[i].label # prog'[j].label
    BY <1>3, Zenon DEF Distinct
  <2>1. prog'[i] = prog[i] /\ prog'[j] = prog[j] /\ i \in 1 .. Len(prog) /\ j \in 1 .. Len(prog)
    BY <1>4, Zenon
  <2>2. \A k \in i .. j : k \in 1 .. Len(prog)
    BY <2>1, InvFacts
  <2>3. \A k \in i .. j : prog[k].lv >= prog[i].lv
    BY <1>3, <2>1, <2>2, Zenon
  <2> QED
    BY <1>5, <2>1, <2>3, Zenon DEF Distinct
<1>8. Loops = {} => Once(node', prog', ph)
  BY <1>2, <1>3, Zenon DEF Calling, Once
<1> QED
  BY <1>6, <1>7, <1>8, Zenon

\* A Complete changes no first id.
LEMMA EndIds ==
  ASSUME PhaseInv, NEW ph, Calling(ph), Ids(ph), Ended, Same(node, node')
  PROVE  /\ Loops = {} => LeftIds(node', prog', ph)
         /\ Loops # {} => ZeroIds(node', DeepLevels)
<1>1. \A p \in DOMAIN node : /\ p \in DOMAIN node' /\ node'[p].level = node[p].level
                             /\ node'[p].left = node[p].left /\ node'[p].seq_begin = node[p].seq_begin
  BY Zenon DEF Same, SamePhases
<1>2. DOMAIN node' = DOMAIN node
  BY Zenon DEF Same, SamePhases
<1>3. \A p \in DOMAIN node : LeftBegin(node', p) = LeftBegin(node, p)
  <2> TAKE p \in DOMAIN node
  <2>1. node[p].left \in 0 .. p - 1 /\ p \in 1 .. Len(node) /\ Len(node) \in Nat /\ DOMAIN node = 1 .. Len(node)
    BY InvFacts, Zenon DEF IsTree
  <2>2. node[p].left # NULL => node[p].left \in DOMAIN node
    BY <2>1 DEF NULL
  <2> QED
    BY <1>1, <2>2, Zenon DEF LeftBegin
<1>4. Begins(prog') = Begins(prog) /\ \A i \in Begins(prog) : prog'[i] = prog[i] /\ ph[i] \in DOMAIN node
  BY Zenon DEF Ended, Begins, Calling, Program
<1>5. ASSUME Loops = {}
      PROVE  LeftIds(node', prog', ph)
  <2> SUFFICES ASSUME NEW i \in Begins(prog),
                      \A b \in Begins(prog) : LastBegin(prog', b, i) => prog'[b].lv <= prog'[i].lv
               PROVE  node'[ph[i]].seq_begin = LeftBegin(node', ph[i])
    BY <1>4, Zenon DEF LeftIds
  <2>1. \A b \in Begins(prog) : LastBegin(prog', b, i) <=> LastBegin(prog, b, i)
    BY <1>4, Zenon DEF LastBegin
  <2>2. \A b \in Begins(prog) : LastBegin(prog, b, i) => prog[b].lv <= prog[i].lv
    BY <1>4, <2>1, Zenon
  <2>3. node[ph[i]].seq_begin = LeftBegin(node, ph[i])
    BY <1>5, <2>2, Zenon DEF Ids, LeftIds
  <2> QED
    BY <1>1, <1>3, <1>4, <2>3, Zenon
<1>6. Loops # {} => ZeroIds(node', DeepLevels)
  BY <1>1, <1>2, Zenon DEF Ids, ZeroIds
<1> QED
  BY <1>5, <1>6, Zenon

\* While a recovery lasts, the Complete of the CD whose error started it is the last call of the
\* program, and no other Complete is that of its phase.
LEMMA FailurePoint ==
  ASSUME PhaseInv, PathInv, Orderly, NEW ph, NEW rp, Calling(ph), IsFailed, Recovery(ph, rp),
         Len(open) > 0, Called(End)
  PROVE  /\ Top.phase = failed_phase <=> Top.at = failed_at
         /\ ip = Len(prog) <=> Top.at = failed_at
         /\ ip \in rp + 1 .. Len(prog) /\ prog' = prog /\ prog[ip].lv = Level
         /\ Len(open) > prog[rp].lv /\ open[prog[rp].lv + 1].at = rp
<1>1. /\ Within(open, prog, failed_at, ip, rp, Targets)
      /\ Failure(prog, ph, failed_phase, failed_at, ip)
  BY Zenon DEF Recovery
<1>2. /\ ip \in Nat /\ Len(prog) \in Nat /\ Len(open) \in Nat /\ prog \in Seq(Calls)
      /\ Level = Len(open) - 1 /\ DOMAIN open = 1 .. Len(open)
  BY InvFacts, Zenon
<1>3. prog' = prog /\ ip \notin Begins(prog) /\ prog[ip].lv = Level /\ ip \in 1 .. Len(prog)
  <2>1. Ended
    BY EndCall, Zenon
  <2>2. ip <= Len(prog)
    BY <1>1, Zenon DEF Failure
  <2> QED
    BY <1>2, <2>1, <2>2 DEF Ended
<1>4. /\ failed_at \in Begins(prog) /\ failed_phase = ph[failed_at] /\ failed_at < Len(prog)
      /\ prog[Len(prog)].lv = prog[failed_at].lv /\ Inside(prog, failed_at, Len(prog) - 1)
      /\ failed_at \in 1 .. Len(prog) - 1
  <2>1. /\ failed_at \in Begins(prog) /\ failed_phase = ph[failed_at] /\ failed_at < Len(prog)
        /\ prog[Len(prog)].lv = prog[failed_at].lv /\ Inside(prog, failed_at, Len(prog) - 1)
    BY <1>1, Zenon DEF Failure
  <2>2. failed_at \in 1 .. Len(prog)
    BY <2>1, Zenon DEF Begins
  <2> QED
    BY <1>2, <2>1, <2>2
<1>5. /\ Top.at \in Begins(prog) /\ Top.at \in 1 .. ip - 1 /\ ph[Top.at] = Top.phase
      /\ prog[Top.at].lv = Level /\ Inside(prog, Top.at, ip - 1) /\ Top.at \in 1 .. Len(prog)
  <2>1. Len(open) # 0
    BY <1>2
  <2> QED
    BY <1>2, <2>1, TopFacts, CurrentFacts, Zenon DEF Calling
<1>6. /\ rp \in Begins(prog) /\ rp <= failed_at /\ Inside(prog, rp, Len(prog) - 1)
      /\ rp # failed_at => prog[rp].lv \in Targets
  BY <1>1, Zenon DEF Within
<1>7. rp \in 1 .. Len(prog) /\ prog[rp].lv \in Nat /\ Level \in Nat
  BY <1>2, <1>6, CallFields DEF Begins
<1>8. ip \in rp + 1 .. Len(prog) /\ Len(open) > prog[rp].lv /\ open[prog[rp].lv + 1].at = rp
  <2>1. ip > rp /\ Len(open) > prog[rp].lv /\ open[prog[rp].lv + 1].at = rp
    BY <1>1, <1>3, <1>6, Zenon DEF Within
  <2> QED
    BY <1>2, <1>3, <1>7, <2>1
<1>9. ASSUME Top.phase = failed_phase
      PROVE  Top.at = failed_at
  <2>1. CASE Loops = {}
    BY <1>4, <1>5, <1>9, <2>1 DEF Calling, Once
  <2>2. CASE Loops # {}
    <3>1. prog[failed_at].lv = Level
      <4>1. \A i \in Begins(prog) : node[ph[i]].level = prog[i].lv
        BY Zenon DEF Calling, Program
      <4> QED
        BY <1>4, <1>5, <1>9, <4>1, Zenon
    <3>2. CASE rp = failed_at
      <4>1. prog[rp].lv + 1 = Len(open)
        BY <1>2, <3>1, <3>2
      <4> QED
        BY <1>8, <3>2, <4>1, Zenon DEF Top
    <3>3. CASE rp # failed_at
      <4>1. failed_at \in rp + 1 .. Len(prog) - 1
        BY <1>2, <1>4, <1>6, <1>7, <3>3
      <4>2. Level > prog[rp].lv
        BY <1>6, <3>1, <4>1, Zenon DEF Inside
      <4>3. Top.at \in rp + 1 .. Len(prog) - 1
        <5>1. prog[rp].lv + 1 \in DOMAIN open /\ Len(open) \in DOMAIN open
              /\ prog[rp].lv + 1 < Len(open)
          BY <1>2, <1>7, <4>2
        <5>2. open[prog[rp].lv + 1].at < Top.at
          BY <5>1, Zenon DEF PhaseInv, PathOK, Top
        <5> QED
          <6>1. rp < Top.at
            BY <1>8, <5>2, Zenon
          <6> QED
            BY <1>2, <1>3, <1>5, <1>7, <6>1
      <4>4. Level = prog[rp].lv + 1 /\ Level \notin Loops
        <5>1. prog[rp].lv \in Targets /\ Level \in 0 .. MaxLevel /\ app \in Apps /\ MaxLevel \in Nat
          <6>1. Len(open) <= MaxLevel + 1 /\ app \in Apps
            BY Zenon DEF PhaseInv, PathOK
          <6> QED
            BY <1>2, <1>6, <1>7, <3>3, <6>1, InvFacts
        <5>2. Level \in DeepLevels
          <6>1. prog[rp].lv < Level
            BY <1>7, <4>2, Zenon
          <6> QED
            BY <5>1, <6>1, OrderlyFacts, Zenon
        <5>3. Level = MaxLevel /\ Level \notin Loops /\ MaxLevel <= prog[rp].lv + 1
          BY <2>2, <5>1, <5>2, OrderlyFacts, Zenon
        <5> QED
          BY <1>7, <4>2, <5>3
      <4>5. \A i \in Begins(prog) : i \in rp + 1 .. Len(prog) - 1 /\ prog[i].lv = Level =>
              node[ph[i]].path = node[ph[rp]].path \o prog[i].label
        <5> SUFFICES ASSUME NEW i \in Begins(prog), i \in rp + 1 .. Len(prog) - 1, prog[i].lv = Level
                     PROVE  node[ph[i]].path = node[ph[rp]].path \o prog[i].label
          BY Zenon
        <5>1. rp < i /\ prog[i].lv = prog[rp].lv + 1
          BY <1>2, <1>7, <4>4
        <5>2. Inside(prog, rp, i)
          <6>1. \A k \in rp + 1 .. i : k \in rp + 1 .. Len(prog) - 1
            BY <1>2, <1>7
          <6> QED
            BY <1>6, <6>1, Zenon DEF Inside
        <5> QED
          BY <1>6, <5>1, <5>2, Zenon DEF Calling, Program
      <4>6. prog[Top.at].label = prog[failed_at].label
        <5> DEFINE x == node[ph[rp]].path
                   a == prog[Top.at].label
                   b == prog[failed_at].label
        <5>1. x \o a = x \o b
          BY <1>4, <1>5, <1>9, <3>1, <4>1, <4>3, <4>5, ZenonT(30)
        <5>2. x \in Seq(Words) /\ a \in Seq(Words) /\ b \in Seq(Words)
          <6>1. ph[rp] \in DOMAIN node
            BY <1>6, Zenon DEF Calling, Program
          <6>2. x \in Seq(Words)
            BY <6>1, PathFields, InvFacts, Zenon DEF PathInv
          <6>3. failed_at \in 1 .. Len(prog)
            BY <1>4, Zenon DEF Begins
          <6> QED
            BY <1>2, <1>5, <6>2, <6>3, CallFields, Zenon
        <5> HIDE DEF x, a, b
        <5>3. \A S : \A u, y, z \in Seq(S) : u \o y = u \o z => y = z
          BY ONLY ConcatCancels, Zenon
        <5>4. a = b
          BY <5>1, <5>2, <5>3, Zenon
        <5> QED
          BY <5>4, Zenon DEF a, b
      <4>7. \A i, j \in Begins(prog) :
              i \in rp + 1 .. Len(prog) - 1 /\ j \in rp + 1 .. Len(prog) - 1 /\ i < j
              /\ prog[i].lv = Level /\ prog[j].lv = Level => prog[i].label # prog[j].label
        <5> SUFFICES ASSUME NEW i \in Begins(prog), NEW j \in Begins(prog),
                            i \in rp + 1 .. Len(prog) - 1, j \in rp + 1 .. Len(prog) - 1, i < j,
                            prog[i].lv = Level, prog[j].lv = Level
                     PROVE  prog[i].label # prog[j].label
          BY Zenon
        <5>1. \A k \in i .. j : k \in rp + 1 .. Len(prog) - 1 /\ k \in 1 .. Len(prog)
          BY <1>2, <1>7
        <5>2. \A k \in i .. j : prog[k].lv > prog[rp].lv
          BY <1>6, <5>1, Zenon DEF Inside
        <5>3. \A k \in i .. j : prog[k].lv \in Nat
          BY <1>2, <5>1, CallFields, Zenon
        <5>4. \A k \in i .. j : prog[k].lv >= prog[i].lv
          <6> TAKE k \in i .. j
          <6>1. prog[rp].lv \in Int /\ prog[i].lv = prog[rp].lv + 1
            BY <1>7, <4>4
          <6>2. prog[k].lv > prog[rp].lv /\ prog[k].lv \in Nat
            BY <5>2, <5>3, Zenon
          <6> QED
            BY ONLY <6>1, <6>2
        <5> QED
          BY <4>4, <5>4, Zenon DEF Calling, Distinct
      <4>8. ~(Top.at < failed_at) /\ ~(failed_at < Top.at)
        BY <1>4, <1>5, <3>1, <4>1, <4>3, <4>6, <4>7, Zenon
      <4> QED
        BY <1>2, <1>4, <1>5, <4>8
    <3> QED
      BY <3>2, <3>3, Zenon
  <2> QED
    BY <2>1, <2>2, Zenon
<1>10. Top.at = failed_at => Top.phase = failed_phase
  BY <1>4, <1>5, Zenon
<1>11. ASSUME Top.at = failed_at
       PROVE  ip = Len(prog)
  <2>1. ip \in failed_at + 1 .. Len(prog) - 1 => prog[ip].lv > prog[failed_at].lv
    BY <1>4, Zenon DEF Inside
  <2>2. ip \notin failed_at + 1 .. Len(prog) - 1
    BY <1>3, <1>5, <1>7, <1>11, <2>1
  <2> QED
    BY <1>2, <1>3, <1>5, <1>11, <2>2
<1>12. ASSUME ip = Len(prog)
       PROVE  Top.at = failed_at
  <2>1. Len(prog) - 1 \in 0 .. Len(prog) /\ Top.at \in 1 .. Len(prog) - 1
    BY <1>2, <1>3, <1>5, <1>12
  <2>2. prog[Top.at].lv = prog[failed_at].lv /\ Inside(prog, Top.at, Len(prog) - 1)
    BY <1>3, <1>4, <1>5, <1>12, Zenon
  <2> QED
    BY <1>2, <1>4, <2>1, <2>2, SameInside, Zenon
<1> QED
  BY <1>3, <1>8, <1>9, <1>10, <1>11, <1>12, Zenon

\* What Complete does to the phases.
Completes(n) ==
  /\ Same(node, node') /\ Called(End) /\ Ended /\ IsTree(node') /\ Len(open) > 0 /\ current \in DOMAIN node
  /\ \A p \in DOMAIN node : p # current => node'[p].seq_end = node[p].seq_end
  /\ ~IsGood /\ ~AtFailurePoint =>
       /\ node'[current].seq_end = node[current].seq_end /\ node'[current].state = kReexecution
       /\ \A p \in DOMAIN node : p # current => node'[p].state = node[p].state
  /\ IsGood \/ AtFailurePoint => \A p \in DOMAIN node : node'[p].state = n[p].state
  /\ IF AtFailurePoint THEN n = FinishRecovery ELSE n = node

\* The failure point is met by the Complete of the phase that failed.
LEMMA AtFailurePointIs ==
  ASSUME PhaseInv, PathInv, Orderly, NEW ph, NEW rp, Calling(ph), IsFailed, Recovery(ph, rp),
         Len(open) > 0, Called(End)
  PROVE  AtFailurePoint <=> Top.at = failed_at
<1>1. Top.phase = failed_phase <=> Top.at = failed_at
  BY FailurePoint, Zenon
<1>2. node[failed_phase].seq_end = failed_seqID
  BY Zenon DEF Recovery, AtFailedID
<1>3. current = Top.phase
  BY CurrentFacts, InvFacts
<1> QED
  BY <1>1, <1>2, <1>3, Zenon DEF AtFailurePoint

\* A shorter CD path.
LEMMA ShorterPrev ==
  ASSUME NEW m, Same(node, m), NEW o, DOMAIN o \subseteq DOMAIN open, \A l \in DOMAIN o : o[l] = open[l],
         PrevOnPath(node, open, prev_phase)
  PROVE  PrevOnPath(m, o, prev_phase)
<1>1. DOMAIN m = DOMAIN node /\ \A p \in DOMAIN node : m[p].level = node[p].level
  BY Zenon DEF Same, SamePhases
<1> SUFFICES ASSUME NEW l \in DOMAIN o
             PROVE  prev_phase \in DOMAIN m /\ (prev_phase = o[l].phase \/ m[prev_phase].level >= l)
  BY Zenon DEF PrevOnPath
<1>2. l \in DOMAIN open /\ o[l] = open[l]
  BY Zenon
<1> QED
  BY <1>1, <1>2, Zenon DEF PrevOnPath

\* A Complete keeps the history of the calls.
LEMMA CompleteHistory ==
  \A ph, rp, n :
    /\ LeastNumber /\ PhaseInv /\ PathInv /\ Orderly /\ History(ph, rp)
    /\ CompleteStep(n) /\ app' = app
    => History(ph, rp)'

\* FinishRecovery unmarks what the recovery marked.
<0>FinishClears.
  ASSUME LeastNumber, IsTree(node), PathTree(node), NEW t \in DOMAIN node, current \in DOMAIN node,
         Under(node, t, current), MarkedBelow(node, t, current)
  PROVE  \A p \in DOMAIN node : FinishRecovery[p].state = kExecution
  <1> USE <0>FinishClears
  <1> DEFINE N == Len(node)
             par == [p \in 1 .. N |-> node[p].parent]
             Fix(f) == f = [p \in DOMAIN node |->
                              IF node[p].parent = NULL \/ node[node[p].parent].state # kReexecution THEN p
                              ELSE f[node[p].parent]]
             top == CHOOSE f : Fix(f)
             Down(f) == f = [p \in DOMAIN node |->
                               p = top[current] \/ (node[p].parent # NULL /\ f[node[p].parent])]
             below == CHOOSE f : Down(f)
  <1>1. N \in Nat /\ DOMAIN node = 1 .. N
    BY DEF IsTree
  <1>2. \A p \in 1 .. N : node[p].parent # NULL => node[p].parent \in 1 .. p - 1 /\ node[p].parent \in 1 .. N
    <2> TAKE p \in 1 .. N
    <2>1. node[p].parent \in 0 .. p - 1
      BY <1>1, Zenon DEF IsTree
    <2> QED
      BY <1>1, <2>1 DEF NULL
  <1>3. FinishRecovery = [p \in DOMAIN node |->
               IF below[p] THEN [node[p] EXCEPT !.state = kExecution] ELSE node[p]]
    BY Zenon DEF FinishRecovery, below, Down, top, Fix
  <1> HIDE DEF below
  <1>4. Fix(top)
    <2> DEFINE stop == {p \in 1 .. N : node[p].parent = NULL \/ node[node[p].parent].state # kReexecution}
               base == [p \in 1 .. N |-> p]
               S == 1 .. N
    <2>1. base \in [1 .. N -> S] /\ \A p \in 1 .. N : p \in stop \/ par[p] \in 1 .. p - 1
      BY <1>2, Zenon
    <2>2. \E f : FromParent(f, N, S, par, stop, base)
      <3> HIDE DEF base, stop, par, N, S
      <3> QED
        BY <1>1, <2>1, TreeDefinition, Zenon
    <2>3. PICK f : FromParent(f, N, S, par, stop, base)
      BY <2>2, Zenon
    <2>4. Fix(f)
      BY <1>1, <2>3, Zenon DEF FromParent
    <2> QED
      BY <2>4, Zenon DEF top
  <1> HIDE DEF top
  <1>5. \A p \in 1 .. N : top[p] = IF node[p].parent = NULL \/ node[node[p].parent].state # kReexecution THEN p
                                   ELSE top[node[p].parent]
    BY <1>1, <1>4, Zenon
  <1> HIDE DEF Fix
  <1>6. top[current] = t
    <2> DEFINE T == {p \in 1 .. N : Under(node, t, p) /\ Under(node, p, current) => top[p] = t}
    <2>1. ASSUME NEW p \in 1 .. N, \A q \in 1 .. p - 1 : q \in T
          PROVE  p \in T
      <3> SUFFICES ASSUME Under(node, t, p), Under(node, p, current) PROVE top[p] = t
        BY Zenon
      <3>1. CASE p = t
        <4>1. node[p].parent # NULL => node[node[p].parent].state # kReexecution
          <5> SUFFICES ASSUME node[p].parent # NULL, node[node[p].parent].state = kReexecution PROVE FALSE
            BY Zenon
          <5>1. node[p].parent \in DOMAIN node /\ node[p].level = node[node[p].parent].level + 1
                /\ node[node[p].parent].level \in Nat
            BY <1>1, <1>2, PathFields, Zenon
          <5>2. Under(node, t, node[p].parent)
            BY <5>1, Zenon DEF MarkedBelow
          <5>3. node[t].level <= node[node[p].parent].level
            BY <5>1, <5>2, UnderOrder, Zenon
          <5> QED
            BY <3>1, <5>1, <5>3
        <4> QED
          BY <1>5, <3>1, <4>1, Zenon
      <3>2. CASE p # t
        <4> DEFINE a == node[p].parent
        <4>1. a # NULL /\ Under(node, t, a) /\ Under(node, a, p)
          BY <1>1, <3>2, UnderParent, Zenon
        <4>2. a \in 1 .. N /\ a \in 1 .. p - 1
          BY <1>2, <4>1, Zenon
        <4>3. Under(node, a, current)
          BY <1>1, <4>1, <4>2, UnderOrder, Zenon
        <4>4. node[a].state = kReexecution
          BY <1>1, <4>1, <4>2, <4>3, Zenon DEF MarkedBelow
        <4>5. top[p] = top[a]
          BY <1>5, <4>1, <4>4, Zenon
        <4>6. top[a] = t
          BY <2>1, <4>1, <4>2, <4>3, Zenon
        <4> QED
          BY <4>5, <4>6, Zenon
      <3> QED
        BY <3>1, <3>2, Zenon
    <2> HIDE DEF T
    <2>2. \A p \in 1 .. N : p \in T
      BY <1>1, <2>1, UpwardInduction, Zenon
    <2>3. current \in 1 .. N /\ Under(node, current, current)
      BY <1>1, UnderOrder, Zenon
    <2> QED
      BY <2>2, <2>3, Zenon DEF T
  <1>7. Down(below)
    <2> DEFINE stop == {p \in 1 .. N : p = top[current] \/ node[p].parent = NULL}
               base == [p \in 1 .. N |-> p = top[current]]
    <2>1. base \in [1 .. N -> BOOLEAN] /\ \A p \in 1 .. N : p \in stop \/ par[p] \in 1 .. p - 1
      BY <1>2, Zenon
    <2>2. \E f : FromParent(f, N, BOOLEAN, par, stop, base)
      <3> HIDE DEF base, stop, par, N
      <3> QED
        BY <1>1, <2>1, TreeDefinition, Zenon
    <2>3. PICK f : FromParent(f, N, BOOLEAN, par, stop, base)
      BY <2>2, Zenon
    <2>4. ASSUME NEW p \in 1 .. N
          PROVE  f[p] = (p = top[current] \/ (node[p].parent # NULL /\ f[node[p].parent]))
      <3>1. /\ p \in stop => f[p] = (p = top[current])
            /\ p \notin stop => f[p] = f[node[p].parent]
        BY <2>3, Zenon DEF FromParent
      <3>2. f[p] \in BOOLEAN /\ (node[p].parent # NULL => f[node[p].parent] \in BOOLEAN)
        BY <1>2, <2>3, Zenon DEF FromParent
      <3>3. p \in stop <=> (p = top[current] \/ node[p].parent = NULL)
        BY Zenon
      <3> HIDE DEF stop, base
      <3> QED
        BY <3>1, <3>2, <3>3, Zenon
    <2>5. f = [p \in 1 .. N |-> f[p]]
      BY <2>3, Zenon DEF FromParent
    <2>6. Down(f)
      BY <1>1, <2>4, <2>5, Zenon
    <2> QED
      BY <2>6, Zenon DEF below
  <1>8. \A p \in 1 .. N : below[p] = (p = t \/ (node[p].parent # NULL /\ below[node[p].parent]))
    BY <1>1, <1>6, <1>7, Zenon
  <1> HIDE DEF Down
  <1>9. \A p \in 1 .. N : Under(node, t, p) => below[p]
    <2> DEFINE T == {p \in 1 .. N : Under(node, t, p) => below[p]}
    <2>1. ASSUME NEW p \in 1 .. N, \A q \in 1 .. p - 1 : q \in T
          PROVE  p \in T
      <3> SUFFICES ASSUME Under(node, t, p) PROVE below[p]
        BY Zenon
      <3>1. CASE p = t
        BY <1>8, <3>1, Zenon
      <3>2. CASE p # t
        <4> DEFINE a == node[p].parent
        <4>1. a # NULL /\ Under(node, t, a)
          BY <1>1, <3>2, UnderParent, Zenon
        <4>2. a \in 1 .. N /\ a \in 1 .. p - 1
          BY <1>2, <4>1, Zenon
        <4>3. below[a]
          BY <2>1, <4>1, <4>2, Zenon
        <4> QED
          BY <1>8, <4>1, <4>3, Zenon
      <3> QED
        BY <3>1, <3>2, Zenon
    <2> HIDE DEF T
    <2>2. \A p \in 1 .. N : p \in T
      BY <1>1, <2>1, UpwardInduction, Zenon
    <2> QED
      BY <2>2, Zenon DEF T
  <1> SUFFICES ASSUME NEW p \in DOMAIN node PROVE FinishRecovery[p].state = kExecution
    BY Zenon
  <1>10. node[p] \in Phases
    BY DEF IsTree
  <1>11. CASE node[p].state = kReexecution
    <2>1. below[p]
      BY <1>1, <1>9, <1>11, Zenon DEF MarkedBelow
    <2>2. FinishRecovery[p] = [node[p] EXCEPT !.state = kExecution]
      BY <1>3, <2>1, Zenon
    <2> DEFINE x == node[p]
    <2>3. x \in Phases /\ kExecution \in {kExecution, kReexecution}
      BY <1>10, Zenon
    <2> HIDE DEF x
    <2>4. [x EXCEPT !.state = kExecution].state = kExecution
      BY <2>3, SetState, Zenon
    <2> QED
      BY <2>2, <2>4, Zenon DEF x
  <1>12. CASE node[p].state # kReexecution
    <2>1. node[p].state = kExecution
      BY <1>10, <1>12, PhaseFields, Zenon
    <2> QED
      BY <2>1, FinishKeeps, Zenon
  <1> QED
    BY <1>11, <1>12, Zenon

\* What a Complete does to the phase nodes and the recorded failure.
<0>CompleteFacts.
  ASSUME PhaseInv, NEW n, CompleteStep(n)
  PROVE  Completes(n)
  <1> USE <0>CompleteFacts
  <1>1. /\ Len(open) > 0 /\ Called(End) /\ current \in DOMAIN node
        /\ IF AtFailurePoint THEN n = FinishRecovery ELSE n = node
        /\ Kept(node, n) /\ Completed(n, node', current, IsGood \/ AtFailurePoint)
    BY Zenon DEF CompleteStep, End
  <1>2. /\ SamePhases(node, n) /\ DOMAIN n = DOMAIN node
        /\ \A p \in DOMAIN node : n[p].seq_begin = node[p].seq_begin /\ n[p].seq_end = node[p].seq_end
    BY <1>1, Zenon DEF Kept, SamePhases
  <1>3. /\ SamePhases(n, node') /\ IsTree(node')
        /\ \A q \in DOMAIN n : node'[q].seq_begin = n[q].seq_begin
        /\ \A q \in DOMAIN n : q # current => node'[q].state = n[q].state /\ node'[q].seq_end = n[q].seq_end
        /\ IF IsGood \/ AtFailurePoint
           THEN node'[current].state = n[current].state /\ node'[current].seq_end = n[current].seq_end + 1
           ELSE node'[current].state = kReexecution /\ node'[current].seq_end = n[current].seq_end
    BY <1>1, Zenon DEF Completed
  <1>4. Same(node, node')
    BY <1>2, <1>3 DEF Same, SamePhases
  <1>5. Ended
    BY <1>1, EndCall, Zenon
  <1> QED
    BY <1>1, <1>2, <1>3, <1>4, <1>5, Zenon DEF Completes

\* After a Complete the remaining open CDs are those of the calls before it.
<0>CompleteOpenCalls.
  ASSUME PhaseInv, PathInv, NEW ph, OpenCalls(open, prog, ph, ip), Ended, Len(open) > 0,
         open' = SubSeq(open, 1, Level), ip' = ip + 1
  PROVE  OpenCalls(open', prog', ph, ip')
  <1> USE <0>CompleteOpenCalls
  <1>1. /\ open \in Seq([phase : Nat, at : Nat]) /\ Len(open) \in Nat /\ DOMAIN open = 1 .. Len(open)
        /\ ip \in Nat /\ ip - 1 <= Len(prog) /\ ip - 1 \in Int /\ Level = Len(open) - 1 /\ Level \in Nat
    BY InvFacts
  <1>2. DOMAIN open' = 1 .. Level /\ \A l \in 1 .. Level : open'[l] = open[l]
    <2>1. open' = SubSeq(open, 1, Level) /\ Level \in 0 .. Len(open)
      BY <1>1
    <2>2. /\ open' \in Seq([phase : Nat, at : Nat]) /\ Len(open') = Level
          /\ \A l \in 1 .. Level : open'[l] = open[l]
      BY <2>1, ShorterPath, Zenon
    <2> QED
      BY <2>2
  <1>3. /\ Begins(prog') = Begins(prog) /\ prog'[ip].lv = Level
        /\ \A i \in 1 .. Len(prog) : prog'[i] = prog[i]
        /\ \A j \in Begins(prog), i \in Int : i <= Len(prog) => (Inside(prog', j, i) <=> Inside(prog, j, i))
    BY Zenon DEF Ended
  <1>4. ASSUME NEW l \in 1 .. Level
        PROVE  /\ open'[l].at \in Begins(prog') /\ open'[l].phase = ph[open'[l].at]
               /\ prog'[open'[l].at].lv = l - 1 /\ Inside(prog', open'[l].at, ip)
    <2> DEFINE a == open[l].at
    <2>0. l \in DOMAIN open /\ open'[l] = open[l]
      BY <1>1, <1>2
    <2>1. a \in Begins(prog) /\ open[l].phase = ph[a] /\ prog[a].lv = l - 1 /\ Inside(prog, a, ip - 1)
      BY <2>0, Zenon DEF OpenCalls
    <2>2. a \in 1 .. ip - 1
      BY <2>0, Zenon DEF PhaseInv, PathOK
    <2> HIDE DEF a
    <2>3. a \in 1 .. Len(prog) /\ prog'[a] = prog[a]
      BY <1>3, <2>1, Zenon DEF Begins
    <2>4. Inside(prog', a, ip - 1)
      BY <1>1, <1>3, <2>1, Zenon
    <2>5. prog'[ip].lv > prog'[a].lv /\ a < ip /\ a \in Nat
      <3>1. prog'[a].lv = l - 1 /\ prog'[ip].lv = Level
        BY <1>3, <2>1, <2>3, Zenon
      <3> QED
        BY <1>1, <2>2, <3>1
    <2>6. Inside(prog', a, ip)
      BY <1>1, <2>4, <2>5, InsideNext, Zenon
    <2> QED
      BY <1>3, <2>0, <2>1, <2>3, <2>6, Zenon DEF a
  <1>5. ip' - 1 = ip
    BY <1>1
  <1> QED
    BY <1>2, <1>4, <1>5, Zenon DEF OpenCalls

\* A Complete leaves the phases of the levels that a rollback undoes at their first id while their CDs last.
<0>CompleteFirstIds.
  ASSUME PhaseInv, PathInv, Orderly, NEW ph, NEW rp, History(ph, rp), NEW n, Completes(n)
  PROVE  FirstIds(node', prog', ph, DeepLevels)
  <1> USE <0>CompleteFirstIds
  <1>1. /\ Len(prog') \in Nat /\ ip \in 1 .. Len(prog') /\ Len(prog) <= Len(prog')
        /\ Begins(prog') = Begins(prog) /\ ip \notin Begins(prog) /\ prog'[ip].lv = Level
        /\ \A i \in 1 .. Len(prog) : prog'[i] = prog[i]
        /\ \A j \in Begins(prog), i \in Int : i <= Len(prog) => (Inside(prog', j, i) <=> Inside(prog, j, i))
        /\ \/ ip <= Len(prog) /\ prog' = prog
           \/ ip = Len(prog) + 1 /\ Len(prog') = Len(prog) + 1
    BY Zenon DEF Completes, Ended
  <1>2. Len(prog) \in Nat /\ ip \in Nat /\ prog \in Seq(Calls)
    BY InvFacts, Zenon
  <1> SUFFICES ASSUME NEW j \in Begins(prog), prog'[j].lv \in DeepLevels, Inside(prog', j, Len(prog'))
               PROVE  node'[ph[j]].seq_end = node'[ph[j]].seq_begin
    BY <1>1, Zenon DEF FirstIds
  <1>3. j \in 1 .. Len(prog) /\ ph[j] \in DOMAIN node /\ node[ph[j]].level = prog[j].lv /\ prog'[j] = prog[j]
    BY <1>1, Zenon DEF Begins, History, Calling, Program
  <1>4. Inside(prog, j, Len(prog))
    <2>1. \A k \in j + 1 .. Len(prog) : k \in j + 1 .. Len(prog')
      BY <1>1, <1>2, <1>3
    <2>2. Inside(prog', j, Len(prog))
      BY <2>1, Zenon DEF Inside
    <2> QED
      BY <1>1, <1>2, <2>2
  <1>5. node[ph[j]].seq_end = node[ph[j]].seq_begin
    BY <1>3, <1>4, Zenon DEF History, Ids, FirstIds
  <1>6. node'[ph[j]].seq_begin = node[ph[j]].seq_begin
    BY <1>3, Zenon DEF Completes, Same
  <1>7. ph[j] # current \/ ~(IsGood \/ AtFailurePoint)
    <2> SUFFICES ASSUME ph[j] = current, IsGood \/ AtFailurePoint PROVE FALSE
      BY Zenon
    <2>1. ip = Len(prog')
      <3>1. CASE IsGood
        <4>1. ip = Len(prog) + 1
          BY <3>1, Zenon DEF History, Healthy
        <4> QED
          BY <1>1, <1>2, <4>1
      <3>2. CASE IsFailed
        <4>1. AtFailurePoint /\ Calling(ph) /\ Recovery(ph, rp) /\ Len(open) > 0 /\ Called(End)
          BY <3>2, Zenon DEF IsFailed, History, Completes
        <4>2. Top.at = failed_at
          BY <3>2, <4>1, AtFailurePointIs, Zenon
        <4> QED
          BY <3>2, <4>1, <4>2, FailurePoint, Zenon
      <3> QED
        BY <3>1, <3>2, Zenon DEF IsFailed
    <2>2. prog[j].lv = Level
      <3>1. Len(open) \in DOMAIN open /\ current = open[Len(open)].phase
        BY CurrentFacts, InvFacts DEF Completes
      <3>2. node[current].level = Len(open) - 1
        BY <3>1, Zenon DEF PathInv, OnPath
      <3> QED
        BY <1>3, <3>2, InvFacts, Zenon
    <2>3. ip \in j + 1 .. Len(prog')
      <3>1. j # ip
        BY <1>1, Zenon
      <3> QED
        BY <1>1, <1>2, <1>3, <2>1, <3>1
    <2>4. prog'[ip].lv > prog'[j].lv
      BY <2>3, Zenon DEF Inside
    <2>5. prog[j].lv \in Nat
      BY <1>2, <1>3, CallFields, Zenon
    <2> QED
      BY <1>1, <1>3, <2>2, <2>4, <2>5
  <1>8. node'[ph[j]].seq_end = node[ph[j]].seq_end
    BY <1>3, <1>7, Zenon DEF Completes
  <1> QED
    BY <1>5, <1>6, <1>8, Zenon

\* A Complete leaves prev_phase at the phase begun last.
<0>CompletePrev.
  ASSUME PhaseInv, NEW ph, Prev(ph), Ended, Same(node, node'), Len(open) > 0, NEW failed,
         open' = SubSeq(open, 1, Level), ip' = ip + 1, prev_phase' = prev_phase
  PROVE  /\ PrevOnPath(node', open', prev_phase')
         /\ PrevIsLast(node', prog', ph, prev_phase', ip', failed)
  <1> USE <0>CompletePrev
  <1>1. /\ open \in Seq([phase : Nat, at : Nat]) /\ Len(open) \in Nat /\ DOMAIN open = 1 .. Len(open)
        /\ ip \in Nat /\ Level = Len(open) - 1 /\ Level \in Nat
    BY InvFacts
  <1>2. DOMAIN open' = 1 .. Level /\ \A l \in 1 .. Level : open'[l] = open[l]
    <2>1. open' = SubSeq(open, 1, Level) /\ Level \in 0 .. Len(open)
      BY <1>1
    <2>2. /\ open' \in Seq([phase : Nat, at : Nat]) /\ Len(open') = Level
          /\ \A l \in 1 .. Level : open'[l] = open[l]
      BY <2>1, ShorterPath, Zenon
    <2> QED
      BY <2>2
  <1>3. PrevOnPath(node', open', prev_phase)
    <2>1. DOMAIN open' \subseteq DOMAIN open
      BY <1>1, <1>2
    <2> QED
      BY <1>2, <2>1, ShorterPrev, Zenon DEF Prev
  <1>4. Begins(prog') = Begins(prog) /\ ip \notin Begins(prog)
    BY Zenon DEF Ended
  <1>5. ASSUME prev_phase = HEALTHY /\ \A k \in 1 .. ip - 1 : k \notin Begins(prog)
        PROVE  PrevIsLast(node', prog', ph, prev_phase', ip', failed)
    <2>1. \A k \in 1 .. ip' - 1 : k \in 1 .. ip - 1 \/ k = ip
      BY <1>1
    <2>2. \A k \in 1 .. ip' - 1 : k \notin Begins(prog')
      BY <1>4, <1>5, <2>1, Zenon
    <2>3. prev_phase' = HEALTHY
      BY <1>5, Zenon
    <2> QED
      BY <2>2, <2>3, Zenon DEF PrevIsLast
  <1>6. ASSUME NEW b \in Begins(prog), LastBegin(prog, b, ip), prev_phase = ph[b]
        PROVE  PrevIsLast(node', prog', ph, prev_phase', ip', failed)
    <2>1. b < ip /\ b \in Nat /\ \A k \in b + 1 .. ip - 1 : k \notin Begins(prog)
      BY <1>6 DEF LastBegin, Begins
    <2>2. b < ip' /\ \A k \in b + 1 .. ip' - 1 : k \in b + 1 .. ip - 1 \/ k = ip
      BY <1>1, <2>1
    <2>3. LastBegin(prog', b, ip')
      BY <1>4, <2>1, <2>2, Zenon DEF LastBegin
    <2> QED
      BY <1>4, <1>6, <2>3, Zenon DEF PrevIsLast
  <1>7. PrevIsLast(node', prog', ph, prev_phase', ip', failed)
    BY <1>4, <1>5, <1>6, Zenon DEF Prev, PrevIsLast
  <1> QED
    BY <1>3, <1>7, Zenon

\* A Complete outside of recoveries, and the one that ends a recovery.
<0>CompleteHealthy.
  ASSUME LeastNumber, PhaseInv, PathInv, Orderly, NEW ph, NEW rp, History(ph, rp), NEW n, Completes(n),
         IsGood \/ AtFailurePoint, ip' = ip + 1
  PROVE  Healthy(node', prog', ip')
  <1> USE <0>CompleteHealthy
  <1>1. \A p \in DOMAIN node' : node'[p].state = n[p].state /\ p \in DOMAIN node
    BY Zenon DEF Completes, Same, SamePhases
  <1>2. Len(prog) \in Nat /\ ip \in Nat
    BY InvFacts, Zenon
  <1>3. /\ \/ ip <= Len(prog) /\ prog' = prog
           \/ ip = Len(prog) + 1 /\ Len(prog') = Len(prog) + 1
    BY Zenon DEF Completes, Ended
  <1>4. CASE IsGood
    <2>1. Healthy(node, prog, ip) /\ n = node
      BY <1>4, Zenon DEF History, Completes, AtFailurePoint, IsFailed
    <2>2. ip' = Len(prog') + 1
      BY <1>2, <1>3, <2>1 DEF Healthy
    <2> QED
      BY <1>1, <2>1, <2>2, Zenon DEF Healthy
  <1>5. CASE IsFailed
    <2>1. AtFailurePoint /\ Calling(ph) /\ Recovery(ph, rp) /\ Len(open) > 0 /\ Called(End)
      BY <1>5, Zenon DEF IsFailed, History, Completes
    <2>2. Top.at = failed_at
      BY <1>5, <2>1, AtFailurePointIs, Zenon
    <2>3. ip = Len(prog) /\ Len(open) > prog[rp].lv /\ open[prog[rp].lv + 1].at = rp /\ prog' = prog
          /\ Top.phase = failed_phase
      BY <1>5, <2>1, <2>2, FailurePoint, Zenon
    <2>4. ip' = Len(prog') + 1
      BY <2>3, Zenon
    <2>5. /\ IsTree(node) /\ PathTree(node) /\ Len(open) \in Nat /\ DOMAIN open = 1 .. Len(open)
          /\ prog \in Seq(Calls)
      BY InvFacts, Zenon DEF PathInv
    <2>6. current \in DOMAIN node /\ current = failed_phase /\ current = open[Len(open)].phase
          /\ Len(open) \in DOMAIN open
      BY <2>1, <2>3, <2>5, CurrentFacts
    <2>7. ph[rp] \in DOMAIN node /\ Under(node, ph[rp], current)
      <3>1. rp \in Begins(prog)
        BY <2>1, Zenon DEF Recovery, Within
      <3>2. prog[rp].lv \in Nat
        BY <2>5, <3>1, CallFields, Zenon DEF Begins
      <3>3. prog[rp].lv + 1 \in 1 .. Len(open) /\ prog[rp].lv + 1 \in DOMAIN open
        BY <2>3, <2>5, <3>2
      <3>4. open[prog[rp].lv + 1].phase = ph[rp]
        BY <2>1, <2>3, <3>3, Zenon DEF Calling, OpenCalls
      <3>5. ph[rp] \in DOMAIN node
        BY <2>1, <3>1, Zenon DEF Calling, Program
      <3> QED
        BY <2>6, <3>3, <3>4, <3>5, OpenUnder, Zenon
    <2>8. MarkedBelow(node, ph[rp], current)
      BY <2>1, <2>6, Zenon DEF Recovery
    <2>9. \A p \in DOMAIN node : FinishRecovery[p].state = kExecution
      BY <2>5, <2>6, <2>7, <2>8, <0>FinishClears, Zenon
    <2>10. n = FinishRecovery
      BY <2>1, Zenon DEF Completes
    <2> QED
      BY <1>1, <2>4, <2>9, <2>10, Zenon DEF Healthy
  <1> QED
    BY <1>4, <1>5, Zenon DEF IsFailed

\* A Complete of a recovery that goes on.
<0>CompleteRecovery.
  ASSUME LeastNumber, PhaseInv, PathInv, Orderly, NEW ph, NEW rp, History(ph, rp), NEW n, Completes(n),
         IsFailed, ~AtFailurePoint, ip' = ip + 1, open' = SubSeq(open, 1, Level), app' = app,
         UNCHANGED <<failed_phase, failed_seqID, failed_at>>
  PROVE  Recovery(ph, rp)'
  <1> USE <0>CompleteRecovery
  <1>1. Calling(ph) /\ Recovery(ph, rp) /\ Len(open) > 0 /\ Called(End)
    BY Zenon DEF History, Completes
  <1>2. /\ Within(open, prog, failed_at, ip, rp, Targets) /\ MarkedBelow(node, ph[rp], failed_phase)
        /\ Failure(prog, ph, failed_phase, failed_at, ip)
        /\ AtFailedID(node, failed_phase, failed_seqID, DeepLevels)
    BY <1>1, Zenon DEF Recovery
  <1>3. Top.at # failed_at
    BY <1>1, AtFailurePointIs, Zenon
  <1>4. /\ ip # Len(prog) /\ ip \in rp + 1 .. Len(prog) /\ prog' = prog /\ prog[ip].lv = Level
        /\ Len(open) > prog[rp].lv /\ open[prog[rp].lv + 1].at = rp
    BY <1>1, <1>3, FailurePoint, Zenon
  <1>5. /\ Len(open) \in Nat /\ DOMAIN open = 1 .. Len(open) /\ Len(prog) \in Nat /\ ip \in Nat
        /\ open \in Seq([phase : Nat, at : Nat]) /\ Level = Len(open) - 1 /\ prog \in Seq(Calls)
        /\ IsTree(node) /\ PathTree(node)
    BY InvFacts, Zenon DEF PathInv
  <1>6. rp \in Begins(prog) /\ rp \in Nat /\ prog[rp].lv \in Nat /\ Inside(prog, rp, Len(prog) - 1)
    <2>1. rp \in Begins(prog) /\ Inside(prog, rp, Len(prog) - 1)
      BY <1>2, Zenon DEF Within
    <2> QED
      BY <1>5, <2>1, CallFields DEF Begins
  <1>7. Failure(prog', ph, failed_phase', failed_at', ip')
    <2>1. ip' <= Len(prog)
      BY <1>4, <1>5, <1>6, SMTT(30)
    <2> QED
      BY <1>2, <1>4, <2>1, Zenon DEF Failure
  <1>8. prog[rp].lv < Level
    <2>1. ip \in rp + 1 .. Len(prog) - 1
      BY <1>4, <1>5, <1>6
    <2>2. prog[ip].lv > prog[rp].lv
      BY <1>6, <2>1, Zenon DEF Inside
    <2> QED
      BY <1>4, <1>5, <1>6, <2>2, Zenon
  <1>9. Within(open', prog', failed_at', ip', rp, Targets)
    <2>1. Len(open') = Level /\ \A l \in 1 .. Level : open'[l] = open[l]
      BY <1>1, <1>5, SMTT(30)
    <2>2. prog[rp].lv + 1 \in 1 .. Level
      <3>1. Level \in Int /\ prog[rp].lv \in Nat
        BY <1>5, <1>6, SMTT(30)
      <3> QED
        BY <1>8, <3>1
    <2>3. ip' > rp /\ Len(open') > prog[rp].lv /\ open'[prog[rp].lv + 1].at = rp
      <3>1. ip' > rp
        BY <1>4, <1>5, <1>6
      <3>2. Len(open') > prog[rp].lv
        BY <1>5, <1>6, <1>8, <2>1, Zenon
      <3> QED
        BY <1>4, <2>1, <2>2, <3>1, <3>2, Zenon
    <2> QED
      BY <1>2, <1>4, <2>3, Zenon DEF Within
  <1>10. PrevAtTarget(node', prog', ph, prev_phase', ip', rp)
    <2>1. ip' # rp
      BY <1>4, <1>5, <1>6
    <2> QED
      BY <2>1, Zenon DEF PrevAtTarget
  <1>11. failed_phase \in DOMAIN node /\ ph[rp] \in DOMAIN node /\ current \in DOMAIN node /\ ~IsGood
    BY <1>1, <1>6, Zenon DEF Calling, Program, PhaseInv, PointOK, Completes, IsFailed
  <1>12. /\ \A p \in DOMAIN node : /\ node'[p].seq_end = node[p].seq_end /\ node'[p].level = node[p].level
                                   /\ node'[p].seq_begin = node[p].seq_begin /\ node'[p].path = node[p].path
         /\ DOMAIN node' = DOMAIN node
         /\ node'[current].state = kReexecution
         /\ \A p \in DOMAIN node : p # current => node'[p].state = node[p].state
    BY <1>11, Zenon DEF Completes, Same, SamePhases
  <1>13. AtFailedID(node', failed_phase', failed_seqID', DeepLevels)
    BY <1>2, <1>11, <1>12, Zenon DEF AtFailedID
  <1>14. Under(node, ph[rp], current)
    <2>1. prog[rp].lv + 1 \in 1 .. Len(open) /\ prog[rp].lv + 1 \in DOMAIN open /\ Len(open) \in DOMAIN open
      <3>1. Len(open) \in Nat /\ prog[rp].lv \in Nat /\ prog[rp].lv < Len(open)
        BY <1>4, <1>5, <1>6, Zenon
      <3>2. prog[rp].lv + 1 \in 1 .. Len(open) /\ Len(open) \in 1 .. Len(open)
        BY <3>1
      <3> QED
        BY <1>5, <3>2, Zenon
    <2>2. open[prog[rp].lv + 1].phase = ph[rp]
      BY <1>1, <1>4, <2>1, Zenon DEF Calling, OpenCalls
    <2>3. current = open[Len(open)].phase
      BY <1>1, <1>5, CurrentFacts
    <2> QED
      BY <2>1, <2>2, <2>3, OpenUnder, Zenon
  <1>15. \A a, p \in DOMAIN node : Under(node', a, p) <=> Under(node, a, p)
    BY <1>12, Zenon DEF Under
  <1>16. MarkedBelow(node', ph[rp], failed_phase')
    <2>1. \A p \in DOMAIN node : node'[p].state = kReexecution => Under(node', ph[rp], p)
      BY <1>2, <1>11, <1>12, <1>14, <1>15, ZenonT(30) DEF MarkedBelow
    <2>2. \A p \in DOMAIN node : Under(node', ph[rp], p) /\ Under(node', p, failed_phase) =>
                                   node'[p].state = kReexecution
      BY <1>2, <1>11, <1>12, <1>15, Zenon DEF MarkedBelow
    <2> QED
      BY <1>12, <2>1, <2>2, Zenon DEF MarkedBelow
  <1>17. Targets' = Targets /\ DeepLevels' = DeepLevels
    BY Zenon DEF Targets, DeepLevels, MaxLevel
  <1> QED
    BY <1>7, <1>9, <1>10, <1>13, <1>16, <1>17, ZenonT(30) DEF Recovery
<0> QED
  <1> SUFFICES ASSUME LeastNumber, PhaseInv, PathInv, Orderly, NEW ph, NEW rp, History(ph, rp), NEW n,
                      CompleteStep(n), app' = app
               PROVE  History(ph, rp)'
    BY Zenon
  <1>1. /\ assertion' = "none" /\ Completes(n) /\ ip' = ip + 1 /\ open' = SubSeq(open, 1, Level)
        /\ failed_phase' = (IF AtFailurePoint THEN HEALTHY ELSE failed_phase)
        /\ failed_seqID' = (IF AtFailurePoint THEN HEALTHY ELSE failed_seqID)
        /\ failed_at' = failed_at /\ prev_phase' = prev_phase
    BY <0>CompleteFacts, Zenon DEF CompleteStep
  <1>2. Loops' = Loops /\ DeepLevels' = DeepLevels
    BY Zenon DEF Targets, DeepLevels, MaxLevel, Loops
  <1>3. Calling(ph) /\ Ids(ph) /\ Prev(ph)
    BY Zenon DEF History
  <1>4. Same(node, node') /\ Ended /\ Len(open) > 0
    BY <1>1, Zenon DEF Completes
  <1>5. Calling(ph)'
    <2>1. Program(node', prog', ph) /\ Distinct(prog', Loops) /\ (Loops = {} => Once(node', prog', ph))
      BY <1>3, <1>4, EndProgram, Zenon
    <2>2. OpenCalls(open', prog', ph, ip')
      BY <1>1, <1>3, <1>4, <0>CompleteOpenCalls, Zenon DEF Calling
    <2> QED
      BY <1>2, <2>1, <2>2, Zenon DEF Calling
  <1>6. Ids(ph)'
    <2>1. /\ Loops = {} => LeftIds(node', prog', ph)
          /\ Loops # {} => ZeroIds(node', DeepLevels)
      BY <1>3, <1>4, EndIds, Zenon
    <2>2. FirstIds(node', prog', ph, DeepLevels)
      BY <1>1, <0>CompleteFirstIds, Zenon
    <2> QED
      BY <1>2, <2>1, <2>2, Zenon DEF Ids
  <1>7. Prev(ph)'
    BY <1>1, <1>3, <1>4, <0>CompletePrev, Zenon DEF Prev
  <1>8. IsGood' => IsGood \/ AtFailurePoint
    BY <1>1, Zenon DEF IsGood
  <1>9. IsGood' => Healthy(node', prog', ip')
    BY <1>1, <1>8, <0>CompleteHealthy, Zenon
  <1>10. IsFailed' => IsFailed /\ ~AtFailurePoint /\ UNCHANGED <<failed_phase, failed_seqID, failed_at>>
    BY <1>1, Zenon DEF IsGood, IsFailed
  <1>11. IsFailed' => Recovery(ph, rp)'
    BY <1>1, <1>10, <0>CompleteRecovery, Zenon
  <1> QED
    BY <1>1, <1>5, <1>6, <1>7, <1>9, <1>11, Zenon DEF History

=============================================================================
