---------------------------- MODULE HistoryProofs ---------------------------
(***************************************************************************)
(* What a recovery of an orderly task leaves behind in the phase tree, and *)
(* that a Begin keeps it so.                                               *)
(*                                                                         *)
(* The invariant speaks of the whole program: ph is the phase of every     *)
(* Begin call so far, and rp the place of the Begin that the highest       *)
(* rollback of the recovery went back to.                                  *)
(***************************************************************************)
EXTENDS PhaseProofs

Begins(pr) == {i \in 1 .. Len(pr) : pr[i].op = "begin"}

\* The calls after j up to i are made inside the CD that call j begins.
Inside(pr, j, i) == \A k \in j + 1 .. i : pr[k].lv > pr[j].lv

\* Call b is the last Begin before call i.
LastBegin(pr, b, i) == b \in Begins(pr) /\ b < i /\ \A k \in b + 1 .. i - 1 : k \notin Begins(pr)

\* Phase a is phase p or one of its ancestors.
Under(n, a, p) ==
  /\ Len(n[a].path) <= Len(n[p].path)
  /\ \A i \in 1 .. Len(n[a].path) : n[a].path[i] = n[p].path[i]

\* Levels that a rollback may undo and begin again as part of a higher CD.
DeepLevels == {l \in 0 .. MaxLevel : \E t \in Targets : t < l}

----------------------------------------------------------------------------
(* The invariant                                                            *)

\* The phase of a CD is a child of the phase of the CD around it.
Program(n, pr, ph) ==
  /\ \A i \in Begins(pr) : /\ ph[i] \in DOMAIN n /\ n[ph[i]].level = pr[i].lv
                           /\ pr[i].lv = 0 => pr[i].label = Root
  /\ \A i, j \in Begins(pr) :
       j < i /\ Inside(pr, j, i) /\ pr[i].lv = pr[j].lv + 1 =>
         n[ph[i]].parent = ph[j] /\ n[ph[i]].path = n[ph[j]].path \o pr[i].label
  /\ \A i \in Begins(pr) :
       pr[i].lv > 0 => \E j \in Begins(pr) : j < i /\ pr[j].lv = pr[i].lv - 1 /\ Inside(pr, j, i)

\* The CD path is made of the Begin calls that enclose call i.
OpenCalls(o, pr, ph, i) ==
  \A l \in DOMAIN o :
    /\ o[l].at \in Begins(pr) /\ o[l].phase = ph[o[l].at] /\ pr[o[l].at].lv = l - 1
    /\ Inside(pr, o[l].at, i - 1)

\* Within one CD, a level that does not loop begins a label once.
Distinct(pr, loops) ==
  \A i, j \in Begins(pr) :
    i < j /\ pr[i].lv = pr[j].lv /\ pr[i].lv \notin loops /\ (\A k \in i .. j : pr[k].lv >= pr[i].lv) =>
      pr[i].label # pr[j].label

\* If no level loops, then every phase is that of one CD,
Once(n, pr, ph) ==
  /\ \A p \in DOMAIN n : \E i \in Begins(pr) : ph[i] = p
  /\ \A i, j \in Begins(pr) : ph[i] = ph[j] => i = j

\* and the ids of a phase that is not begun after a deeper one start where those of its left
\* sibling start.
LeftIds(n, pr, ph) ==
  \A i \in Begins(pr) :
    (\A b \in Begins(pr) : LastBegin(pr, b, i) => pr[b].lv <= pr[i].lv) =>
      n[ph[i]].seq_begin = LeftBegin(n, ph[i])

\* If a level loops, then the ids of the levels that a rollback undoes start at zero.
ZeroIds(n, deep) == \A p \in DOMAIN n : n[p].level \in deep => n[p].seq_begin = 0

\* A phase of such a level is at its first id while its CD lasts.
FirstIds(n, pr, ph, deep) ==
  \A j \in Begins(pr) :
    pr[j].lv \in deep /\ Inside(pr, j, Len(pr)) => n[ph[j]].seq_end = n[ph[j]].seq_begin

\* prev_phase is a phase of the path or deeper,
PrevOnPath(n, o, prev) ==
  \A l \in DOMAIN o : prev \in DOMAIN n /\ (prev = o[l].phase \/ n[prev].level >= l)

\* and the phase that was begun last, except right after a rollback.
PrevIsLast(n, pr, ph, prev, i, failed) ==
  \/ prev = HEALTHY /\ \A k \in 1 .. i - 1 : k \notin Begins(pr)
  \/ \E b \in Begins(pr) : LastBegin(pr, b, i) /\ prev = ph[b]
  \/ /\ failed /\ i \in Begins(pr) /\ prev \in DOMAIN n
     /\ prev = ph[i] \/ n[prev].level > pr[i].lv

\* While there is no recovery, the program has no next call yet and no phase is marked.
Healthy(n, pr, i) == i = Len(pr) + 1 /\ \A p \in DOMAIN n : n[p].state = kExecution

\* The failure point is a CD of the program, whose Complete is the last call so far.
Failure(pr, ph, fp, fa, i) ==
  /\ fa \in Begins(pr) /\ fp = ph[fa] /\ fa < Len(pr) /\ Len(pr) \notin Begins(pr)
  /\ pr[Len(pr)].lv = pr[fa].lv /\ Inside(pr, fa, Len(pr) - 1) /\ i <= Len(pr)

\* The recovery is inside the CD that call rp begins.
Within(o, pr, fa, i, rp, targets) ==
  /\ rp \in Begins(pr) /\ rp <= fa /\ Inside(pr, rp, Len(pr) - 1)
  /\ \/ i = rp /\ Len(o) = pr[rp].lv
     \/ i > rp /\ Len(o) > pr[rp].lv /\ o[pr[rp].lv + 1].at = rp
  /\ rp # fa => pr[rp].lv \in targets

\* Right after the rollback to call rp, the phase begun last is that of the CD or deeper.
PrevAtTarget(n, pr, ph, prev, i, rp) ==
  i = rp => prev \in DOMAIN n /\ (prev = ph[rp] \/ n[prev].level > pr[rp].lv)

\* The phase that failed is at the id that failed.
AtFailedID(n, fp, id, deep) ==
  n[fp].seq_end = id /\ (n[fp].level \in deep => n[fp].seq_begin = id)

\* The phases that are marked are below that of rp, and those from it to the one that failed are
\* marked.
MarkedBelow(n, top, fp) ==
  /\ \A p \in DOMAIN n : n[p].state = kReexecution => Under(n, top, p)
  /\ \A p \in DOMAIN n : Under(n, top, p) /\ Under(n, p, fp) => n[p].state = kReexecution

Recovery(ph, rp) ==
  /\ Failure(prog, ph, failed_phase, failed_at, ip)
  /\ Within(open, prog, failed_at, ip, rp, Targets)
  /\ PrevAtTarget(node, prog, ph, prev_phase, ip, rp)
  /\ AtFailedID(node, failed_phase, failed_seqID, DeepLevels)
  /\ MarkedBelow(node, ph[rp], failed_phase)

Ids(ph) ==
  /\ Loops = {} => LeftIds(node, prog, ph)
  /\ Loops # {} => ZeroIds(node, DeepLevels)
  /\ FirstIds(node, prog, ph, DeepLevels)

Calling(ph) ==
  /\ Program(node, prog, ph) /\ OpenCalls(open, prog, ph, ip) /\ Distinct(prog, Loops)
  /\ Loops = {} => Once(node, prog, ph)

Prev(ph) ==
  PrevOnPath(node, open, prev_phase) /\ PrevIsLast(node, prog, ph, prev_phase, ip, IsFailed)

History(ph, rp) ==
  /\ assertion = "none" /\ Calling(ph) /\ Ids(ph) /\ Prev(ph)
  /\ IsGood => Healthy(node, prog, ip)
  /\ IsFailed => Recovery(ph, rp)

OrderlyInv == Orderly => \E ph, rp : History(ph, rp)

----------------------------------------------------------------------------
(* Facts about programs                                                     *)

\* The calls of a program.
LEMMA CallFields ==
  ASSUME NEW pr \in Seq(Calls), NEW i \in 1 .. Len(pr)
  PROVE  pr[i].lv \in Nat /\ pr[i].label \in Seq(Words) /\ pr[i].op \in {"begin", "complete"}
<1>1. pr[i] \in Calls
  OBVIOUS
<1> QED
  BY <1>1, Zenon DEF Calls

\* Two CDs of one level that both last until call m are the same.
LEMMA SameInside ==
  ASSUME NEW pr \in Seq(Calls), NEW m \in 0 .. Len(pr), NEW a \in 1 .. m, NEW b \in 1 .. m,
         pr[a].lv = pr[b].lv, Inside(pr, a, m), Inside(pr, b, m)
  PROVE  a = b
<1>0. Len(pr) \in Nat
  OBVIOUS
<1>1. a \in 1 .. Len(pr) /\ b \in 1 .. Len(pr)
  BY <1>0
<1>2. pr[a].lv \in Nat /\ pr[b].lv \in Nat
  BY <1>1, CallFields, Zenon
<1>3. ~(a < b)
  <2> SUFFICES ASSUME a < b PROVE FALSE
    BY Zenon
  <2>1. b \in a + 1 .. m
    BY <1>0
  <2> QED
    BY <1>2, <2>1 DEF Inside
<1>4. ~(b < a)
  <2> SUFFICES ASSUME b < a PROVE FALSE
    BY Zenon
  <2>1. a \in b + 1 .. m
    BY <1>0
  <2> QED
    BY <1>2, <2>1 DEF Inside
<1> QED
  BY <1>0, <1>3, <1>4

\* A call that is made changes the program at most at its end.
LEMMA CallFacts ==
  ASSUME PhaseInv, NEW c, Called(c)
  PROVE  /\ prog' \in Seq(Calls) /\ Len(prog') \in Nat /\ Len(prog) <= Len(prog')
         /\ ip \in 1 .. Len(prog') /\ prog'[ip] = c
         /\ \A i \in 1 .. Len(prog) : prog'[i] = prog[i]
         /\ \A i \in 1 .. Len(prog') : i \in 1 .. Len(prog) \/ i = ip
         /\ Len(prog') # Len(prog) => ip = Len(prog) + 1 /\ Len(prog') = ip
         /\ Len(prog') = Len(prog) => prog' = prog
<1>1. Len(prog) \in Nat /\ ip \in 1 .. Len(prog) + 1 /\ ip \in Nat
  BY InvFacts, Zenon
<1>2. /\ prog' \in Seq(Calls) /\ ip \in 1 .. Len(prog') /\ prog'[ip] = c
      /\ \A i \in 1 .. Len(prog) : prog'[i] = prog[i]
      /\ \/ ip \in 1 .. Len(prog) /\ prog' = prog
         \/ ip = Len(prog) + 1 /\ prog' = Append(prog, c) /\ Len(prog') = Len(prog) + 1
  BY Zenon DEF Called
<1>3. Len(prog') \in Nat
  BY <1>2
<1>4. CASE ip \in 1 .. Len(prog) /\ prog' = prog
  BY <1>1, <1>2, <1>3, <1>4
<1>5. CASE ip = Len(prog) + 1 /\ Len(prog') = Len(prog) + 1
  BY <1>1, <1>2, <1>3, <1>5
<1> QED
  BY <1>2, <1>4, <1>5, Zenon

\* The Begin calls after a call.
LEMMA CallBegins ==
  ASSUME PhaseInv, NEW c, Called(c)
  PROVE  Begins(prog') = Begins(prog) \cup (IF c.op = "begin" THEN {ip} ELSE {})
<1>1. \A i \in 1 .. Len(prog) : prog'[i] = prog[i] /\ i \in 1 .. Len(prog')
  BY CallFacts, InvFacts
<1>2. \A i \in 1 .. Len(prog') : i \in 1 .. Len(prog) \/ i = ip
  BY CallFacts, Zenon
<1>3. ip \in 1 .. Len(prog') /\ prog'[ip] = c
  BY CallFacts, Zenon
<1>4. ASSUME NEW i PROVE i \in Begins(prog') <=>
        i \in Begins(prog) \/ (i = ip /\ c.op = "begin")
  <2>1. CASE i \in 1 .. Len(prog)
    BY <1>1, <1>3, <2>1, Zenon DEF Begins
  <2>2. CASE i \notin 1 .. Len(prog)
    BY <1>2, <1>3, <2>2, Zenon DEF Begins
  <2> QED
    BY <2>1, <2>2, Zenon
<1> QED
  BY <1>4, Zenon

\* What lies inside a CD before the call still does.
LEMMA CallInside ==
  ASSUME PhaseInv, NEW c, Called(c), NEW j \in 1 .. Len(prog), NEW i \in Int, i <= Len(prog)
  PROVE  Inside(prog', j, i) <=> Inside(prog, j, i)
<1>1. \A k \in 1 .. Len(prog) : prog'[k] = prog[k]
  BY CallFacts, Zenon
<1>2. \A k \in j + 1 .. i : k \in 1 .. Len(prog)
  BY InvFacts
<1> QED
  BY <1>1, <1>2, Zenon DEF Inside

----------------------------------------------------------------------------
(* Facts about ancestors                                                    *)

\* The path and the level of a phase.
LEMMA PathFields ==
  ASSUME NEW n, IsTree(n), PathTree(n), NEW p \in DOMAIN n
  PROVE  /\ n[p].path \in Seq(Words) /\ n[p].level \in Nat /\ Len(n[p].path) = n[p].level + 1
         /\ n[p].parent # NULL => n[p].parent \in DOMAIN n /\ n[p].level = n[n[p].parent].level + 1
<1>1. n[p] \in Phases
  BY DEF IsTree
<1>2. n[p].path \in Seq(Words) /\ n[p].level \in 0 .. MaxLevel
  BY <1>1, PhaseFields, Zenon
<1>3. Len(n[p].path) = n[p].level + 1
      /\ (n[p].parent # NULL => n[p].level = n[n[p].parent].level + 1)
  BY Zenon DEF PathTree
<1> QED
  BY <1>2, <1>3, ParentIsPhase

\* A phase is under itself, and under what its ancestors are under.
LEMMA UnderOrder ==
  ASSUME NEW n, IsTree(n), PathTree(n), NEW a \in DOMAIN n
  PROVE  /\ Under(n, a, a)
         /\ \A b, c \in DOMAIN n : Under(n, a, b) /\ Under(n, b, c) => Under(n, a, c)
         /\ \A b \in DOMAIN n : Under(n, a, b) => n[a].level <= n[b].level
<1>1. \A p \in DOMAIN n : Len(n[p].path) \in Nat /\ n[p].level \in Nat /\ Len(n[p].path) = n[p].level + 1
  BY PathFields
<1>2. Under(n, a, a)
  BY <1>1 DEF Under
<1>3. ASSUME NEW b \in DOMAIN n, NEW c \in DOMAIN n, Under(n, a, b), Under(n, b, c)
      PROVE  Under(n, a, c)
  <2>1. Len(n[a].path) <= Len(n[b].path) /\ Len(n[b].path) <= Len(n[c].path)
    BY <1>3, Zenon DEF Under
  <2>2. Len(n[a].path) <= Len(n[c].path)
    BY <1>1, <2>1
  <2>3. ASSUME NEW i \in 1 .. Len(n[a].path)
        PROVE  n[a].path[i] = n[c].path[i]
    <3>1. i \in 1 .. Len(n[b].path)
      BY <1>1, <2>1
    <3> QED
      BY <1>3, <3>1, Zenon DEF Under
  <2> QED
    BY <2>2, <2>3, Zenon DEF Under
<1>4. ASSUME NEW b \in DOMAIN n, Under(n, a, b)
      PROVE  n[a].level <= n[b].level
  <2>1. Len(n[a].path) <= Len(n[b].path)
    BY <1>4, Zenon DEF Under
  <2> QED
    BY <1>1, <2>1
<1> QED
  BY <1>2, <1>3, <1>4, Zenon

\* Two phases of one level that a phase is under are the same.
LEMMA UnderSame ==
  ASSUME NEW n, IsTree(n), PathTree(n), NEW a \in DOMAIN n, NEW b \in DOMAIN n, NEW p \in DOMAIN n,
         Under(n, a, p), Under(n, b, p), n[a].level = n[b].level
  PROVE  a = b
<1>1. /\ n[a].path \in Seq(Words) /\ n[b].path \in Seq(Words) /\ Len(n[a].path) = n[a].level + 1
      /\ Len(n[b].path) = n[b].level + 1
  BY PathFields, Zenon
<1>2. Len(n[a].path) = Len(n[b].path)
  BY <1>1, Zenon
<1>3. \A i \in 1 .. Len(n[a].path) : n[a].path[i] = n[b].path[i]
  BY <1>2, Zenon DEF Under
<1>4. n[a].path = n[b].path
  BY <1>1, <1>2, <1>3, SameElements, Zenon
<1> QED
  BY <1>4, Zenon DEF PathTree

\* A phase is under its parent, and under another one only if its parent is.
LEMMA UnderParent ==
  ASSUME NEW n, IsTree(n), PathTree(n), NEW p \in DOMAIN n
  PROVE  /\ n[p].parent # NULL => Under(n, n[p].parent, p)
         /\ \A a \in DOMAIN n : Under(n, a, p) /\ a # p =>
                                  n[p].parent # NULL /\ Under(n, a, n[p].parent)
<1>1. ASSUME n[p].parent # NULL
      PROVE  /\ n[p].parent \in DOMAIN n /\ Under(n, n[p].parent, p)
             /\ Len(n[p].path) = Len(n[n[p].parent].path) + 1
             /\ \A i \in 1 .. Len(n[n[p].parent].path) : n[p].path[i] = n[n[p].parent].path[i]
  <2> DEFINE x == n[n[p].parent].path
  <2>1. n[p].parent \in DOMAIN n /\ x \in Seq(Words) /\ Len(x) \in Nat
    BY <1>1, PathFields
  <2>2. PICK w \in Seq(Words) : Len(w) = 1 /\ n[p].path = x \o w
    BY <1>1, Zenon DEF PathTree
  <2> HIDE DEF x
  <2>3. Len(x \o w) = Len(x) + Len(w)
    BY <2>1, <2>2, ConcatIs, Zenon
  <2>4. \A i \in 1 .. Len(x) + Len(w) : (x \o w)[i] = IF i <= Len(x) THEN x[i] ELSE w[i - Len(x)]
    BY <2>1, <2>2, ConcatIs, Zenon
  <2>5. \A i \in 1 .. Len(x) : (x \o w)[i] = x[i]
    BY <2>1, <2>2, <2>4
  <2>6. Len(n[p].path) = Len(x) + 1 /\ \A i \in 1 .. Len(x) : n[p].path[i] = x[i]
    BY <2>2, <2>3, <2>5, Zenon
  <2>7. Under(n, n[p].parent, p)
    <3>1. Len(x) <= Len(n[p].path)
      BY <2>1, <2>6
    <3>2. \A i \in 1 .. Len(x) : x[i] = n[p].path[i]
      BY <2>6, Zenon
    <3> QED
      BY <3>1, <3>2, Zenon DEF Under, x
  <2> QED
    BY <2>1, <2>6, <2>7, Zenon DEF x
<1>2. ASSUME NEW a \in DOMAIN n, Under(n, a, p), a # p
      PROVE  n[p].parent # NULL /\ Under(n, a, n[p].parent)
  <2>1. n[a].level # n[p].level
    BY <1>2, UnderOrder, UnderSame, Zenon
  <2>2. n[a].level <= n[p].level /\ n[a].level \in Nat /\ n[p].level \in Nat
    BY <1>2, UnderOrder, PathFields, Zenon
  <2>3. n[p].level > 0
    BY <2>1, <2>2
  <2>4. n[p].parent # NULL
    <3>1. Len(n[p].path) = n[p].level + 1 /\ (n[p].parent = NULL => n[p].path = Root)
      BY Zenon DEF PathTree
    <3>2. Len(Root) = 1
      BY Zenon DEF Root
    <3>3. Len(n[p].path) # 1
      BY <2>2, <2>3, <3>1
    <3> QED
      BY <3>1, <3>2, <3>3, Zenon
  <2>5. /\ Len(n[a].path) = n[a].level + 1 /\ Len(n[p].path) = n[p].level + 1
        /\ n[p].level = n[n[p].parent].level + 1
        /\ Len(n[n[p].parent].path) = n[n[p].parent].level + 1 /\ n[n[p].parent].level \in Nat
    BY <1>1, <2>4, PathFields, Zenon
  <2>6. Len(n[a].path) <= Len(n[n[p].parent].path) /\ Len(n[n[p].parent].path) \in Nat /\ Len(n[a].path) \in Nat
    BY <2>1, <2>2, <2>5
  <2>7. ASSUME NEW i \in 1 .. Len(n[a].path)
        PROVE  n[a].path[i] = n[n[p].parent].path[i]
    <3>1. i \in 1 .. Len(n[n[p].parent].path)
      BY <2>6
    <3>2. n[p].path[i] = n[n[p].parent].path[i]
      BY <1>1, <2>4, <3>1, Zenon
    <3>3. n[a].path[i] = n[p].path[i]
      BY <1>2, Zenon DEF Under
    <3> QED
      BY <3>2, <3>3, Zenon
  <2> QED
    BY <2>4, <2>6, <2>7, Zenon DEF Under
<1> QED
  BY <1>1, <1>2, Zenon

\* The phases of the CD path are under each other.
LEMMA OpenUnder ==
  ASSUME LeastNumber, PhaseInv, PathInv, NEW m \in DOMAIN open
  PROVE  \A l \in 1 .. m : Under(node, open[l].phase, open[m].phase)
<1> DEFINE T == {l \in 1 .. m : Under(node, open[l].phase, open[m].phase)}
<1>1. /\ IsTree(node) /\ PathTree(node) /\ DOMAIN open = 1 .. Len(open) /\ Len(open) \in Nat
      /\ m \in 1 .. Len(open) /\ m \in Int
  BY InvFacts DEF PathInv
<1>2. \A l \in 1 .. m : l \in DOMAIN open /\ open[l].phase \in DOMAIN node
  <2> TAKE l \in 1 .. m
  <2>1. l \in DOMAIN open
    BY <1>1
  <2> QED
    BY <2>1, Zenon DEF PhaseInv, PathOK
<1>3. m \in T
  BY <1>1, <1>2, UnderOrder
<1>4. ASSUME NEW l \in 1 .. m - 1, l + 1 \in T
      PROVE  l \in T
  <2>1. l \in 1 .. m /\ l + 1 \in 1 .. m /\ l + 1 # 1 /\ l + 1 - 1 = l
    BY <1>1
  <2>2. node[open[l + 1].phase].parent = open[l].phase
    BY <1>2, <2>1 DEF PathInv, OnPath
  <2>3. open[l].phase # NULL
    <3>1. DOMAIN node = 1 .. Len(node) /\ Len(node) \in Nat /\ open[l].phase \in DOMAIN node
      BY <1>2, <2>1, InvFacts, Zenon
    <3> QED
      BY <3>1 DEF NULL
  <2>4. Under(node, open[l].phase, open[l + 1].phase)
    BY <1>1, <1>2, <2>1, <2>2, <2>3, UnderParent, Zenon
  <2>5. Under(node, open[l].phase, open[m].phase)
    BY <1>1, <1>2, <1>4, <2>1, <2>4, UnderOrder
  <2> QED
    BY <2>1, <2>5, Zenon
<1> HIDE DEF T
<1>5. \A l \in 1 .. m : l \in T
  <2>1. 1 \in Int /\ \A l \in 1 .. m - 1 : l + 1 \in T => l \in T
    BY <1>4
  <2> QED
    BY <1>1, <1>3, <2>1, DownwardInduction, Zenon
<1> QED
  BY <1>5, Zenon DEF T

----------------------------------------------------------------------------
(* Begin                                                                    *)

\* What makes a task orderly.
LEMMA OrderlyFacts ==
  ASSUME app \in Apps, Orderly
  PROVE  /\ ~Midway /\ MaxLevel \in Nat
         /\ \A t \in Targets, l \in 0 .. MaxLevel : t < l => l \in DeepLevels
         /\ Loops # {} => /\ \A l \in DeepLevels : l = MaxLevel /\ l \notin Loops
                          /\ \A t \in Targets : MaxLevel <= t + 1
<1>1. MaxLevel \in Nat /\ Targets \subseteq 0 .. MaxLevel /\ Loops \subseteq 0 .. MaxLevel
  BY AppFacts, Zenon
<1>2. ~Midway /\ \A t \in Targets, l \in Loops : l <= t /\ MaxLevel <= t + 1
  BY Zenon DEF Orderly
<1>3. ASSUME NEW l \in DeepLevels, Loops # {}
      PROVE  l = MaxLevel /\ l \notin Loops
  <2>1. PICK t \in Targets : l \in 0 .. MaxLevel /\ t < l
    BY Zenon DEF DeepLevels
  <2>2. PICK k \in Loops : TRUE
    BY <1>3, Zenon
  <2>3. MaxLevel <= t + 1 /\ (l \in Loops => l <= t) /\ t \in Nat
    <3>1. t \in 0 .. MaxLevel
      BY <1>1, Zenon
    <3>2. MaxLevel <= t + 1
      BY <1>2, <2>2, Zenon
    <3>3. l \in Loops => l <= t
      BY <1>2, Zenon
    <3> QED
      BY <1>1, <3>1, <3>2, <3>3
  <2> QED
    BY <1>1, <2>1, <2>3
<1>4. \A t \in Targets, l \in 0 .. MaxLevel : t < l => l \in DeepLevels
  BY Zenon DEF DeepLevels
<1>5. Loops # {} => \A t \in Targets : MaxLevel <= t + 1
  BY <1>2, Zenon
<1> QED
  BY <1>1, <1>2, <1>3, <1>4, <1>5, Zenon

\* The current CD in the program.
LEMMA TopFacts ==
  ASSUME PhaseInv, PathInv, NEW ph, OpenCalls(open, prog, ph, ip), Len(open) # 0
  PROVE  /\ Top.at \in Begins(prog) /\ Top.at \in 1 .. ip - 1 /\ Top.at \in 1 .. Len(prog)
         /\ ph[Top.at] = current /\ prog[Top.at].lv = Len(open) - 1
         /\ Inside(prog, Top.at, ip - 1)
<1>1. Len(open) \in DOMAIN open /\ current = Top.phase
  BY CurrentFacts, Zenon
<1>2. /\ Top.at \in Begins(prog) /\ Top.phase = ph[Top.at] /\ prog[Top.at].lv = Len(open) - 1
      /\ Inside(prog, Top.at, ip - 1)
  BY <1>1, Zenon DEF OpenCalls, Top
<1>3. Top.at \in 1 .. ip - 1
  BY <1>1, Zenon DEF Top, PhaseInv, PathOK
<1> QED
  BY <1>1, <1>2, <1>3, Zenon DEF Begins

\* One more call inside a CD.
LEMMA InsideNext ==
  ASSUME NEW pr, NEW j \in Nat, NEW i \in Nat, j < i, Inside(pr, j, i - 1), pr[i].lv > pr[j].lv
  PROVE  Inside(pr, j, i)
<1>1. \A k \in j + 1 .. i : k \in j + 1 .. i - 1 \/ k = i
  OBVIOUS
<1> QED
  BY <1>1, Zenon DEF Inside

\* A Begin that was made before finds the phase it found then.
LEMMA ReplayPhase ==
  ASSUME PhaseInv, PathInv, SingleWords, NEW ph, Calling(ph), NEW g, NEW label,
         BeginStep(g, label), ip <= Len(prog)
  PROVE  /\ prog' = prog /\ ip \in Begins(prog) /\ prog[ip].lv = Len(open)
         /\ g.phase = ph[ip] /\ g.phase \in DOMAIN node /\ OldPhase(g, label)
<1> DEFINE c == [op |-> "begin", lv |-> Len(open), label |-> label]
<1>1. Called(c)
  BY Zenon DEF BeginStep
<1>2. prog' = prog /\ prog[ip] = c /\ ip \in 1 .. Len(prog) /\ ip \in Nat
  BY <1>1, CallFacts, InvFacts
<1>3. prog[ip].op = "begin" /\ prog[ip].lv = Len(open) /\ prog[ip].label = label
  BY <1>2
<1>4. ip \in Begins(prog)
  BY <1>2, <1>3, Zenon DEF Begins
<1>5. ph[ip] \in DOMAIN node /\ node[ph[ip]].level = Len(open)
  BY <1>3, <1>4, Zenon DEF Calling, Program
<1>6. /\ PathTree(node') /\ node'[g.phase].parent = current
      /\ node'[g.phase].path = IF current = NULL THEN label ELSE node[current].path \o label
      /\ g.phase \in DOMAIN node' /\ Grown(node, node')
  BY BegunPhase, Zenon DEF BeginStep
<1>7. IsTree(node) /\ PathTree(node) /\ Len(open) \in Nat
  BY InvFacts, Zenon DEF PathInv
<1>8. g.phase = ph[ip]
  <2>1. CASE Len(open) = 0
    <3>1. node[ph[ip]].parent = NULL
      <4> SUFFICES ASSUME node[ph[ip]].parent # NULL PROVE FALSE
        BY Zenon
      <4>1. node[ph[ip]].parent \in DOMAIN node
            /\ node[ph[ip]].level = node[node[ph[ip]].parent].level + 1
        BY <1>5, <1>7, PathFields, Zenon
      <4>2. node[node[ph[ip]].parent].level \in Nat
        BY <1>7, <4>1, PathFields, Zenon
      <4> QED
        BY <1>5, <2>1, <4>1, <4>2
    <3>2. ph[ip] = 1
      BY <1>5, <1>7, <3>1, Zenon DEF PathTree
    <3>3. current = NULL
      BY <2>1, CurrentFacts, Zenon
    <3>4. g.phase = 1
      BY <1>6, <3>3, Zenon DEF PathTree
    <3> QED
      BY <3>2, <3>4, Zenon
  <2>2. CASE Len(open) # 0
    <3>1. /\ Top.at \in Begins(prog) /\ Top.at \in 1 .. ip - 1 /\ ph[Top.at] = current
          /\ prog[Top.at].lv = Len(open) - 1 /\ Inside(prog, Top.at, ip - 1)
      BY <2>2, TopFacts, Zenon DEF Calling
    <3>2. prog[ip].lv > prog[Top.at].lv /\ prog[ip].lv = prog[Top.at].lv + 1
      BY <1>3, <1>7, <3>1
    <3>3. Top.at < ip /\ Top.at \in Nat
      BY <1>2, <3>1
    <3>4. Inside(prog, Top.at, ip)
      BY <1>2, <3>1, <3>2, <3>3, InsideNext, Zenon
    <3>5. node[ph[ip]].path = node[current].path \o label
      BY <1>3, <1>4, <3>1, <3>2, <3>3, <3>4, Zenon DEF Calling, Program
    <3>6. current # NULL
      BY <2>2, CurrentFacts, Zenon
    <3>7. ph[ip] \in DOMAIN node' /\ node'[ph[ip]].path = node[ph[ip]].path
      BY <1>5, <1>6, Zenon DEF Grown
    <3> QED
      BY <1>6, <3>5, <3>6, <3>7, Zenon DEF PathTree
  <2> QED
    BY <2>1, <2>2, Zenon
<1>9. OldPhase(g, label)
  <2>1. Len(node) + 1 \notin DOMAIN node
    BY InvFacts
  <2>2. \A x : ~NewPhase(g, x, Len(open), label)
    BY <1>5, <1>8, <2>1, Zenon DEF NewPhase
  <2> QED
    BY <2>2, Zenon DEF BeginStep
<1> QED
  BY <1>2, <1>3, <1>4, <1>5, <1>8, <1>9, Zenon

\* The phases of the Begin calls once this one is made.
Extended(ph, q, g) == (\A i \in Begins(prog) : q[i] = ph[i]) /\ q[ip] = g.phase

\* The program once a Begin is made.
Made(ph, q, g, label) ==
  /\ prog' \in Seq(Calls) /\ Len(prog') \in Nat /\ ip \in 1 .. Len(prog')
  /\ prog'[ip].lv = Len(open) /\ prog'[ip].label = label /\ q[ip] = g.phase
  /\ Begins(prog') = Begins(prog) \cup {ip}
  /\ \A i \in Begins(prog) : i \in 1 .. Len(prog) /\ prog'[i] = prog[i] /\ q[i] = ph[i]
  /\ \/ ip <= Len(prog) /\ prog' = prog
     \/ ip = Len(prog) + 1 /\ Len(prog') = Len(prog) + 1

\* Begin starts the ids of its phase again.
Marks(g) == prev_phase # g.phase /\ ~(prev_phase # HEALTHY /\ node[prev_phase].level > Len(open))

\* What Begin does to the phases.
Effect(g) ==
  /\ DOMAIN node' = DOMAIN node \cup {g.phase} /\ g.phase # HEALTHY
  /\ \A p \in DOMAIN node : p # g.phase =>
       /\ node'[p].seq_begin = node[p].seq_begin /\ node'[p].seq_end = node[p].seq_end
       /\ node'[p].state = node[p].state
  /\ Marks(g) => /\ node'[g.phase].seq_begin = LeftBegin(node', g.phase)
                 /\ node'[g.phase].seq_end = LeftBegin(node', g.phase)
  /\ ~Marks(g) /\ g.phase \in DOMAIN node =>
       /\ node'[g.phase].seq_begin = node[g.phase].seq_begin
       /\ node'[g.phase].seq_end = node[g.phase].seq_end
  /\ g.phase \notin DOMAIN node => node'[g.phase].seq_end = node'[g.phase].seq_begin
  /\ \/ g.phase \in DOMAIN node /\ node'[g.phase].state = node[g.phase].state
     \/ g.phase \notin DOMAIN node /\ node'[g.phase].state = kExecution
     \/ current # NULL /\ node[current].state = kReexecution /\ node'[g.phase].state = kReexecution

\* A Begin keeps the history of the calls.
LEMMA BeginHistory ==
  \A ph, rp, g, label, q :
    /\ PhaseInv /\ PathInv /\ SingleWords /\ Orderly /\ History(ph, rp)
    /\ BeginStep(g, label) /\ Extended(ph, q, g) /\ app' = app
    => History(q, rp)'

\* A Begin call of the current CD whose label is that of an earlier child has the same phase.
<0>SameLabel.
  ASSUME PhaseInv, PathInv, SingleWords, NEW ph, Calling(ph), NEW g, NEW label,
         BeginStep(g, label), Len(open) # 0, NEW i \in Begins(prog), i \in Top.at + 1 .. ip - 1,
         prog[i].lv = Len(open), ph[i] = g.phase
  PROVE  label \in Begun(Len(open))
  <1> USE <0>SameLabel
  <1>1. /\ Top.at \in Begins(prog) /\ Top.at \in 1 .. ip - 1 /\ ph[Top.at] = current
        /\ prog[Top.at].lv = Len(open) - 1 /\ Inside(prog, Top.at, ip - 1)
    BY TopFacts, Zenon DEF Calling
  <1>2. ip \in Nat /\ Len(prog) \in Nat /\ i \in Nat /\ Top.at \in Nat /\ Len(open) \in Nat
        /\ prog \in Seq(Calls)
    <2>1. ip \in Nat /\ Len(prog) \in Nat /\ Len(open) \in Nat /\ prog \in Seq(Calls)
      BY InvFacts, Zenon
    <2>2. i \in 1 .. Len(prog) /\ Top.at \in 1 .. Len(prog)
      BY <1>1, Zenon DEF Begins
    <2> QED
      BY <2>1, <2>2
  <1>3. Inside(prog, Top.at, i) /\ Top.at < i
    <2>1. \A k \in Top.at + 1 .. i : k \in Top.at + 1 .. ip - 1
      BY <1>2
    <2> QED
      BY <1>1, <1>2, <2>1 DEF Inside
  <1>4. node[ph[i]].path = node[current].path \o prog[i].label /\ ph[i] \in DOMAIN node
    <2>1. prog[i].lv = prog[Top.at].lv + 1
      BY <1>1, <1>2
    <2> QED
      BY <1>1, <1>3, <2>1, Zenon DEF Calling, Program
  <1>5. current # NULL /\ label \in Labels
    BY CurrentFacts, Zenon DEF BeginStep
  <1>6. node'[g.phase].path = node[current].path \o label
    BY <1>5, BegunPhase, Zenon
  <1>7. node'[g.phase].path = node[g.phase].path
    BY <1>4, Zenon DEF BeginStep, Grown
  <1>8. node[current].path \o label = node[current].path \o prog[i].label
    BY <1>4, <1>6, <1>7, Zenon
  <1>9. label = prog[i].label
    <2>1. node[current].path \in Seq(Words) /\ label \in Seq(Words)
      BY <1>5, KeyIsPath, Zenon
    <2>2. prog[i].label \in Seq(Words)
      BY <1>2, CallFields, Zenon DEF Begins
    <2> DEFINE a == node[current].path
               b == prog[i].label
    <2>3. a \o label = a \o b /\ a \in Seq(Words) /\ b \in Seq(Words)
      BY <1>8, <2>1, <2>2, Zenon
    <2> HIDE DEF a, b
    <2>4. label = b
      <3>1. \A S : \A x, y, z \in Seq(S) : x \o y = x \o z => y = z
        BY ONLY ConcatCancels, Zenon
      <3> QED
        BY <2>1, <2>3, <3>1, Zenon
    <2> QED
      BY <2>4, Zenon DEF b
  <1>10. open # <<>> /\ prog[i].op = "begin"
    BY InvFacts DEF Begins
  <1> QED
    BY <1>9, <1>10, Zenon DEF Begun

\* If no level loops, then a Begin that is made for the first time makes a phase.
<0>NewCallNewPhase.
  ASSUME PhaseInv, PathInv, SingleWords, NEW ph, Calling(ph), NEW g, NEW label,
         BeginStep(g, label), ip = Len(prog) + 1, Loops = {}
  PROVE  g.phase \notin DOMAIN node /\ \E x : NewPhase(g, x, Len(open), label)
  <1> USE <0>NewCallNewPhase
  <1>1. label \notin Begun(Len(open))
    BY Zenon DEF BeginStep
  <1>2. g.phase \notin DOMAIN node
    <2> SUFFICES ASSUME g.phase \in DOMAIN node PROVE FALSE
      BY Zenon
    <2>1. PICK i \in Begins(prog) : ph[i] = g.phase
      BY Zenon DEF Calling, Once
    <2>2. i \in 1 .. Len(prog) /\ i \in Nat /\ prog[i].op = "begin" /\ Len(prog) \in Nat /\ Len(open) \in Nat
          /\ i \in 1 .. ip - 1
      BY InvFacts DEF Begins
    <2>3. prog[i].lv = Len(open)
      <3>1. node'[g.phase].level = node[g.phase].level
        BY Zenon DEF BeginStep, Grown
      <3>2. node'[g.phase].level = Len(open)
        BY BegunPhase, Zenon
      <3> QED
        BY <2>1, <3>1, <3>2, Zenon DEF Calling, Program
    <2>4. CASE Len(open) = 0
      <3>0. label = Root
        BY <2>4, Zenon DEF BeginStep
      <3>1. open = <<>> /\ label = Root /\ prog[i].label = Root
        <4>1. prog[i].label = Root
          BY <2>3, <2>4, Zenon DEF Calling, Program
        <4>2. open = <<>>
          BY <2>4, CurrentFacts
        <4> QED
          BY <3>0, <4>1, <4>2, Zenon
      <3>2. i \in {j \in 1 .. ip - 1 : prog[j].op = "begin" /\ prog[j].lv = Len(open)}
        BY <2>2, <2>3, Zenon
      <3>3. Root \in Begun(Len(open))
        BY <3>1, <3>2, Zenon DEF Begun
      <3> QED
        BY <1>1, <3>1, <3>3, Zenon
    <2>5. CASE Len(open) # 0
      <3>1. PICK j \in Begins(prog) : j < i /\ prog[j].lv = prog[i].lv - 1 /\ Inside(prog, j, i)
        BY <2>2, <2>3, <2>5, SMTT(30) DEF Calling, Program
      <3>2. node[ph[i]].parent = ph[j]
        <4>1. prog[i].lv = prog[j].lv + 1
          BY <2>2, <2>3, <3>1
        <4> QED
          BY <3>1, <4>1, Zenon DEF Calling, Program
      <3>3. node[g.phase].parent = current
        <4>1. node'[g.phase].parent = node[g.phase].parent
          BY Zenon DEF BeginStep, Grown
        <4> QED
          BY <4>1, BegunPhase, Zenon
      <3>4. Top.at \in Begins(prog) /\ ph[Top.at] = current /\ Top.at \in 1 .. Len(prog)
        BY <2>5, TopFacts, Zenon DEF Calling
      <3>5. j = Top.at
        BY <2>1, <3>1, <3>2, <3>3, <3>4 DEF Calling, Once
      <3>6. i \in Top.at + 1 .. ip - 1
        BY <2>2, <3>1, <3>4, <3>5
      <3> QED
        BY <1>1, <2>1, <2>3, <2>5, <3>6, <0>SameLabel, ZenonT(30)
    <2> QED
      BY <2>4, <2>5, Zenon
  <1> QED
    BY <1>2, Zenon DEF BeginStep, OldPhase

\* After a Begin the program so far still names, for every Begin call, the phase it entered.
<0>BeginProgram.
  ASSUME PhaseInv, PathInv, SingleWords, NEW ph, Calling(ph), NEW g, NEW label,
         BeginStep(g, label), NEW q, Extended(ph, q, g)
  PROVE  Program(node', prog', q)
  <1> USE <0>BeginProgram
  <1> DEFINE c == [op |-> "begin", lv |-> Len(open), label |-> label]
  <1>1. /\ Called(c) /\ c.op = "begin" /\ c.lv = Len(open) /\ c.label = label
    BY Zenon DEF BeginStep
  <1> HIDE DEF c
  <1>2. /\ prog' \in Seq(Calls) /\ Len(prog') \in Nat /\ Len(prog) <= Len(prog')
        /\ ip \in 1 .. Len(prog') /\ prog'[ip] = c
        /\ \A i \in 1 .. Len(prog) : prog'[i] = prog[i]
    BY <1>1, CallFacts, Zenon
  <1>3. Begins(prog') = Begins(prog) \cup {ip}
    BY <1>1, CallBegins, Zenon
  <1>4. Len(prog) \in Nat /\ ip \in 1 .. Len(prog) + 1 /\ ip \in Nat /\ Len(open) \in Nat /\ prog \in Seq(Calls)
    BY InvFacts, Zenon
  <1>5. CASE ip <= Len(prog)
    <2>1. prog' = prog /\ ip \in Begins(prog) /\ g.phase = ph[ip]
      BY <1>5, ReplayPhase, Zenon
    <2>2. \A i \in Begins(prog) : q[i] = ph[i]
      BY Zenon DEF Extended
    <2>3. \A i \in Begins(prog) : ph[i] \in DOMAIN node
      BY Zenon DEF Calling, Program
    <2>4. \A p \in DOMAIN node : /\ p \in DOMAIN node' /\ node'[p].level = node[p].level
                                 /\ node'[p].parent = node[p].parent /\ node'[p].path = node[p].path
      BY Zenon DEF BeginStep, Grown
    <2>5. \A i \in Begins(prog) : /\ q[i] \in DOMAIN node' /\ node'[q[i]].level = node[ph[i]].level
                                  /\ node'[q[i]].parent = node[ph[i]].parent
                                  /\ node'[q[i]].path = node[ph[i]].path
      BY <2>2, <2>3, <2>4, Zenon
    <2>6. Program(node, prog, ph)
      BY Zenon DEF Calling
    <2>7. Program(node', prog, q)
      <3>1. ASSUME NEW i \in Begins(prog), NEW j \in Begins(prog),
                   j < i /\ Inside(prog, j, i) /\ prog[i].lv = prog[j].lv + 1
            PROVE  node'[q[i]].parent = q[j] /\ node'[q[i]].path = node'[q[j]].path \o prog[i].label
        <4>1. node[ph[i]].parent = ph[j] /\ node[ph[i]].path = node[ph[j]].path \o prog[i].label
          BY <2>6, <3>1, Zenon DEF Program
        <4> QED
          BY <2>2, <2>5, <4>1, Zenon
      <3>2. \A i \in Begins(prog) : /\ q[i] \in DOMAIN node' /\ node'[q[i]].level = prog[i].lv
                                    /\ prog[i].lv = 0 => prog[i].label = Root
        BY <2>5, <2>6, Zenon DEF Program
      <3>3. ASSUME NEW i \in Begins(prog), prog[i].lv > 0
            PROVE  \E j \in Begins(prog) : j < i /\ prog[j].lv = prog[i].lv - 1 /\ Inside(prog, j, i)
        BY <2>6, <3>3, Zenon DEF Program
      <3>4. \A i, j \in Begins(prog) :
              j < i /\ Inside(prog, j, i) /\ prog[i].lv = prog[j].lv + 1 =>
                node'[q[i]].parent = q[j] /\ node'[q[i]].path = node'[q[j]].path \o prog[i].label
        BY <3>1, Zenon
      <3>5. \A i \in Begins(prog) :
              prog[i].lv > 0 =>
                \E j \in Begins(prog) : j < i /\ prog[j].lv = prog[i].lv - 1 /\ Inside(prog, j, i)
        BY <3>3, Zenon
      <3> QED
        BY <3>2, <3>4, <3>5, Zenon DEF Program
    <2> QED
      BY <2>1, <2>7, Zenon
  <1>6. CASE ip = Len(prog) + 1
    <2>1. \A i \in Begins(prog) : i \in 1 .. Len(prog) /\ i # ip /\ i < ip /\ prog'[i] = prog[i] /\ q[i] = ph[i]
      BY <1>2, <1>4, <1>6 DEF Begins, Extended
    <2>2. q[ip] = g.phase /\ prog'[ip].lv = Len(open) /\ prog'[ip].label = label
      BY <1>1, <1>2, Zenon DEF Extended
    <2>3. \A p \in DOMAIN node : /\ p \in DOMAIN node' /\ node'[p].level = node[p].level
                                 /\ node'[p].parent = node[p].parent /\ node'[p].path = node[p].path
      BY Zenon DEF BeginStep, Grown
    <2>4. \A i \in Begins(prog) : ph[i] \in DOMAIN node
      BY Zenon DEF Calling, Program
    <2>5. \A i, j \in Begins(prog) : Inside(prog', j, i) <=> Inside(prog, j, i)
      <3> TAKE i, j \in Begins(prog)
      <3>1. j \in 1 .. Len(prog) /\ i \in Int /\ i <= Len(prog)
        BY <1>4, <2>1
      <3> QED
        BY <1>1, <3>1, CallInside, Zenon
    <2>6. Len(open) # 0 => /\ Top.at \in Begins(prog) /\ Top.at < ip /\ ph[Top.at] = current
                           /\ prog[Top.at].lv = Len(open) - 1 /\ Inside(prog', Top.at, ip)
                           /\ Inside(prog', Top.at, ip - 1)
      <3> SUFFICES ASSUME Len(open) # 0
                   PROVE  /\ Top.at \in Begins(prog) /\ Top.at < ip /\ ph[Top.at] = current
                          /\ prog[Top.at].lv = Len(open) - 1 /\ Inside(prog', Top.at, ip)
                          /\ Inside(prog', Top.at, ip - 1)
        BY Zenon
      <3>1. /\ Top.at \in Begins(prog) /\ Top.at \in 1 .. ip - 1 /\ Top.at \in 1 .. Len(prog)
            /\ ph[Top.at] = current /\ prog[Top.at].lv = Len(open) - 1
            /\ Inside(prog, Top.at, ip - 1)
        BY TopFacts, Zenon DEF Calling
      <3>2. ip - 1 \in Int /\ ip - 1 <= Len(prog) /\ Top.at \in Nat /\ Top.at < ip
        BY <1>4, <1>6, <3>1
      <3>3. Inside(prog', Top.at, ip - 1)
        BY <1>1, <3>1, <3>2, CallInside, Zenon
      <3>4. prog'[ip].lv > prog'[Top.at].lv
        BY <1>4, <2>1, <2>2, <3>1
      <3> QED
        BY <1>4, <3>1, <3>2, <3>3, <3>4, InsideNext, Zenon
    <2>7. ASSUME NEW i \in Begins(prog')
          PROVE  /\ q[i] \in DOMAIN node' /\ node'[q[i]].level = prog'[i].lv
                 /\ prog'[i].lv = 0 => prog'[i].label = Root
                 /\ prog'[i].lv > 0 =>
                      \E j \in Begins(prog') : j < i /\ prog'[j].lv = prog'[i].lv - 1 /\ Inside(prog', j, i)
      <3>1. CASE i \in Begins(prog)
        <4>1. /\ ph[i] \in DOMAIN node /\ node[ph[i]].level = prog[i].lv
              /\ prog[i].lv = 0 => prog[i].label = Root
              /\ prog[i].lv > 0 =>
                   \E j \in Begins(prog) : j < i /\ prog[j].lv = prog[i].lv - 1 /\ Inside(prog, j, i)
          BY <3>1, Zenon DEF Calling, Program
        <4>2. prog'[i] = prog[i] /\ q[i] = ph[i]
          BY <2>1, <3>1, Zenon
        <4>3. prog[i].lv > 0 =>
                \E j \in Begins(prog') : j < i /\ prog'[j].lv = prog[i].lv - 1 /\ Inside(prog', j, i)
          BY <1>3, <2>1, <2>5, <3>1, <4>1, Zenon
        <4> QED
          BY <2>3, <4>1, <4>2, <4>3, Zenon
      <3>2. CASE i = ip
        <4>1. g.phase \in DOMAIN node' /\ node'[g.phase].level = Len(open)
              /\ (Len(open) = 0 => label = Root)
          BY BegunPhase, Zenon DEF BeginStep
        <4>2. Len(open) > 0 =>
                \E j \in Begins(prog') : j < ip /\ prog'[j].lv = Len(open) - 1 /\ Inside(prog', j, ip)
          BY <1>3, <1>4, <2>1, <2>6, SMTT(30)
        <4> QED
          BY <2>2, <3>2, <4>1, <4>2, Zenon
      <3> QED
        BY <1>3, <3>1, <3>2, Zenon
    <2>8. ASSUME NEW i \in Begins(prog'), NEW j \in Begins(prog'), j < i, Inside(prog', j, i),
                 prog'[i].lv = prog'[j].lv + 1
          PROVE  /\ node'[q[i]].parent = q[j]
                 /\ node'[q[i]].path = node'[q[j]].path \o prog'[i].label
      <3>1. CASE i \in Begins(prog)
        <4>1. j \in Begins(prog)
          BY <1>3, <1>4, <2>1, <2>8, <3>1
        <4>2. node[ph[i]].parent = ph[j] /\ node[ph[i]].path = node[ph[j]].path \o prog[i].label
          <5>1. prog[i].lv = prog[j].lv + 1 /\ Inside(prog, j, i)
            BY <2>1, <2>5, <2>8, <3>1, <4>1, Zenon
          <5> QED
            BY <2>8, <3>1, <4>1, <5>1, Zenon DEF Calling, Program
        <4>3. q[i] = ph[i] /\ q[j] = ph[j] /\ prog'[i] = prog[i] /\ ph[i] \in DOMAIN node
              /\ ph[j] \in DOMAIN node
          BY <2>1, <2>4, <3>1, <4>1, Zenon
        <4> QED
          BY <2>3, <4>2, <4>3, Zenon
      <3>2. CASE i = ip
        <4>1. j \in Begins(prog) /\ j \in 1 .. ip - 1 /\ prog'[j] = prog[j] /\ q[j] = ph[j]
              /\ prog[j].lv \in Nat
          <5>1. j \in Begins(prog)
            BY <1>3, <1>4, <2>8, <3>2
          <5>2. j \in 1 .. Len(prog) /\ prog'[j] = prog[j] /\ q[j] = ph[j]
            BY <2>1, <5>1, Zenon
          <5>3. prog[j].lv \in Nat
            BY <1>4, <5>2, CallFields, Zenon
          <5> QED
            BY <1>4, <1>6, <5>1, <5>2, <5>3
        <4>2. Len(open) # 0 /\ prog[j].lv = Len(open) - 1
          BY <1>4, <2>2, <2>8, <3>2, <4>1
        <4>3. j = Top.at
          <5>1. Inside(prog', j, ip - 1)
            <6>1. \A k \in j + 1 .. ip - 1 : k \in j + 1 .. ip
              BY <1>4, <4>1
            <6>2. Inside(prog', j, ip)
              BY <2>8, <3>2, Zenon
            <6> SUFFICES ASSUME NEW k \in j + 1 .. ip - 1 PROVE prog'[k].lv > prog'[j].lv
              BY Zenon DEF Inside
            <6>3. k \in j + 1 .. ip
              BY <6>1, Zenon
            <6> QED
              BY <6>2, <6>3, Zenon DEF Inside
          <5>2. Top.at \in 1 .. ip - 1 /\ prog'[Top.at].lv = prog'[j].lv
            <6>1. Top.at \in Begins(prog) /\ prog[Top.at].lv = Len(open) - 1
              BY <2>6, <4>2, Zenon
            <6>2. Top.at \in 1 .. Len(prog) /\ prog'[Top.at] = prog[Top.at]
              BY <2>1, <6>1, Zenon
            <6> QED
              BY <1>4, <1>6, <4>1, <4>2, <6>1, <6>2
          <5>3. ip - 1 \in 0 .. Len(prog')
            BY <1>2, <1>4
          <5> QED
            BY <1>2, <2>6, <4>1, <4>2, <5>1, <5>2, <5>3, SameInside, Zenon
        <4>4. current # NULL /\ q[j] = current /\ current \in DOMAIN node
          BY <2>6, <4>1, <4>2, <4>3, CurrentFacts, Zenon
        <4>5. node'[g.phase].parent = current /\ node'[g.phase].path = node[current].path \o label
          BY <4>4, BegunPhase, Zenon
        <4> QED
          BY <2>2, <2>3, <3>2, <4>4, <4>5, Zenon
      <3> QED
        BY <1>3, <3>1, <3>2, Zenon
    <2> QED
      BY <2>7, <2>8, Zenon DEF Program
  <1> QED
    BY <1>4, <1>5, <1>6

\* What a Begin does to the program so far: it is the next call, replayed or new.
<0>BeginCall.
  ASSUME PhaseInv, NEW ph, NEW g, NEW label, BeginStep(g, label), NEW q, Extended(ph, q, g)
  PROVE  Made(ph, q, g, label)
  <1> USE <0>BeginCall
  <1> DEFINE c == [op |-> "begin", lv |-> Len(open), label |-> label]
  <1>1. /\ Called(c) /\ c.op = "begin" /\ c.lv = Len(open) /\ c.label = label
    BY Zenon DEF BeginStep
  <1> HIDE DEF c
  <1>2. /\ prog' \in Seq(Calls) /\ Len(prog') \in Nat /\ ip \in 1 .. Len(prog') /\ prog'[ip] = c
        /\ \A i \in 1 .. Len(prog) : prog'[i] = prog[i]
    BY <1>1, CallFacts, Zenon
  <1>3. Begins(prog') = Begins(prog) \cup {ip}
    BY <1>1, CallBegins, Zenon
  <1>4. \/ ip <= Len(prog) /\ prog' = prog
        \/ ip = Len(prog) + 1 /\ Len(prog') = Len(prog) + 1
    BY <1>1, InvFacts DEF Called
  <1>5. \A i \in Begins(prog) : i \in 1 .. Len(prog) /\ prog'[i] = prog[i] /\ q[i] = ph[i]
    BY <1>2, Zenon DEF Begins, Extended
  <1>6. q[ip] = g.phase
    BY Zenon DEF Extended
  <1> QED
    BY <1>1, <1>2, <1>3, <1>4, <1>5, <1>6, Zenon DEF Made

\* Begin keeps the CD path in the program.
<0>BeginOpenCalls.
  ASSUME PhaseInv, PathInv, NEW ph, OpenCalls(open, prog, ph, ip), NEW g, NEW label,
         BeginStep(g, label), NEW q, Extended(ph, q, g)
  PROVE  OpenCalls(open', prog', q, ip')
  <1> USE <0>BeginOpenCalls
  <1>1. /\ prog'[ip].lv = Len(open) /\ q[ip] = g.phase /\ Begins(prog') = Begins(prog) \cup {ip}
        /\ \A i \in Begins(prog) : i \in 1 .. Len(prog) /\ prog'[i] = prog[i] /\ q[i] = ph[i]
    <2>1. Made(ph, q, g, label)
      BY <0>BeginCall, Zenon
    <2> QED
      BY <2>1, Zenon DEF Made
  <1>2. /\ open \in Seq([phase : Nat, at : Nat]) /\ Len(open) \in Nat /\ DOMAIN open = 1 .. Len(open)
        /\ ip \in Nat /\ ip - 1 <= Len(prog) /\ ip - 1 \in Int
    BY InvFacts
  <1>3. ip' = ip + 1 /\ ip' - 1 = ip /\ open' = Append(open, [phase |-> g.phase, at |-> ip])
    BY <1>2, SMTT(30) DEF BeginStep
  <1>4. /\ DOMAIN open' = 1 .. Len(open) + 1 /\ \A l \in 1 .. Len(open) : open'[l] = open[l]
        /\ open'[Len(open) + 1].phase = g.phase /\ open'[Len(open) + 1].at = ip
    BY <1>2, <1>3
  <1>5. ASSUME NEW l \in DOMAIN open'
        PROVE  /\ open'[l].at \in Begins(prog') /\ open'[l].phase = q[open'[l].at]
               /\ prog'[open'[l].at].lv = l - 1 /\ Inside(prog', open'[l].at, ip)
    <2>1. CASE l \in DOMAIN open
      <3> DEFINE a == open[l].at
      <3>1. a \in Begins(prog) /\ open[l].phase = ph[a] /\ prog[a].lv = l - 1 /\ Inside(prog, a, ip - 1)
        BY <2>1, Zenon DEF OpenCalls
      <3>2. a \in 1 .. ip - 1
        BY <2>1, Zenon DEF PhaseInv, PathOK
      <3>3. open'[l] = open[l]
        BY <1>2, <1>4, <2>1, Zenon
      <3> HIDE DEF a
      <3>4. a \in 1 .. Len(prog) /\ prog'[a] = prog[a] /\ q[a] = ph[a] /\ a \in Begins(prog')
        BY <1>1, <3>1, Zenon
      <3>5. Inside(prog', a, ip - 1)
        <4>1. Called([op |-> "begin", lv |-> Len(open), label |-> label])
          BY Zenon DEF BeginStep
        <4> QED
          BY <1>2, <3>1, <3>4, <4>1, CallInside, Zenon
      <3>6. prog'[ip].lv > prog'[a].lv /\ a < ip /\ a \in Nat
        <4>1. l \in 1 .. Len(open) /\ prog'[a].lv = l - 1 /\ prog'[ip].lv = Len(open)
          BY <1>1, <1>2, <2>1, <3>1, <3>4, Zenon
        <4> QED
          BY <1>2, <3>2, <4>1
      <3>7. Inside(prog', a, ip)
        BY <1>2, <3>5, <3>6, InsideNext, Zenon
      <3> QED
        BY <3>1, <3>3, <3>4, <3>7, Zenon DEF a
    <2>2. CASE l = Len(open) + 1
      <3>1. Inside(prog', ip, ip)
        <4>1. \A k \in ip + 1 .. ip : FALSE
          BY <1>2
        <4> QED
          BY <4>1, Zenon DEF Inside
      <3>2. open'[l].at = ip /\ open'[l].phase = g.phase /\ l - 1 = Len(open) /\ ip \in Begins(prog')
        BY <1>1, <1>2, <1>4, <2>2
      <3> QED
        BY <1>1, <3>1, <3>2, Zenon
    <2>3. l \in DOMAIN open \/ l = Len(open) + 1
      <3>1. l \in 1 .. Len(open) + 1
        BY <1>4, Zenon
      <3> QED
        BY <1>2, <3>1
    <2> QED
      BY <2>1, <2>2, <2>3, Zenon
  <1> QED
    BY <1>3, <1>5, Zenon DEF OpenCalls

\* Begin keeps the labels of a CD distinct.
<0>BeginDistinct.
  ASSUME PhaseInv, PathInv, NEW ph, Calling(ph), NEW g, NEW label,
         BeginStep(g, label), NEW q, Extended(ph, q, g)
  PROVE  Distinct(prog', Loops)
  <1> USE <0>BeginDistinct
  <1>1. /\ prog'[ip].lv = Len(open) /\ prog'[ip].label = label /\ Begins(prog') = Begins(prog) \cup {ip}
        /\ \A i \in Begins(prog) : i \in 1 .. Len(prog) /\ prog'[i] = prog[i]
        /\ \/ ip <= Len(prog) /\ prog' = prog
           \/ ip = Len(prog) + 1 /\ Len(prog') = Len(prog) + 1
    <2>1. Made(ph, q, g, label)
      BY <0>BeginCall, Zenon
    <2> QED
      BY <2>1, Zenon DEF Made
  <1>2. Distinct(prog, Loops)
    BY Zenon DEF Calling
  <1>3. Len(prog) \in Nat /\ ip \in Nat /\ Len(open) \in Nat
    BY InvFacts, Zenon
  <1>4. CASE ip = Len(prog) + 1
    <2> SUFFICES ASSUME NEW i \in Begins(prog'), NEW j \in Begins(prog'),
                        i < j, prog'[i].lv = prog'[j].lv, prog'[i].lv \notin Loops,
                        \A k \in i .. j : prog'[k].lv >= prog'[i].lv
                 PROVE  prog'[i].label # prog'[j].label
      BY Zenon DEF Distinct
    <2>1. i \in Begins(prog)
      <3>1. i # ip
        <4>1. j \in 1 .. Len(prog) \/ j = ip
          BY <1>1, Zenon
        <4> QED
          BY <1>3, <1>4, <4>1
      <3> QED
        BY <1>1, <3>1, Zenon
    <2>2. i \in 1 .. Len(prog) /\ prog'[i] = prog[i] /\ i \in Nat
      BY <1>1, <2>1
    <2>3. CASE j \in Begins(prog)
      <3>1. j \in 1 .. Len(prog) /\ prog'[j] = prog[j]
        BY <1>1, <2>3, Zenon
      <3>2. \A k \in i .. j : k \in 1 .. Len(prog)
        BY <1>3, <2>2, <3>1
      <3>3. \A k \in 1 .. Len(prog) : prog'[k] = prog[k]
        BY Zenon DEF BeginStep, Called
      <3>4. \A k \in i .. j : prog[k].lv >= prog[i].lv
        BY <2>2, <3>2, <3>3, Zenon
      <3> QED
        BY <1>2, <2>1, <2>2, <2>3, <3>1, <3>4, Zenon DEF Distinct
    <2>4. CASE j = ip
      <3>1. prog[i].lv = Len(open) /\ Len(open) \notin Loops /\ prog[i].op = "begin"
        BY <1>1, <2>1, <2>2, <2>4, Zenon DEF Begins
      <3>2. label \notin Begun(Len(open))
        BY <3>1, Zenon DEF BeginStep
      <3>3. CASE Len(open) = 0
        <4>1. i \in {k \in 1 .. ip - 1 : prog[k].op = "begin" /\ prog[k].lv = Len(open)}
          BY <1>3, <1>4, <2>2, <3>1
        <4>2. open = <<>>
          BY <3>3, InvFacts
        <4>3. prog[i].label \in Begun(Len(open))
          BY <4>1, <4>2, Zenon DEF Begun
        <4> QED
          BY <1>1, <2>2, <2>4, <3>2, <4>3, Zenon
      <3>4. CASE Len(open) # 0
        <4>1. Top.at \in Begins(prog) /\ Top.at \in 1 .. Len(prog) /\ prog[Top.at].lv = Len(open) - 1
          BY <3>4, TopFacts, Zenon DEF Calling
        <4>2. i \in Top.at + 1 .. ip - 1
          <5> SUFFICES ASSUME i <= Top.at PROVE FALSE
            BY <1>3, <1>4, <2>2, <4>1
          <5>1. Top.at \in i .. j
            BY <1>3, <1>4, <2>2, <2>4, <4>1
          <5>2. prog'[Top.at].lv >= prog'[i].lv /\ prog'[Top.at] = prog[Top.at]
            BY <1>1, <4>1, <5>1, Zenon
          <5> QED
            BY <1>3, <2>2, <3>1, <4>1, <5>2
        <4>3. i \in {k \in Top.at + 1 .. ip - 1 : prog[k].op = "begin" /\ prog[k].lv = Len(open)}
          BY <3>1, <4>2, Zenon
        <4>4. open # <<>>
          BY <3>4
        <4>5. prog[i].label \in Begun(Len(open))
          BY <4>3, <4>4, Zenon DEF Begun
        <4> QED
          BY <1>1, <2>2, <2>4, <3>2, <4>5, Zenon
      <3> QED
        BY <3>3, <3>4, Zenon
    <2> QED
      BY <1>1, <2>3, <2>4, Zenon
  <1> QED
    BY <1>1, <1>2, <1>4, Zenon

\* Begin keeps the phases apart when no level loops.
<0>BeginOnce.
  ASSUME PhaseInv, PathInv, SingleWords, NEW ph, Calling(ph), NEW g, NEW label,
         BeginStep(g, label), NEW q, Extended(ph, q, g), Loops = {}
  PROVE  Once(node', prog', q)
  <1> USE <0>BeginOnce
  <1>1. /\ q[ip] = g.phase /\ Begins(prog') = Begins(prog) \cup {ip}
        /\ \A i \in Begins(prog) : i \in 1 .. Len(prog) /\ prog'[i] = prog[i] /\ q[i] = ph[i]
        /\ \/ ip <= Len(prog) /\ prog' = prog
           \/ ip = Len(prog) + 1 /\ Len(prog') = Len(prog) + 1
    <2>1. Made(ph, q, g, label)
      BY <0>BeginCall, Zenon
    <2> QED
      BY <2>1, Zenon DEF Made
  <1>2. Once(node, prog, ph) /\ DOMAIN node' = DOMAIN g.nodes
    BY Zenon DEF Calling, BeginStep
  <1>3. \A i \in Begins(prog) : ph[i] \in DOMAIN node
    BY Zenon DEF Calling, Program
  <1>4. CASE ip <= Len(prog) /\ prog' = prog
    <2>1. ip \in Begins(prog) /\ OldPhase(g, label)
      BY <1>4, ReplayPhase, Zenon
    <2>2. DOMAIN node' = DOMAIN node
      BY <1>2, <2>1, Zenon DEF OldPhase, Kept, SamePhases
    <2>3. Begins(prog') = Begins(prog) /\ \A i \in Begins(prog) : q[i] = ph[i]
      BY <1>1, <1>4, Zenon
    <2> QED
      BY <1>2, <2>2, <2>3, Zenon DEF Once
  <1>5. CASE ip = Len(prog) + 1
    <2>1. g.phase \notin DOMAIN node
      BY <1>5, <0>NewCallNewPhase, Zenon
    <2>2. PICK x : NewPhase(g, x, Len(open), label)
      BY <1>5, <0>NewCallNewPhase, Zenon
    <2>3. DOMAIN node' = DOMAIN node \cup {g.phase}
      <3>1. g.phase = Len(node) + 1 /\ g.nodes = Append(node, x)
        BY <2>2, Zenon DEF NewPhase
      <3>2. node \in Seq(Phases) /\ DOMAIN node = 1 .. Len(node) /\ Len(node) \in Nat /\ x \in Phases
        BY <2>2, InvFacts, Zenon DEF NewPhase, IsNew
      <3>3. DOMAIN Append(node, x) = 1 .. Len(node) + 1
        BY <3>2
      <3> QED
        BY <1>2, <3>1, <3>2, <3>3
    <2>4. ASSUME NEW p \in DOMAIN node'
          PROVE  \E i \in Begins(prog') : q[i] = p
      <3>1. CASE p = g.phase
        BY <1>1, <3>1, Zenon
      <3>2. CASE p \in DOMAIN node
        <4>1. PICK i \in Begins(prog) : ph[i] = p
          BY <1>2, <3>2, Zenon DEF Once
        <4> QED
          BY <1>1, <4>1, Zenon
      <3> QED
        BY <2>3, <3>1, <3>2, Zenon
    <2>5. ASSUME NEW i \in Begins(prog'), NEW j \in Begins(prog'), q[i] = q[j]
          PROVE  i = j
      <3>1. \A k \in Begins(prog) : q[k] # g.phase
        BY <1>1, <1>3, <2>1, Zenon
      <3>2. CASE i \in Begins(prog) /\ j \in Begins(prog)
        BY <1>1, <1>2, <2>5, <3>2, Zenon DEF Once
      <3> QED
        BY <1>1, <2>5, <3>1, <3>2, Zenon
    <2> QED
      BY <2>4, <2>5, Zenon DEF Once
  <1> QED
    BY <1>1, <1>4, <1>5, Zenon

\* What a Begin does to the phase nodes: only the entered one may change.
<0>BeginEffect.
  ASSUME PhaseInv, NEW g, NEW label, BeginStep(g, label)
  PROVE  Effect(g)
  <1> USE <0>BeginEffect
  <1>1. /\ OldPhase(g, label) \/ \E x : NewPhase(g, x, Len(open), label)
        /\ IsTree(g.nodes) /\ DOMAIN node' = DOMAIN g.nodes /\ g.phase \in DOMAIN g.nodes
        /\ IF prev_phase # g.phase /\ ~(prev_phase # HEALTHY /\ g.nodes[prev_phase].level > Len(open))
           THEN Marked(g.nodes, node', g.phase) ELSE node' = g.nodes
    BY Zenon DEF BeginStep
  <1>2. /\ node \in Seq(Phases) /\ Len(node) \in Nat /\ DOMAIN node = 1 .. Len(node) /\ IsTree(node)
        /\ prev_phase \in {HEALTHY} \cup DOMAIN node
    BY InvFacts, Zenon DEF PhaseInv, PointOK
  <1>3. /\ DOMAIN g.nodes = DOMAIN node \cup {g.phase}
        /\ \A p \in DOMAIN node :
             /\ g.nodes[p].seq_begin = node[p].seq_begin /\ g.nodes[p].seq_end = node[p].seq_end
             /\ g.nodes[p].level = node[p].level
             /\ p # g.phase => g.nodes[p].state = node[p].state
        /\ g.phase \notin DOMAIN node => g.nodes[g.phase].seq_end = g.nodes[g.phase].seq_begin
        /\ \/ g.phase \in DOMAIN node /\ g.nodes[g.phase].state = node[g.phase].state
           \/ g.phase \notin DOMAIN node /\ g.nodes[g.phase].state = kExecution
           \/ /\ current # NULL /\ node[current].state = kReexecution
              /\ g.nodes[g.phase].state = kReexecution
    <2>1. CASE OldPhase(g, label)
      <3>1. g.phase \in DOMAIN node /\ Kept(node, g.nodes)
            /\ \A q \in DOMAIN node :
                 \/ g.nodes[q].state = node[q].state
                 \/ /\ q = g.phase /\ g.nodes[q].state = kReexecution
                    /\ current # NULL /\ node[current].state = kReexecution
        BY <2>1, Zenon DEF OldPhase
      <3>2. DOMAIN g.nodes = DOMAIN node /\ \A p \in DOMAIN node :
              /\ g.nodes[p].seq_begin = node[p].seq_begin /\ g.nodes[p].seq_end = node[p].seq_end
              /\ g.nodes[p].level = node[p].level
        BY <3>1, Zenon DEF Kept, SamePhases
      <3> QED
        BY <3>1, <3>2, Zenon
    <2>2. ASSUME NEW x, NewPhase(g, x, Len(open), label)
          PROVE  <1>3!:
      <3>1. /\ g.phase = Len(node) + 1 /\ g.nodes = Append(node, x) /\ x \in Phases
            /\ x.seq_end = x.seq_begin
            /\ x.state = kExecution \/ (current # NULL /\ x.state = node[current].state)
        BY <2>2, Zenon DEF NewPhase, IsNew
      <3>2. /\ DOMAIN g.nodes = 1 .. Len(node) + 1 /\ g.nodes[Len(node) + 1] = x
            /\ \A p \in 1 .. Len(node) : g.nodes[p] = node[p]
        BY <1>2, <3>1
      <3>3. g.phase \notin DOMAIN node /\ DOMAIN g.nodes = DOMAIN node \cup {g.phase}
        BY <1>2, <3>1, <3>2
      <3>4. x.state \in {kExecution, kReexecution}
        BY <3>1, PhaseFields, Zenon
      <3>5. \/ g.nodes[g.phase].state = kExecution
            \/ /\ current # NULL /\ node[current].state = kReexecution
               /\ g.nodes[g.phase].state = kReexecution
        BY <3>1, <3>2, <3>4, Zenon
      <3> QED
        BY <1>2, <3>1, <3>2, <3>3, <3>5, Zenon
    <2> QED
      BY <1>1, <2>1, <2>2, Zenon
  <1>4. g.phase # HEALTHY
    <2>1. g.phase \in 1 .. Len(g.nodes) /\ Len(g.nodes) \in Nat
      BY <1>1 DEF IsTree
    <2> QED
      BY <2>1 DEF HEALTHY
  <1>5. IF Marks(g) THEN Marked(g.nodes, node', g.phase) ELSE node' = g.nodes
    <2>1. prev_phase # HEALTHY => g.nodes[prev_phase].level = node[prev_phase].level
      BY <1>2, <1>3, Zenon
    <2> QED
      BY <1>1, <2>1, Zenon DEF Marks
  <1>6. CASE ~Marks(g)
    <2>1. node' = g.nodes
      BY <1>5, <1>6, Zenon
    <2> QED
      BY <1>3, <1>4, <1>6, <2>1, Zenon DEF Effect
  <1>7. CASE Marks(g)
    <2>1. /\ \A q \in DOMAIN g.nodes : node'[q].state = g.nodes[q].state /\ node'[q].left = g.nodes[q].left
          /\ \A q \in DOMAIN g.nodes \ {g.phase} : node'[q] = g.nodes[q]
          /\ node'[g.phase].seq_begin = LeftBegin(g.nodes, g.phase)
          /\ node'[g.phase].seq_end = LeftBegin(g.nodes, g.phase)
      BY <1>5, <1>7, Zenon DEF Marked, SamePhases
    <2>2. LeftBegin(node', g.phase) = LeftBegin(g.nodes, g.phase)
      <3>1. g.nodes[g.phase].left \in 0 .. g.phase - 1 /\ g.phase \in 1 .. Len(g.nodes) /\ Len(g.nodes) \in Nat
            /\ DOMAIN g.nodes = 1 .. Len(g.nodes)
        BY <1>1 DEF IsTree
      <3>2. node'[g.phase].left = g.nodes[g.phase].left
        BY <1>1, <2>1, Zenon
      <3>3. g.nodes[g.phase].left # NULL =>
              g.nodes[g.phase].left \in DOMAIN g.nodes \ {g.phase}
        BY <3>1 DEF NULL
      <3>4. g.nodes[g.phase].left # NULL =>
              node'[g.nodes[g.phase].left] = g.nodes[g.nodes[g.phase].left]
        BY <2>1, <3>3, Zenon
      <3> QED
        BY <3>2, <3>4, Zenon DEF LeftBegin
    <2>3. DOMAIN node' = DOMAIN node \cup {g.phase}
      BY <1>1, <1>3, Zenon
    <2>4. \A p \in DOMAIN node : p # g.phase =>
            /\ node'[p].seq_begin = node[p].seq_begin /\ node'[p].seq_end = node[p].seq_end
            /\ node'[p].state = node[p].state
      BY <1>3, <2>1, ZenonT(30)
    <2>5. /\ node'[g.phase].seq_begin = LeftBegin(node', g.phase)
          /\ node'[g.phase].seq_end = LeftBegin(node', g.phase)
      BY <2>1, <2>2, Zenon
    <2>6. node'[g.phase].state = g.nodes[g.phase].state
      BY <1>1, <2>1, Zenon
    <2> QED
      BY <1>3, <1>4, <1>7, <2>3, <2>4, <2>5, <2>6, Zenon DEF Effect
  <1> QED
    BY <1>6, <1>7, Zenon

\* A phase whose ids start again is not begun after a deeper one.
<0>MarksAfterShallow.
  ASSUME PhaseInv, PathInv, SingleWords, NEW ph, Calling(ph), Prev(ph), NEW g, NEW label,
         BeginStep(g, label), Marks(g)
  PROVE  \A b \in Begins(prog) : LastBegin(prog, b, ip) => prog[b].lv <= Len(open)
  <1> USE <0>MarksAfterShallow
  <1> SUFFICES ASSUME NEW b \in Begins(prog), LastBegin(prog, b, ip)
               PROVE  prog[b].lv <= Len(open)
    BY Zenon
  <1>1. /\ prev_phase # g.phase
        /\ prev_phase = HEALTHY \/ ~(node[prev_phase].level > Len(open))
    BY Zenon DEF Marks
  <1>2. b \in 1 .. ip - 1 /\ ip \in Nat /\ Len(open) \in Nat /\ Len(prog) \in Nat /\ b \in Nat
    BY InvFacts DEF LastBegin, Begins
  <1>3. CASE prev_phase = HEALTHY /\ \A k \in 1 .. ip - 1 : k \notin Begins(prog)
    BY <1>2, <1>3, Zenon
  <1>4. ASSUME NEW a \in Begins(prog), LastBegin(prog, a, ip), prev_phase = ph[a]
        PROVE  prog[b].lv <= Len(open)
    <2>1. a \in 1 .. ip - 1 /\ a \in Nat
      BY <1>2, <1>4 DEF LastBegin, Begins
    <2>2. a = b
      <3>1. ~(a < b)
        <4>1. a < b => b \in a + 1 .. ip - 1
          BY <1>2, <2>1
        <4> QED
          BY <1>4, <4>1, Zenon DEF LastBegin
      <3>2. ~(b < a)
        <4>1. b < a => a \in b + 1 .. ip - 1
          BY <1>2, <2>1
        <4> QED
          BY <4>1, Zenon DEF LastBegin
      <3> QED
        BY <1>2, <2>1, <3>1, <3>2
    <2>3. ph[a] \in DOMAIN node /\ node[ph[a]].level = prog[a].lv
      BY Zenon DEF Calling, Program
    <2>4. prev_phase # HEALTHY
      BY <1>4, <2>3, InvFacts DEF HEALTHY
    <2>5. ~(prog[b].lv > Len(open))
      BY <1>1, <1>4, <2>2, <2>3, <2>4, Zenon
    <2>6. prog[b].lv \in Nat
      BY InvFacts, CallFields, Zenon DEF Begins
    <2> QED
      BY <1>2, <2>5, <2>6
  <1>5. CASE /\ ip \in Begins(prog) /\ prev_phase \in DOMAIN node
             /\ prev_phase = ph[ip] \/ node[prev_phase].level > prog[ip].lv
    <2>1. ip <= Len(prog)
      BY <1>2, <1>5 DEF Begins
    <2>2. g.phase = ph[ip] /\ prog[ip].lv = Len(open)
      BY <2>1, ReplayPhase, Zenon
    <2>3. prev_phase # HEALTHY
      BY <1>5, InvFacts DEF HEALTHY
    <2> QED
      BY <1>1, <1>5, <2>2, <2>3, Zenon
  <1> QED
    BY <1>3, <1>4, <1>5, Zenon DEF Prev, PrevIsLast

\* A phase that is begun for the first time and not after a deeper one has its ids start again.
<0>ShallowMarks.
  ASSUME PhaseInv, PathInv, SingleWords, NEW ph, Calling(ph), Prev(ph), NEW g, NEW label,
         BeginStep(g, label), ip = Len(prog) + 1, Loops = {},
         \A b \in Begins(prog) : LastBegin(prog, b, ip) => prog[b].lv <= Len(open)
  PROVE  Marks(g)
  <1> USE <0>ShallowMarks
  <1>1. g.phase \notin DOMAIN node /\ g.phase # HEALTHY
    BY <0>NewCallNewPhase, <0>BeginEffect, Zenon DEF Effect
  <1>2. prev_phase # g.phase
    BY <1>1, Zenon DEF PhaseInv, PointOK
  <1>3. ip \notin Begins(prog) /\ Len(open) \in Nat
    BY InvFacts DEF Begins
  <1>4. CASE prev_phase = HEALTHY
    BY <1>2, <1>4, Zenon DEF Marks
  <1>5. ASSUME NEW a \in Begins(prog), LastBegin(prog, a, ip), prev_phase = ph[a]
        PROVE  Marks(g)
    <2>1. node[ph[a]].level = prog[a].lv /\ prog[a].lv <= Len(open)
      BY <1>5, Zenon DEF Calling, Program
    <2>2. prog[a].lv \in Nat
      BY InvFacts, CallFields, Zenon DEF Begins
    <2> QED
      BY <1>2, <1>3, <1>5, <2>1, <2>2 DEF Marks
  <1> QED
    BY <1>3, <1>4, <1>5, Zenon DEF Prev, PrevIsLast

\* Begin keeps the first id of every phase if no level loops.
<0>SameBegins.
  ASSUME PhaseInv, PathInv, SingleWords, NEW ph, Calling(ph), Prev(ph), NEW g, NEW label,
         BeginStep(g, label), Loops = {}, LeftIds(node, prog, ph)
  PROVE  \A p \in DOMAIN node : node'[p].seq_begin = node[p].seq_begin
  <1> USE <0>SameBegins
  <1> SUFFICES ASSUME NEW p \in DOMAIN node, p = g.phase, Marks(g)
               PROVE  node'[p].seq_begin = node[p].seq_begin
    BY <0>BeginEffect, Zenon DEF Effect
  <1>1. ip <= Len(prog)
    <2>1. ip # Len(prog) + 1
      BY <0>NewCallNewPhase, Zenon
    <2> QED
      BY <2>1, InvFacts
  <1>2. ip \in Begins(prog) /\ g.phase = ph[ip] /\ prog[ip].lv = Len(open) /\ OldPhase(g, label)
    BY <1>1, ReplayPhase, Zenon
  <1>3. node[ph[ip]].seq_begin = LeftBegin(node, ph[ip])
    BY <1>2, <0>MarksAfterShallow, Zenon DEF LeftIds
  <1>4. node'[g.phase].seq_begin = LeftBegin(node', g.phase)
    BY <0>BeginEffect, Zenon DEF Effect
  <1>5. LeftBegin(node', g.phase) = LeftBegin(node, g.phase)
    <2>1. node[p].left \in 0 .. p - 1 /\ p \in 1 .. Len(node) /\ Len(node) \in Nat
          /\ DOMAIN node = 1 .. Len(node)
      BY InvFacts, Zenon DEF IsTree
    <2>2. node'[p].left = node[p].left
      BY Zenon DEF BeginStep, Grown
    <2>3. node[p].left # NULL => node[p].left \in DOMAIN node /\ node[p].left # p
      BY <2>1, SMTT(30) DEF NULL
    <2>4. node[p].left # NULL => node'[node[p].left].seq_begin = node[node[p].left].seq_begin
      BY <2>3, <0>BeginEffect, Zenon DEF Effect
    <2> QED
      BY <2>2, <2>4, Zenon DEF LeftBegin
  <1> QED
    BY <1>2, <1>3, <1>4, <1>5, Zenon

\* Without loops a Begin keeps the first ids tied to those of the left siblings.
<0>BeginLeftIds.
  ASSUME PhaseInv, PathInv, SingleWords, NEW ph, Calling(ph), Prev(ph), NEW g, NEW label,
         BeginStep(g, label), NEW q, Extended(ph, q, g), Loops = {}, LeftIds(node, prog, ph)
  PROVE  LeftIds(node', prog', q)
  <1> USE <0>BeginLeftIds
  <1>1. /\ prog'[ip].lv = Len(open) /\ q[ip] = g.phase /\ Begins(prog') = Begins(prog) \cup {ip}
        /\ \A i \in Begins(prog) : i \in 1 .. Len(prog) /\ prog'[i] = prog[i] /\ q[i] = ph[i]
        /\ \/ ip <= Len(prog) /\ prog' = prog
           \/ ip = Len(prog) + 1 /\ Len(prog') = Len(prog) + 1
    <2>1. Made(ph, q, g, label)
      BY <0>BeginCall, Zenon
    <2> QED
      BY <2>1, Zenon DEF Made
  <1>2. \A p \in DOMAIN node : node'[p].seq_begin = node[p].seq_begin /\ node'[p].left = node[p].left
    BY <0>SameBegins, Zenon DEF BeginStep, Grown
  <1>3. \A p \in DOMAIN node : LeftBegin(node', p) = LeftBegin(node, p)
    <2> TAKE p \in DOMAIN node
    <2>1. node[p].left \in 0 .. p - 1 /\ p \in 1 .. Len(node) /\ Len(node) \in Nat
          /\ DOMAIN node = 1 .. Len(node)
      BY InvFacts, Zenon DEF IsTree
    <2>2. node[p].left # NULL => node[p].left \in DOMAIN node
      BY <2>1, SMTT(30) DEF NULL
    <2> QED
      BY <1>2, <2>2, Zenon DEF LeftBegin
  <1>4. Len(prog) \in Nat /\ ip \in Nat
    BY InvFacts, Zenon
  <1> SUFFICES ASSUME NEW i \in Begins(prog'),
                      \A b \in Begins(prog') : LastBegin(prog', b, i) => prog'[b].lv <= prog'[i].lv
               PROVE  node'[q[i]].seq_begin = LeftBegin(node', q[i])
    BY Zenon DEF LeftIds
  <1>5. \A b \in Begins(prog) : i <= ip /\ LastBegin(prog, b, i) => LastBegin(prog', b, i)
    <2> SUFFICES ASSUME NEW b \in Begins(prog), i <= ip, LastBegin(prog, b, i)
                 PROVE  LastBegin(prog', b, i)
      BY Zenon
    <2>1. \A k \in b + 1 .. i - 1 : k # ip
      BY <1>1, <1>4
    <2> QED
      BY <1>1, <2>1, Zenon DEF LastBegin
  <1>6. CASE i \in Begins(prog)
    <2>1. ph[i] \in DOMAIN node /\ q[i] = ph[i]
      BY <1>1, <1>6, Zenon DEF Calling, Program
    <2>2. \A b \in Begins(prog) : LastBegin(prog, b, i) => prog[b].lv <= prog[i].lv
      <3>1. CASE prog' = prog
        BY <3>1, Zenon
      <3>2. CASE ip = Len(prog) + 1
        <4>1. i <= ip
          BY <1>1, <1>4, <1>6, <3>2
        <4> QED
          BY <1>1, <1>5, <1>6, <4>1, Zenon
      <3> QED
        BY <1>1, <3>1, <3>2, Zenon
    <2>3. node[ph[i]].seq_begin = LeftBegin(node, ph[i])
      BY <1>6, <2>2, Zenon DEF LeftIds
    <2> QED
      BY <1>2, <1>3, <2>1, <2>3, Zenon
  <1>7. CASE i = ip /\ ip = Len(prog) + 1
    <2>1. \A b \in Begins(prog) : LastBegin(prog, b, ip) => prog[b].lv <= Len(open)
      BY <1>1, <1>4, <1>5, <1>7
    <2>2. Marks(g)
      BY <1>7, <2>1, <0>ShallowMarks, Zenon
    <2> QED
      BY <1>1, <1>7, <2>2, <0>BeginEffect, Zenon DEF Effect
  <1>8. CASE i = ip /\ ip <= Len(prog)
    BY <1>6, <1>8, ReplayPhase, Zenon
  <1> QED
    BY <1>1, <1>6, <1>7, <1>8, Zenon

\* If a level loops, then the phases that a rollback undoes are of the last level.
<0>DeepIsLast.
  ASSUME PhaseInv, Orderly, Loops # {}, NEW g, NEW label, BeginStep(g, label), Len(open) \in DeepLevels
  PROVE  Len(open) \notin Loops /\ Len(open) # 0 /\ (Marks(g) \/ prev_phase = g.phase)
  <1> USE <0>DeepIsLast
  <1>1. Len(open) = MaxLevel /\ Len(open) \notin Loops /\ MaxLevel \in Nat
    BY OrderlyFacts, Zenon DEF PhaseInv
  <1>2. Len(open) # 0
    <2>1. PICK t \in Targets : t < Len(open)
      BY Zenon DEF DeepLevels
    <2>2. t \in 0 .. MaxLevel
      BY AppFacts, Zenon DEF PhaseInv
    <2> QED
      BY <1>1, <2>1, <2>2
  <1>3. prev_phase # HEALTHY => ~(node[prev_phase].level > Len(open))
    <2>1. prev_phase # HEALTHY => node[prev_phase] \in Phases
      BY InvFacts DEF PhaseInv, PointOK
    <2>2. prev_phase # HEALTHY => node[prev_phase].level \in 0 .. MaxLevel
      BY <2>1, PhaseFields, Zenon
    <2> QED
      BY <1>1, <2>2
  <1> QED
    BY <1>1, <1>2, <1>3, Zenon DEF Marks

\* With loops a Begin keeps the first ids of the levels that a rollback undoes at zero.
<0>BeginZeroIds.
  ASSUME PhaseInv, PathInv, SingleWords, Orderly, NEW g, NEW label, BeginStep(g, label),
         Loops # {}, ZeroIds(node, DeepLevels)
  PROVE  ZeroIds(node', DeepLevels)
  <1> USE <0>BeginZeroIds
  <1>1. /\ Effect(g) /\ PathTree(node') /\ IsTree(node') /\ node'[g.phase].level = Len(open)
        /\ \A p \in DOMAIN node : node'[p].level = node[p].level
    BY <0>BeginEffect, BegunPhase, Zenon DEF BeginStep, Grown
  <1>2. \A p \in DOMAIN node : p # g.phase /\ node'[p].level \in DeepLevels => node'[p].seq_begin = 0
    BY <1>1, Zenon DEF Effect, ZeroIds
  <1>3. ASSUME Len(open) \in DeepLevels
        PROVE  node'[g.phase].seq_begin = 0
    <2>1. CASE Marks(g)
      <3> DEFINE p == g.phase
                 left == node'[p].left
      <3>1. p \in DOMAIN node' /\ node'[p].seq_begin = LeftBegin(node', p)
        BY <1>1, <2>1, Zenon DEF Effect
      <3>2. left \in 0 .. p - 1 /\ p \in 1 .. Len(node') /\ Len(node') \in Nat /\ DOMAIN node' = 1 .. Len(node')
        BY <1>1, <3>1, SMTT(30) DEF IsTree
      <3>3. CASE left = NULL
        BY <3>1, <3>3, Zenon DEF LeftBegin
      <3>4. CASE left # NULL
        <4>1. left \in DOMAIN node' /\ left # p
          BY <3>2, <3>4 DEF NULL
        <4>2. left \in DOMAIN node
          BY <1>1, <4>1, Zenon DEF Effect
        <4>3. node'[p].parent # NULL /\ node'[left].parent = node'[p].parent
          BY <1>1, <3>1, <3>4, Zenon DEF PathTree
        <4>4. node'[left].level = node'[p].level
          <5>1. node'[p].level = node'[node'[p].parent].level + 1
            BY <1>1, <3>1, <4>3, Zenon DEF PathTree
          <5>2. node'[left].level = node'[node'[left].parent].level + 1
            BY <1>1, <4>1, <4>3, Zenon DEF PathTree
          <5> QED
            BY <4>3, <5>1, <5>2, Zenon
        <4>5. node'[left].seq_begin = 0
          BY <1>1, <1>2, <1>3, <4>1, <4>2, <4>4, Zenon
        <4> QED
          BY <3>1, <3>4, <4>5, Zenon DEF LeftBegin
      <3> QED
        BY <3>3, <3>4, Zenon
    <2>2. CASE ~Marks(g)
      <3>1. prev_phase = g.phase
        BY <1>3, <2>2, <0>DeepIsLast, Zenon
      <3>2. g.phase \in DOMAIN node
        BY <1>1, <3>1, Zenon DEF Effect, PhaseInv, PointOK
      <3>3. node'[g.phase].seq_begin = node[g.phase].seq_begin
        BY <1>1, <2>2, <3>2, Zenon DEF Effect
      <3>4. node[g.phase].level = Len(open)
        BY <1>1, <3>2, Zenon
      <3> QED
        BY <1>3, <3>2, <3>3, <3>4, Zenon DEF ZeroIds
    <2> QED
      BY <2>1, <2>2, Zenon
  <1>4. \A p \in DOMAIN node' : p \in DOMAIN node \/ p = g.phase
    BY <1>1, Zenon DEF Effect
  <1> QED
    BY <1>1, <1>2, <1>3, <1>4, Zenon DEF ZeroIds

\* A Begin leaves the phases of the levels that a rollback undoes at their first id while their CDs last.
<0>BeginFirstIds.
  ASSUME PhaseInv, PathInv, SingleWords, Orderly, NEW ph, Calling(ph), Prev(ph), NEW g, NEW label,
         BeginStep(g, label), NEW q, Extended(ph, q, g), FirstIds(node, prog, ph, DeepLevels)
  PROVE  FirstIds(node', prog', q, DeepLevels)
  <1> USE <0>BeginFirstIds
  <1>1. /\ prog'[ip].lv = Len(open) /\ q[ip] = g.phase /\ Begins(prog') = Begins(prog) \cup {ip}
        /\ \A i \in Begins(prog) : i \in 1 .. Len(prog) /\ prog'[i] = prog[i] /\ q[i] = ph[i]
        /\ \/ ip <= Len(prog) /\ prog' = prog
           \/ ip = Len(prog) + 1 /\ Len(prog') = Len(prog) + 1
    <2>1. Made(ph, q, g, label)
      BY <0>BeginCall, Zenon
    <2> QED
      BY <2>1, Zenon DEF Made
  <1>2. Len(prog) \in Nat /\ ip \in Nat /\ Len(open) \in Nat
    BY InvFacts, Zenon
  <1> SUFFICES ASSUME NEW j \in Begins(prog'), prog'[j].lv \in DeepLevels, Inside(prog', j, Len(prog'))
               PROVE  node'[q[j]].seq_end = node'[q[j]].seq_begin
    BY Zenon DEF FirstIds
  <1>3. CASE j \in Begins(prog)
    <2>1. ph[j] \in DOMAIN node /\ q[j] = ph[j] /\ prog[j].lv \in DeepLevels
      BY <1>1, <1>3, Zenon DEF Calling, Program
    <2>2. Inside(prog, j, Len(prog))
      <3>1. Inside(prog', j, Len(prog))
        <4>1. \A k \in j + 1 .. Len(prog) : k \in j + 1 .. Len(prog')
          BY <1>1, <1>2, <1>3, SMTT(30)
        <4> QED
          BY <4>1, Zenon DEF Inside
      <3>2. j \in 1 .. Len(prog) /\ Called([op |-> "begin", lv |-> Len(open), label |-> label])
        BY <1>1, <1>3, Zenon DEF BeginStep
      <3> QED
        BY <1>2, <3>1, <3>2, CallInside
    <2>3. node[ph[j]].seq_end = node[ph[j]].seq_begin
      BY <1>3, <2>1, <2>2, Zenon DEF FirstIds
    <2> QED
      BY <2>1, <2>3, <0>BeginEffect, ZenonT(30) DEF Effect
  <1>4. CASE j = ip /\ ip = Len(prog) + 1
    <2>1. q[j] = g.phase /\ Len(open) \in DeepLevels
      BY <1>1, <1>4, Zenon
    <2>2. CASE Marks(g) \/ g.phase \notin DOMAIN node
      BY <2>1, <2>2, <0>BeginEffect, Zenon DEF Effect
    <2>3. CASE ~Marks(g) /\ g.phase \in DOMAIN node
      <3>1. Loops # {}
        BY <1>4, <2>3, <0>NewCallNewPhase, Zenon
      <3>2. Len(open) \notin Loops /\ Len(open) # 0 /\ prev_phase = g.phase
        BY <2>1, <2>3, <3>1, <0>DeepIsLast, Zenon
      <3>3. prev_phase # HEALTHY /\ ip \notin Begins(prog)
        <4>1. g.phase # HEALTHY
          BY <0>BeginEffect, Zenon DEF Effect
        <4> QED
          BY <1>2, <1>4, <3>2, <4>1 DEF Begins
      <3>4. PICK b \in Begins(prog) : LastBegin(prog, b, ip) /\ prev_phase = ph[b]
        BY <3>3, Zenon DEF Prev, PrevIsLast
      <3>5. prog[b].lv = Len(open)
        <4>1. node[ph[b]].level = prog[b].lv
          BY Zenon DEF Calling, Program
        <4>2. node'[g.phase].level = Len(open) /\ node'[g.phase].level = node[g.phase].level
          BY <2>3, BegunPhase, Zenon DEF BeginStep, Grown
        <4> QED
          BY <3>2, <3>4, <4>1, <4>2, Zenon
      <3>6. Top.at \in Begins(prog) /\ Top.at \in 1 .. ip - 1 /\ prog[Top.at].lv = Len(open) - 1
        BY <3>2, TopFacts, Zenon DEF Calling
      <3>7. b \in Top.at + 1 .. ip - 1
        <4>1. b \in 1 .. Len(prog) /\ b < ip
          BY <1>1, <3>4, Zenon DEF LastBegin
        <4>2. b # Top.at
          BY <1>2, <3>5, <3>6, SMTT(30)
        <4>3. ~(b < Top.at)
          <5>1. b < Top.at => Top.at \in b + 1 .. ip - 1
            BY <1>2, <3>6, <4>1
          <5> QED
            BY <3>4, <3>6, <5>1, Zenon DEF LastBegin
        <4> QED
          BY <1>2, <3>6, <4>1, <4>2, <4>3
      <3>8. label \in Begun(Len(open))
        BY <3>2, <3>4, <3>5, <3>7, <0>SameLabel, Zenon
      <3> QED
        BY <3>2, <3>8, Zenon DEF BeginStep
    <2> QED
      BY <2>2, <2>3, Zenon
  <1>5. CASE j = ip /\ ip <= Len(prog)
    BY <1>3, <1>5, ReplayPhase, Zenon
  <1> QED
    BY <1>1, <1>3, <1>4, <1>5, Zenon

\* After a Begin prev_phase is the phase just begun.
<0>BeginPrev.
  ASSUME PhaseInv, PathInv, SingleWords, NEW ph, NEW g, NEW label,
         BeginStep(g, label), NEW q, Extended(ph, q, g), NEW failed
  PROVE  /\ PrevOnPath(node', open', prev_phase')
         /\ PrevIsLast(node', prog', q, prev_phase', ip', failed)
  <1> USE <0>BeginPrev
  <1>1. /\ prev_phase' = g.phase /\ ip' = ip + 1 /\ g.phase \in DOMAIN node'
        /\ open' = Append(open, [phase |-> g.phase, at |-> ip])
    BY Zenon DEF BeginStep
  <1>2. /\ open \in Seq([phase : Nat, at : Nat]) /\ Len(open) \in Nat /\ ip \in Nat
        /\ node'[g.phase].level = Len(open)
    BY InvFacts, BegunPhase, Zenon
  <1>3. q[ip] = g.phase /\ ip \in Begins(prog')
    <2>1. Made(ph, q, g, label)
      BY <0>BeginCall, Zenon
    <2> QED
      BY <2>1, Zenon DEF Made
  <1>4. DOMAIN open' = 1 .. Len(open) + 1 /\ open'[Len(open) + 1].phase = g.phase
    BY <1>1, <1>2
  <1>5. \A l \in DOMAIN open' : l = Len(open) + 1 \/ l <= Len(open)
    BY <1>2, <1>4
  <1>6. PrevOnPath(node', open', prev_phase')
    BY <1>1, <1>2, <1>4, <1>5, Zenon DEF PrevOnPath
  <1>7. LastBegin(prog', ip, ip')
    <2>1. ip < ip' /\ \A k \in ip + 1 .. ip' - 1 : FALSE
      BY <1>1, <1>2
    <2> QED
      BY <1>3, <2>1, Zenon DEF LastBegin
  <1>8. PrevIsLast(node', prog', q, prev_phase', ip', failed)
    BY <1>1, <1>3, <1>7, Zenon DEF PrevIsLast
  <1> QED
    BY <1>6, <1>8, Zenon

\* The paths of the phases do not change.
<0>GrownUnder.
  ASSUME NEW n, NEW m, Grown(n, m), NEW a \in DOMAIN n, NEW p \in DOMAIN n
  PROVE  Under(m, a, p) <=> Under(n, a, p)
  <1> USE <0>GrownUnder
  <1>1. m[a].path = n[a].path /\ m[p].path = n[p].path
    BY Zenon DEF Grown
  <1> QED
    BY <1>1, Zenon DEF Under

\* A Begin outside of recoveries.
<0>BeginHealthy.
  ASSUME PhaseInv, PathInv, NEW g, NEW label, BeginStep(g, label), Healthy(node, prog, ip)
  PROVE  Healthy(node', prog', ip')
  <1> USE <0>BeginHealthy
  <1>1. ip = Len(prog) + 1 /\ Len(prog) \in Nat /\ ip' = ip + 1
    BY InvFacts, Zenon DEF Healthy, BeginStep
  <1>2. Len(prog') = Len(prog) + 1
    <2>1. Called([op |-> "begin", lv |-> Len(open), label |-> label])
      BY Zenon DEF BeginStep
    <2> QED
      BY <1>1, <2>1 DEF Called
  <1>3. kExecution # kReexecution
    BY Zenon DEF kExecution, kReexecution
  <1>4. current # NULL => node[current].state = kExecution
    BY CurrentFacts, Zenon DEF Healthy
  <1>5. \A p \in DOMAIN node' : node'[p].state = kExecution
    BY <1>3, <1>4, <0>BeginEffect, ZenonT(30) DEF Effect, Healthy
  <1> QED
    BY <1>1, <1>2, <1>5, Zenon DEF Healthy

\* What the marks of a recovery are when a Begin is made again.
<0>BeginMarkedBelow.
  ASSUME PhaseInv, PathInv, SingleWords, NEW g, NEW label, BeginStep(g, label), g.phase \in DOMAIN node,
         NEW top \in DOMAIN node, NEW fp \in DOMAIN node, MarkedBelow(node, top, fp)
  PROVE  MarkedBelow(node', top, fp)
  <1> USE <0>BeginMarkedBelow
  <1>1. /\ Effect(g) /\ Grown(node, node') /\ IsTree(node') /\ PathTree(node')
        /\ node'[g.phase].parent = current
    BY <0>BeginEffect, BegunPhase, Zenon DEF BeginStep
  <1>2. DOMAIN node' = DOMAIN node
    BY <1>1, Zenon DEF Effect
  <1>3. ASSUME NEW p \in DOMAIN node', node'[p].state = kReexecution
        PROVE  Under(node', top, p)
    <2>1. CASE node[p].state = kReexecution
      BY <1>1, <1>2, <2>1, <0>GrownUnder, Zenon DEF MarkedBelow
    <2>2. CASE p = g.phase /\ current # NULL /\ node[current].state = kReexecution
      <3>1. current \in DOMAIN node
        BY <2>2, CurrentFacts, Zenon
      <3>2. Under(node', top, current)
        BY <1>1, <2>2, <3>1, <0>GrownUnder, Zenon DEF MarkedBelow
      <3>3. Under(node', current, p)
        BY <1>1, <1>2, <2>2, UnderParent, Zenon
      <3> QED
        BY <1>1, <1>2, <3>1, <3>2, <3>3, UnderOrder, ZenonT(30)
    <2> QED
      BY <1>1, <1>2, <1>3, <2>1, <2>2, Zenon DEF Effect
  <1>4. ASSUME NEW p \in DOMAIN node', Under(node', top, p), Under(node', p, fp)
        PROVE  node'[p].state = kReexecution
    <2>1. node[p].state = kReexecution
      BY <1>1, <1>2, <1>4, <0>GrownUnder, Zenon DEF MarkedBelow
    <2> QED
      BY <1>1, <1>2, <2>1, Zenon DEF Effect
  <1> QED
    BY <1>3, <1>4, Zenon DEF MarkedBelow

\* The phase that failed is at the id that failed when its CD is begun again.
<0>BeginAtFailedID.
  ASSUME PhaseInv, PathInv, SingleWords, Orderly, NEW ph, NEW rp, Calling(ph), Ids(ph), Prev(ph),
         IsFailed, Recovery(ph, rp), NEW g, NEW label, BeginStep(g, label)
  PROVE  AtFailedID(node', failed_phase, failed_seqID, DeepLevels)
  <1> USE <0>BeginAtFailedID
  <1>1. /\ AtFailedID(node, failed_phase, failed_seqID, DeepLevels)
        /\ Within(open, prog, failed_at, ip, rp, Targets)
        /\ Failure(prog, ph, failed_phase, failed_at, ip)
        /\ PrevAtTarget(node, prog, ph, prev_phase, ip, rp)
    BY Zenon DEF Recovery
  <1>2. failed_phase \in DOMAIN node /\ node'[failed_phase].level = node[failed_phase].level
    BY Zenon DEF PhaseInv, PointOK, BeginStep, Grown
  <1>3. CASE failed_phase # g.phase \/ ~Marks(g)
    BY <1>1, <1>2, <1>3, <0>BeginEffect, Zenon DEF Effect, AtFailedID
  <1>4. CASE failed_phase = g.phase /\ Marks(g)
    <2>1. /\ ip \in Begins(prog) /\ g.phase = ph[ip] /\ prog[ip].lv = Len(open)
          /\ g.phase \in DOMAIN node
      BY <1>1, ReplayPhase, Zenon DEF Failure
    <2>2. ip \in Nat /\ Len(prog) \in Nat /\ rp \in Nat /\ ip \in 1 .. Len(prog) - 1 /\ ip >= rp
          /\ rp \in Begins(prog) /\ prog \in Seq(Calls)
      <3>1. ip \in Nat /\ Len(prog) \in Nat /\ prog \in Seq(Calls)
        BY InvFacts, Zenon
      <3>2. Len(prog) \notin Begins(prog) /\ ip <= Len(prog)
        BY <1>1, Zenon DEF Failure
      <3>3. rp \in Begins(prog) /\ (ip = rp \/ ip > rp)
        BY <1>1, Zenon DEF Within
      <3>4. rp \in 1 .. Len(prog) /\ ip \in 1 .. Len(prog) /\ ip # Len(prog)
        BY <2>1, <3>2, <3>3, Zenon DEF Begins
      <3> QED
        BY <3>1, <3>3, <3>4
    <2>3. ip # rp
      <3> SUFFICES ASSUME ip = rp PROVE FALSE
        BY Zenon
      <3>1. prev_phase \in DOMAIN node /\ (prev_phase = g.phase \/ node[prev_phase].level > Len(open))
        BY <1>1, <2>1, Zenon DEF PrevAtTarget
      <3>2. prev_phase # HEALTHY
        BY <3>1, InvFacts, SMTT(30) DEF HEALTHY
      <3> QED
        BY <1>4, <3>1, <3>2, Zenon DEF Marks
    <2>4. prog[ip].lv > prog[rp].lv
      <3>1. ip \in rp + 1 .. Len(prog) - 1
        BY <2>2, <2>3
      <3> QED
        BY <1>1, <3>1, Zenon DEF Within, Inside
    <2>5. node[failed_phase].level = Len(open) /\ prog[failed_at].lv = Len(open)
      <3>1. failed_at \in Begins(prog) /\ failed_phase = ph[failed_at]
        BY <1>1, Zenon DEF Failure
      <3>2. \A i \in Begins(prog) : node[ph[i]].level = prog[i].lv
        BY Zenon DEF Calling, Program
      <3> QED
        BY <1>4, <2>1, <3>1, <3>2, Zenon
    <2>6. prog[rp].lv \in Targets
      <3>1. prog[rp].lv \in Nat
        BY <2>2, CallFields, Zenon DEF Begins
      <3>2. rp # failed_at
        BY <2>1, <2>4, <2>5, <3>1
      <3> QED
        BY <1>1, <3>2, Zenon DEF Within
    <2>7. Len(open) \in DeepLevels
      <3>1. Len(open) \in 0 .. MaxLevel /\ app \in Apps
        BY Zenon DEF BeginStep, PhaseInv
      <3>2. prog[rp].lv < Len(open)
        <4>1. prog[rp].lv \in Nat /\ Len(open) \in Nat
          BY <2>2, CallFields, InvFacts, Zenon DEF Begins
        <4> QED
          BY <2>1, <2>4, <4>1, Zenon
      <3> QED
        BY <2>6, <3>1, <3>2, OrderlyFacts, ZenonT(30)
    <2>8. node[g.phase].seq_begin = failed_seqID
      BY <1>1, <1>4, <2>5, <2>7, Zenon DEF AtFailedID
    <2>9. node'[g.phase].seq_begin = node[g.phase].seq_begin
      <3>1. CASE Loops = {}
        BY <2>1, <3>1, <0>SameBegins, Zenon DEF Ids
      <3>2. CASE Loops # {}
        <4>1. ZeroIds(node, DeepLevels) /\ ZeroIds(node', DeepLevels)
          BY <3>2, <0>BeginZeroIds, Zenon DEF Ids
        <4>2. g.phase \in DOMAIN node'
          BY Zenon DEF BeginStep
        <4> QED
          BY <1>2, <1>4, <2>1, <2>5, <2>7, <4>1, <4>2, ZenonT(30) DEF ZeroIds
      <3> QED
        BY <3>1, <3>2, Zenon
    <2>10. node'[g.phase].seq_end = node'[g.phase].seq_begin
      BY <1>4, <0>BeginEffect, Zenon DEF Effect
    <2> QED
      BY <1>4, <2>8, <2>9, <2>10, Zenon DEF AtFailedID
  <1> QED
    BY <1>3, <1>4, Zenon

\* A Begin in a re-execution stays on the way to the point of failure.
<0>BeginRecovery.
  ASSUME PhaseInv, PathInv, SingleWords, Orderly, NEW ph, NEW rp, Calling(ph), Ids(ph), Prev(ph),
         IsFailed, Recovery(ph, rp), NEW g, NEW label, BeginStep(g, label), NEW q, Extended(ph, q, g),
         app' = app
  PROVE  Recovery(q, rp)'
  <1> USE <0>BeginRecovery
  <1>1. /\ Within(open, prog, failed_at, ip, rp, Targets)
        /\ Failure(prog, ph, failed_phase, failed_at, ip)
        /\ MarkedBelow(node, ph[rp], failed_phase)
    BY Zenon DEF Recovery
  <1>2. ip <= Len(prog)
    BY <1>1, Zenon DEF Failure
  <1>3. /\ prog' = prog /\ ip \in Begins(prog) /\ prog[ip].lv = Len(open)
        /\ g.phase = ph[ip] /\ g.phase \in DOMAIN node
    BY <1>2, ReplayPhase, Zenon
  <1>4. /\ failed_phase' = failed_phase /\ failed_seqID' = failed_seqID /\ failed_at' = failed_at
        /\ ip' = ip + 1 /\ open' = Append(open, [phase |-> g.phase, at |-> ip])
    BY Zenon DEF BeginStep
  <1>5. /\ ip \in Nat /\ Len(prog) \in Nat /\ Len(open) \in Nat /\ open \in Seq([phase : Nat, at : Nat])
        /\ prog \in Seq(Calls)
    BY InvFacts, Zenon
  <1>6. \A i \in Begins(prog) : q[i] = ph[i]
    BY Zenon DEF Extended
  <1>7. Failure(prog', q, failed_phase', failed_at', ip')
    <2>1. failed_at \in Begins(prog) /\ Len(prog) \notin Begins(prog)
      BY <1>1, Zenon DEF Failure
    <2>2. ip' <= Len(prog)
      <3>1. ip # Len(prog)
        BY <1>3, <2>1, Zenon
      <3> QED
        BY <1>2, <1>4, <1>5, <3>1
    <2> QED
      BY <1>1, <1>3, <1>4, <1>6, <2>1, <2>2, ZenonT(30) DEF Failure
  <1>8. rp \in Begins(prog) /\ rp \in Nat /\ ip >= rp /\ prog[rp].lv \in Nat
    <2>1. rp \in Begins(prog) /\ (ip = rp \/ ip > rp)
      BY <1>1, Zenon DEF Within
    <2>2. rp \in 1 .. Len(prog)
      BY <2>1, Zenon DEF Begins
    <2> QED
      BY <1>5, <2>1, <2>2, CallFields
  <1>9. Within(open', prog', failed_at', ip', rp, Targets)
    <2>1. /\ Len(open') = Len(open) + 1 /\ open'[Len(open) + 1].at = ip
          /\ \A l \in 1 .. Len(open) : open'[l] = open[l]
      BY <1>4, <1>5, SMTT(30)
    <2>2. ip' > rp
      BY <1>4, <1>5, <1>8, SMTT(30)
    <2>3. Len(open') > prog[rp].lv /\ open'[prog[rp].lv + 1].at = rp
      <3>1. CASE ip = rp
        BY <1>3, <1>5, <2>1, <3>1
      <3>2. CASE ip # rp
        <4>1. Len(open) > prog[rp].lv /\ open[prog[rp].lv + 1].at = rp
          BY <1>1, <3>2, Zenon DEF Within
        <4>2. prog[rp].lv + 1 \in 1 .. Len(open) /\ Len(open') > prog[rp].lv
          <5>1. Len(open) \in Nat /\ prog[rp].lv \in Nat /\ Len(open') = Len(open) + 1
            BY <1>5, <1>8, <2>1, Zenon
          <5> QED
            BY <4>1, <5>1, SMTT(30)
        <4> QED
          BY <2>1, <4>1, <4>2, Zenon
      <3> QED
        BY <3>1, <3>2, Zenon
    <2> QED
      BY <1>1, <1>3, <1>4, <2>2, <2>3, ZenonT(30) DEF Within
  <1>10. ip' # rp
    BY <1>4, <1>5, <1>8
  <1>11. AtFailedID(node', failed_phase', failed_seqID', DeepLevels)
    BY <1>4, <0>BeginAtFailedID, Zenon
  <1>12. MarkedBelow(node', q[rp], failed_phase')
    <2>1. ph[rp] \in DOMAIN node /\ q[rp] = ph[rp] /\ failed_phase \in DOMAIN node
      BY <1>6, <1>8, Zenon DEF Calling, Program, PhaseInv, PointOK
    <2> QED
      BY <1>1, <1>3, <1>4, <2>1, <0>BeginMarkedBelow, ZenonT(30)
  <1>13. PrevAtTarget(node', prog', q, prev_phase', ip', rp)
    BY <1>10, Zenon DEF PrevAtTarget
  <1>14. Targets' = Targets /\ DeepLevels' = DeepLevels
    BY Zenon DEF Targets, DeepLevels, MaxLevel
  <1> QED
    BY <1>7, <1>9, <1>11, <1>12, <1>13, <1>14, ZenonT(30) DEF Recovery
<0> QED
  <1> SUFFICES ASSUME PhaseInv, PathInv, SingleWords, Orderly, NEW ph, NEW rp, History(ph, rp), NEW g,
                      NEW label, BeginStep(g, label), NEW q, Extended(ph, q, g), app' = app
               PROVE  History(q, rp)'
    BY Zenon
  <1>1. /\ assertion' = "none" /\ failed_phase' = failed_phase
    BY Zenon DEF BeginStep
  <1>2. Loops' = Loops /\ DeepLevels' = DeepLevels /\ IsFailed' = IsFailed /\ IsGood' = IsGood
    BY <1>1, Zenon DEF Targets, DeepLevels, MaxLevel, Loops, IsFailed, IsGood
  <1>3. Calling(ph) /\ Ids(ph) /\ Prev(ph)
    BY Zenon DEF History
  <1>4. Calling(q)'
    <2>1. Program(node', prog', q)
      BY <1>3, <0>BeginProgram, Zenon
    <2>2. OpenCalls(open', prog', q, ip')
      BY <1>3, <0>BeginOpenCalls, Zenon DEF Calling
    <2>3. Distinct(prog', Loops')
      BY <1>2, <1>3, <0>BeginDistinct, Zenon
    <2>4. Loops' = {} => Once(node', prog', q)
      BY <1>2, <1>3, <0>BeginOnce, Zenon
    <2> QED
      BY <2>1, <2>2, <2>3, <2>4, Zenon DEF Calling
  <1>5. Ids(q)'
    <2>1. Loops' = {} => LeftIds(node', prog', q)
      BY <1>2, <1>3, <0>BeginLeftIds, Zenon DEF Ids
    <2>2. Loops' # {} => ZeroIds(node', DeepLevels')
      BY <1>2, <1>3, <0>BeginZeroIds, Zenon DEF Ids
    <2>3. FirstIds(node', prog', q, DeepLevels')
      BY <1>2, <1>3, <0>BeginFirstIds, Zenon DEF Ids
    <2> QED
      BY <2>1, <2>2, <2>3, Zenon DEF Ids
  <1>6. Prev(q)'
    BY <0>BeginPrev, Zenon DEF Prev
  <1>7. IsGood' => Healthy(node', prog', ip')
    BY <1>2, <0>BeginHealthy, Zenon DEF History
  <1>8. IsFailed' => Recovery(q, rp)'
    BY <1>2, <1>3, <0>BeginRecovery, Zenon DEF History
  <1> QED
    BY <1>1, <1>4, <1>5, <1>6, <1>7, <1>8, Zenon DEF History

=============================================================================
