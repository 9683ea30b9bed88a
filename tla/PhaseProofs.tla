---------------------------- MODULE PhaseProofs ----------------------------
(***************************************************************************)
(* The phase tree of every application: its types, the sequential ids and  *)
(* the failure point, and, where no label contains the separator of the    *)
(* path, the phase of the current CD.                                      *)
(***************************************************************************)
EXTENDS PhaseTree, TLAPS

\* What a phase is.
Phases ==
  [level : 0 .. MaxLevel, parent : Nat, left : Nat, state : {kExecution, kReexecution},
   path : Seq(Words), seq_begin : Nat, seq_end : Nat]

\* A phase is created after its parent and its left sibling.
IsTree(n) ==
  /\ n \in Seq(Phases)
  /\ \A p \in DOMAIN n : n[p].parent \in 0 .. p - 1 /\ n[p].left \in 0 .. p - 1

\* The id a phase starts with is not above the next one, nor below that of its left sibling.
Ordered(n) ==
  \A p \in DOMAIN n :
    /\ n[p].seq_begin <= n[p].seq_end
    /\ n[p].left # NULL => n[n[p].left].seq_begin <= n[p].seq_begin

\* The phases of m are those of n, with other ids and in another state.
SamePhases(n, m) ==
  /\ DOMAIN m = DOMAIN n
  /\ \A p \in DOMAIN n : /\ m[p].level = n[p].level /\ m[p].parent = n[p].parent
                         /\ m[p].left = n[p].left /\ m[p].path = n[p].path

\* Where the ids of phase p start again.
LeftBegin(n, p) == IF n[p].left = NULL THEN 0 ELSE n[n[p].left].seq_begin

----------------------------------------------------------------------------
(* Facts about the operators of the model                                   *)

\* The fields of a phase.
LEMMA PhaseFields ==
  ASSUME NEW x \in Phases
  PROVE  /\ x.level \in 0 .. MaxLevel /\ x.parent \in Nat /\ x.left \in Nat
         /\ x.state \in {kExecution, kReexecution} /\ x.path \in Seq(Words)
         /\ x.seq_begin \in Nat /\ x.seq_end \in Nat
BY Zenon DEF Phases

\* One field of a phase changes.
LEMMA SetState ==
  ASSUME NEW x \in Phases, NEW s \in {kExecution, kReexecution}
  PROVE  /\ [x EXCEPT !.state = s] \in Phases
         /\ [x EXCEPT !.state = s].state = s
         /\ [x EXCEPT !.state = s].level = x.level
         /\ [x EXCEPT !.state = s].parent = x.parent
         /\ [x EXCEPT !.state = s].left = x.left
         /\ [x EXCEPT !.state = s].path = x.path
         /\ [x EXCEPT !.state = s].seq_begin = x.seq_begin
         /\ [x EXCEPT !.state = s].seq_end = x.seq_end
BY Zenon DEF Phases

\* MarkSeqID changes the ids of one phase, to those its left sibling starts with.
Marked(n, m, p) ==
  /\ IsTree(m) /\ SamePhases(n, m)
  /\ \A q \in DOMAIN n : m[q].state = n[q].state
  /\ \A q \in DOMAIN n \ {p} : m[q] = n[q]
  /\ m[p].seq_begin = LeftBegin(n, p) /\ m[p].seq_end = LeftBegin(n, p)

\* A non-empty set of numbers has a least one.  PhaseTheorems takes this from the library; here
\* it is a hypothesis of the lemmas that need it.
LeastNumber == \A S \in SUBSET Nat : S # {} => \E x \in S : \A y \in S : x <= y

\* Sequences are equal when their elements are.
LEMMA SameElements ==
  ASSUME NEW S, NEW s \in Seq(S), NEW t \in Seq(S),
         Len(s) = Len(t), \A i \in 1 .. Len(s) : s[i] = t[i]
  PROVE  s = t
  OBVIOUS

\* What Append returns.
LEMMA AppendIs ==
  ASSUME NEW S, NEW s \in Seq(S), NEW e \in S
  PROVE  /\ Append(s, e) \in Seq(S)
         /\ Len(Append(s, e)) = Len(s) + 1
         /\ \A i \in 1 .. Len(s) : Append(s, e)[i] = s[i]
         /\ Append(s, e)[Len(s) + 1] = e
  OBVIOUS

\* What a concatenation is.
LEMMA ConcatIs ==
  ASSUME NEW S, NEW s \in Seq(S), NEW t \in Seq(S)
  PROVE  /\ s \o t \in Seq(S)
         /\ Len(s \o t) = Len(s) + Len(t)
         /\ \A i \in 1 .. Len(s) + Len(t) : (s \o t)[i] = IF i <= Len(s) THEN s[i] ELSE t[i - Len(s)]
  OBVIOUS

\* Paths with a common beginning are equal when their ends are.
LEMMA ConcatCancels ==
  ASSUME NEW S, NEW s \in Seq(S), NEW t \in Seq(S), NEW u \in Seq(S), s \o t = s \o u
  PROVE  t = u
<1>1. Len(t) = Len(u)
  OBVIOUS
<1>2. \A i \in 1 .. Len(t) : (s \o t)[Len(s) + i] = t[i] /\ (s \o u)[Len(s) + i] = u[i]
  BY <1>1
<1> QED
  BY <1>1, <1>2, SameElements, Zenon

\* Induction over an interval, downwards: a set that holds its upper end and, with a number,
\* the one before it.
LEMMA DownwardInduction ==
  ASSUME LeastNumber, NEW r \in Int, NEW L \in Int, NEW T, L \in T, \A l \in r .. L - 1 : l + 1 \in T => l \in T
  PROVE  \A l \in r .. L : l \in T
<1> DEFINE Bad == {k \in 0 .. L - r : L - k \notin T}
<1>1. Bad = {}
  <2> SUFFICES ASSUME Bad # {} PROVE FALSE
    BY Zenon
  <2>0. Bad \in SUBSET Nat
    OBVIOUS
  <2> HIDE DEF Bad
  <2>1. PICK k \in Bad : \A j \in Bad : k <= j
    BY <2>0, Zenon DEF LeastNumber
  <2>2. k \in 0 .. L - r /\ L - k \notin T
    BY Zenon DEF Bad
  <2>3. k # 0
    BY <2>2
  <2>4. k - 1 \in 0 .. L - r /\ k - 1 \notin Bad
    BY <2>1, <2>2, <2>3
  <2>5. L - (k - 1) \in T
    BY <2>4, Zenon DEF Bad
  <2>6. L - (k - 1) = (L - k) + 1 /\ L - k \in r .. L - 1
    BY <2>2, <2>3
  <2> QED
    BY <2>2, <2>5, <2>6, Zenon
<1> TAKE l \in r .. L
<1>2. L - l \in 0 .. L - r /\ L - (L - l) = l
  OBVIOUS
<1>3. L - l \notin Bad
  BY <1>1, Zenon
<1>4. L - (L - l) \in T
  BY <1>2, <1>3, Zenon
<1> QED
  BY <1>2, <1>4, Zenon

\* Induction over the numbers of an interval: a set that holds a number if it holds the
\* smaller ones.
LEMMA UpwardInduction ==
  ASSUME LeastNumber, NEW N \in Nat, NEW T, \A p \in 1 .. N : (\A q \in 1 .. p - 1 : q \in T) => p \in T
  PROVE  \A p \in 1 .. N : p \in T
<1> DEFINE Bad == {p \in 1 .. N : p \notin T}
<1> SUFFICES ASSUME Bad # {} PROVE FALSE
  BY Zenon
<1>0. Bad \in SUBSET Nat
  OBVIOUS
<1> HIDE DEF Bad
<1>1. PICK p \in Bad : \A q \in Bad : p <= q
  BY <1>0, Zenon DEF LeastNumber
<1>2. p \in 1 .. N /\ p \notin T
  BY Zenon DEF Bad
<1>3. \A q \in 1 .. p - 1 : q \in 1 .. N /\ q \notin Bad
  BY <1>1, <1>2
<1>4. \A q \in 1 .. p - 1 : q \in T
  BY <1>3, Zenon DEF Bad
<1> QED
  BY <1>2, <1>4, Zenon

\* A function given at the upper end of an interval and, everywhere else, by its next value.
Downward(f, r, L, S, v, step) ==
  f \in [r .. L -> S] /\ f[L] = v /\ \A l \in r .. L - 1 : f[l] = step[f[l + 1]]

\* A recursive definition that goes down an interval defines a function: the climb of SetRollbackPoint.
LEMMA DownwardDefinition ==
  ASSUME LeastNumber, NEW r \in Int, NEW L \in Int, r <= L, NEW S, NEW v \in S, NEW step \in [S -> S]
  PROVE  \E f : Downward(f, r, L, S, v, step)
<1> DEFINE Is(f, k) == /\ f \in [L - k .. L -> S]
                       /\ f[L] = v /\ \A l \in L - k .. L - 1 : f[l] = step[f[l + 1]]
           Bad == {k \in Nat : ~(\E f : Is(f, k))}
<1>1. Bad = {}
  <2> SUFFICES ASSUME Bad # {} PROVE FALSE
    BY Zenon
  <2>0. Bad \in SUBSET Nat
    BY Zenon
  <2> HIDE DEF Bad
  <2>1. PICK k \in Bad : \A j \in Bad : k <= j
    BY <2>0, Zenon DEF LeastNumber
  <2>2. CASE k = 0
    <3> DEFINE f == [l \in L .. L |-> v]
    <3>1. Is(f, 0)
      OBVIOUS
    <3> QED
      BY <2>2, <3>1, Zenon DEF Bad
  <2>3. CASE k # 0
    <3>1. k - 1 \in Nat /\ k - 1 \notin Bad
      BY <2>0, <2>1, <2>3
    <3>2. PICK f : Is(f, k - 1)
      BY <3>1, Zenon DEF Bad
    <3> DEFINE g == [l \in L - k .. L |-> IF l = L - k THEN step[f[l + 1]] ELSE f[l]]
    <3>3. /\ L - (k - 1) = L - k + 1 /\ L - k + 1 <= L /\ L - k \in Int
          /\ L - k < L /\ k \in Nat
      BY <2>0, <3>1
    <3>4. f[L - k + 1] \in S /\ f \in [L - k + 1 .. L -> S]
      BY <3>2, <3>3
    <3>5. g \in [L - k .. L -> S]
      BY <3>3, <3>4
    <3>6. g[L] = v
      BY <3>2, <3>3
    <3>7. \A l \in L - k .. L - 1 : g[l] = step[g[l + 1]]
      <4> TAKE l \in L - k .. L - 1
      <4>1. CASE l = L - k
        BY <4>1, <3>3
      <4>2. CASE l # L - k
        <5>1. l \in L - k + 1 .. L - 1 /\ l + 1 # L - k /\ l + 1 \in L - k .. L /\ l \in L - k .. L
          BY <3>3, <4>2
        <5>2. f[l] = step[f[l + 1]]
          BY <3>2, <3>3, <5>1, Zenon
        <5> QED
          BY <5>1, <5>2, Zenon
      <4> QED
        BY <4>1, <4>2, Zenon
    <3>8. Is(g, k)
      BY <3>5, <3>6, <3>7, Zenon
    <3> QED
      BY <3>8, Zenon DEF Bad
  <2> QED
    BY <2>2, <2>3, Zenon
<1>2. L - r \in Nat /\ L - (L - r) = r
  OBVIOUS
<1>3. PICK f : Is(f, L - r)
  BY <1>1, <1>2, Zenon
<1> QED
  BY <1>2, <1>3, Zenon DEF Downward

\* A function of the nodes of a tree, given by the parent except where it is given directly.
FromParent(f, N, S, par, stop, base) ==
  /\ f \in [1 .. N -> S]
  /\ \A p \in 1 .. N : f[p] = IF p \in stop THEN base[p] ELSE f[par[p]]

\* A recursive definition that goes from each node to its parent defines a function.
LEMMA TreeDefinition ==
  ASSUME LeastNumber, NEW N \in Nat, NEW S, NEW par, NEW stop, NEW base \in [1 .. N -> S],
         \A p \in 1 .. N : p \in stop \/ par[p] \in 1 .. p - 1
  PROVE  \E f : FromParent(f, N, S, par, stop, base)
<1> DEFINE Is(f, k) == /\ f \in [1 .. k -> S]
                       /\ \A p \in 1 .. k : f[p] = IF p \in stop THEN base[p] ELSE f[par[p]]
           Bad == {k \in 0 .. N : ~(\E f : Is(f, k))}
<1>1. Bad = {}
  <2> SUFFICES ASSUME Bad # {} PROVE FALSE
    BY Zenon
  <2>0. Bad \in SUBSET Nat
    OBVIOUS
  <2> HIDE DEF Bad
  <2>1. PICK k \in Bad : \A j \in Bad : k <= j
    BY <2>0, Zenon DEF LeastNumber
  <2>2. CASE k = 0
    <3> DEFINE f == [p \in 1 .. 0 |-> base[p]]
    <3>1. Is(f, 0)
      OBVIOUS
    <3> QED
      BY <2>2, <3>1, Zenon DEF Bad
  <2>3. CASE k # 0
    <3>0. k \in 0 .. N
      BY Zenon DEF Bad
    <3>1. k - 1 \in 0 .. N /\ k - 1 \notin Bad /\ k \in 1 .. N
      BY <2>1, <2>3, <3>0
    <3>2. PICK f : Is(f, k - 1)
      BY <3>1, Zenon DEF Bad
    <3> DEFINE g == [p \in 1 .. k |-> IF p = k THEN (IF p \in stop THEN base[p] ELSE f[par[p]])
                                      ELSE f[p]]
    <3>3. f \in [1 .. k - 1 -> S]
      BY <3>2, Zenon
    <3>4. k \in stop \/ par[k] \in 1 .. k - 1
      BY <3>1, Zenon
    <3>5. g \in [1 .. k -> S]
      BY <3>1, <3>3, <3>4
    <3>6. \A p \in 1 .. k : g[p] = IF p \in stop THEN base[p] ELSE g[par[p]]
      <4> TAKE p \in 1 .. k
      <4>1. CASE p = k
        <5>1. p \notin stop => par[p] \in 1 .. k - 1 /\ par[p] # k /\ par[p] \in 1 .. k
          BY <3>1, <3>4, <4>1
        <5> QED
          BY <4>1, <5>1, Zenon
      <4>2. CASE p # k
        <5>1. p \in 1 .. k - 1 /\ p \in 1 .. N
          BY <3>1, <4>2
        <5>2. p \notin stop => par[p] \in 1 .. k /\ par[p] # k
          BY <3>1, <5>1
        <5>3. f[p] = IF p \in stop THEN base[p] ELSE f[par[p]]
          BY <3>2, <5>1, Zenon
        <5> QED
          BY <4>2, <5>2, <5>3, Zenon
      <4> QED
        BY <4>1, <4>2, Zenon
    <3>7. Is(g, k)
      BY <3>5, <3>6, Zenon
    <3> QED
      BY <3>1, <3>7, Zenon DEF Bad
  <2> QED
    BY <2>2, <2>3, Zenon
<1>2. N \in 0 .. N
  OBVIOUS
<1>3. PICK f : Is(f, N)
  BY <1>1, <1>2, Zenon
<1> QED
  BY <1>3, Zenon DEF FromParent

\* GetCDToRecover goes from the current phase to its parent, and so on.
Climbs(c, r) ==
  /\ c \in [r .. Level -> 0 .. Len(node)]
  /\ c[Level] = current
  /\ \A l \in r .. Level - 1 : c[l] = IF c[l + 1] = NULL THEN NULL ELSE node[c[l + 1]].parent

\* The climb to the rollback point starts at the current phase and goes parent by parent.
LEMMA ClimbedClimbs ==
  ASSUME LeastNumber, IsTree(node), Level \in Int, NEW r \in 0 .. Level, current \in 0 .. Len(node)
  PROVE  Climbs(Climbed(r), r)
<1> DEFINE S == 0 .. Len(node)
           step == [p \in S |-> IF p = NULL THEN NULL ELSE node[p].parent]
           Fix(f) == f = [l \in r .. Level |->
                            IF l = Level THEN current
                            ELSE IF f[l + 1] = NULL THEN NULL ELSE node[f[l + 1]].parent]
           at == CHOOSE f : Fix(f)
<1>1. step \in [S -> S]
  <2>1. \A p \in S : p # NULL => p \in DOMAIN node /\ p \in 1 .. Len(node)
    BY DEF IsTree, NULL
  <2>2. \A p \in DOMAIN node : node[p].parent \in 0 .. p - 1
    BY Zenon DEF IsTree
  <2>3. Len(node) \in Nat
    BY DEF IsTree
  <2>4. \A p \in S : p # NULL => node[p].parent \in S
    BY <2>1, <2>2, <2>3
  <2> QED
    BY <2>3, <2>4, Zenon DEF NULL
<1>2. PICK f : Downward(f, r, Level, S, current, step)
  <2>1. r \in Int /\ r <= Level
    OBVIOUS
  <2> HIDE DEF step, S
  <2>2. current \in S
    BY Zenon DEF S
  <2> QED
    BY <1>1, <2>1, <2>2, DownwardDefinition, Zenon
<1>3. \A l \in r .. Level - 1 : f[l] = IF f[l + 1] = NULL THEN NULL ELSE node[f[l + 1]].parent
  <2> TAKE l \in r .. Level - 1
  <2>1. l + 1 \in r .. Level
    OBVIOUS
  <2> QED
    BY <1>2, <2>1, Zenon DEF Downward
<1> HIDE DEF step
<1>4. Fix(f)
  BY <1>2, <1>3 DEF Downward
<1>5. Fix(at)
  BY <1>4, Zenon
<1> HIDE DEF at
<1>6. \A l \in r .. Level : at[l] = IF l = Level THEN current
                                    ELSE IF at[l + 1] = NULL THEN NULL ELSE node[at[l + 1]].parent
  BY <1>5, Zenon
<1>7. DOMAIN at = r .. Level /\ at = [l \in r .. Level |-> at[l]]
  BY <1>5, Zenon
<1>8. \A l \in r .. Level : at[l] \in S
  <2> DEFINE T == {l \in r .. Level : at[l] \in S}
  <2>1. r \in Int /\ Level \in r .. Level
    OBVIOUS
  <2>2. Level \in T
    BY <1>6, <2>1, Zenon
  <2>3. \A l \in r .. Level - 1 : l + 1 \in T => l \in T
    <3> SUFFICES ASSUME NEW l \in r .. Level - 1, l + 1 \in T PROVE l \in T
      BY Zenon
    <3>1. l \in r .. Level /\ l # Level /\ at[l + 1] \in S
      OBVIOUS
    <3>2. at[l] = step[at[l + 1]]
      BY <1>6, <3>1, Zenon DEF step
    <3>3. at[l] \in S
      BY <1>1, <3>1, <3>2, Zenon
    <3> QED
      BY <3>1, <3>3, Zenon
  <2> HIDE DEF T
  <2>4. \A l \in r .. Level : l \in T
    BY <2>1, <2>2, <2>3, DownwardInduction, Zenon
  <2> QED
    BY <2>4, Zenon DEF T
<1>9. Climbed(r) = at
  BY <1>7, Zenon DEF Climbed, at, Fix
<1> HIDE DEF Fix
<1>10. at \in [r .. Level -> S]
  BY <1>7, <1>8, Zenon
<1>11. /\ at[Level] = current
       /\ \A l \in r .. Level - 1 : at[l] = IF at[l + 1] = NULL THEN NULL ELSE node[at[l + 1]].parent
  BY <1>6
<1> QED
  BY <1>9, <1>10, <1>11, Zenon DEF Climbs

\* What the constructor of PhaseNode makes.
IsNew(x, lv, label, state) ==
  /\ x \in Phases /\ x.level = lv /\ x.parent = current /\ x.state = state
  /\ x.path = IF current = NULL THEN label ELSE node[current].path \o label
  /\ x.left \in 0 .. Len(node) /\ (x.left # NULL => node[x.left].parent = current /\ current # NULL)
  /\ x.seq_begin = IF x.left = NULL THEN 0 ELSE node[x.left].seq_end
  /\ x.seq_end = x.seq_begin

\* The phases of n are among those of m, and their ids have not grown.
Grown(n, m) ==
  /\ DOMAIN n \subseteq DOMAIN m
  /\ \A p \in DOMAIN n : /\ m[p].level = n[p].level /\ m[p].parent = n[p].parent
                         /\ m[p].left = n[p].left /\ m[p].path = n[p].path
                         /\ m[p].seq_begin <= n[p].seq_begin /\ m[p].seq_end <= n[p].seq_end

\* A phase that is appended to the tree.
LEMMA AppendNode ==
  ASSUME IsTree(node), Ordered(node), current \in 0 .. Len(node),
         NEW lv, NEW label, NEW state, NEW x, IsNew(x, lv, label, state)
  PROVE  LET m == Append(node, x)
         IN  /\ IsTree(m) /\ Ordered(m) /\ Grown(node, m)
             /\ Len(m) = Len(node) + 1 /\ m[Len(node) + 1] = x
             /\ \A q \in DOMAIN node : m[q] = node[q]
<1> DEFINE m == Append(node, x)
<1>1. Len(node) \in Nat /\ DOMAIN node = 1 .. Len(node) /\ node \in Seq(Phases) /\ x \in Phases
  BY DEF IsTree, IsNew
<1>2. /\ m \in Seq(Phases) /\ Len(m) = Len(node) + 1 /\ m[Len(node) + 1] = x
      /\ \A q \in 1 .. Len(node) : m[q] = node[q]
  BY <1>1, AppendIs
<1> HIDE DEF m
<1>3. DOMAIN m = 1 .. Len(node) + 1
  BY <1>2
<1>4. IsTree(m)
  <2> SUFFICES ASSUME NEW p \in DOMAIN m
               PROVE  m[p].parent \in 0 .. p - 1 /\ m[p].left \in 0 .. p - 1
    BY <1>2, Zenon DEF IsTree
  <2>1. CASE p \in 1 .. Len(node)
    BY <1>1, <1>2, <2>1, Zenon DEF IsTree
  <2>2. CASE p = Len(node) + 1
    BY <1>1, <1>2, <2>2 DEF IsNew
  <2> QED
    BY <1>1, <1>3, <2>1, <2>2
<1>5. Ordered(m)
  <2> SUFFICES ASSUME NEW p \in DOMAIN m
               PROVE  /\ m[p].seq_begin <= m[p].seq_end
                      /\ m[p].left # NULL => m[m[p].left].seq_begin <= m[p].seq_begin
    BY Zenon DEF Ordered
  <2>0. \A q \in 1 .. Len(node) : node[q].seq_begin \in Nat /\ node[q].seq_end \in Nat
    BY <1>1, PhaseFields
  <2>1. CASE p \in 1 .. Len(node)
    <3>1. node[p].left \in 0 .. p - 1
      BY <1>1, <2>1, Zenon DEF IsTree
    <3>2. node[p].left # NULL => node[p].left \in 1 .. Len(node)
      BY <1>1, <2>1, <3>1 DEF NULL
    <3> QED
      BY <1>1, <1>2, <2>1, <3>2, Zenon DEF Ordered
  <2>2. CASE p = Len(node) + 1
    <3>1. x.left \in 0 .. Len(node) /\ x.seq_begin \in Nat /\ x.seq_end = x.seq_begin
      BY PhaseFields, Zenon DEF IsNew
    <3>2. x.left # NULL => x.left \in 1 .. Len(node)
      BY <1>1, <3>1 DEF NULL
    <3>3. x.left # NULL => node[x.left].seq_begin <= node[x.left].seq_end
      BY <1>1, <3>2, Zenon DEF Ordered
    <3>4. x.left # NULL => m[x.left].seq_begin <= x.seq_begin
      BY <1>2, <3>2, <3>3, Zenon DEF IsNew
    <3> QED
      BY <1>2, <2>2, <3>1, <3>4
  <2> QED
    BY <1>1, <1>3, <2>1, <2>2
<1>6. Grown(node, m)
  <2>1. \A q \in 1 .. Len(node) : node[q].seq_begin \in Nat /\ node[q].seq_end \in Nat
    BY <1>1, PhaseFields
  <2> QED
    BY <1>1, <1>2, <1>3, <2>1 DEF Grown
<1> QED
  BY <1>1, <1>2, <1>4, <1>5, <1>6, Zenon DEF m

\* Only states differ.
Kept(n, m) ==
  /\ SamePhases(n, m)
  /\ \A p \in DOMAIN n : m[p].seq_begin = n[p].seq_begin /\ m[p].seq_end = n[p].seq_end

\* BeginPhase finds a phase.
OldPhase(g, label) ==
  /\ \/ current = NULL /\ node # <<>> /\ g.phase = 1
     \/ /\ current # NULL
        /\ GetPhasePath(label) \in DOMAIN phasePath /\ g.phase = phasePath[GetPhasePath(label)]
  /\ g.paths = phasePath /\ g.phase \in DOMAIN node
  /\ IsTree(g.nodes) /\ Kept(node, g.nodes)
  /\ \A q \in DOMAIN node :
       \/ g.nodes[q].state = node[q].state
       \/ /\ q = g.phase /\ g.nodes[q].state = kReexecution
          /\ current # NULL /\ node[current].state = kReexecution

\* BeginPhase makes a phase.
NewPhase(g, x, lv, label) ==
  /\ \/ /\ current = NULL /\ node = <<>>
        /\ g.paths = phasePath /\ IsNew(x, lv, label, kExecution)
     \/ /\ current # NULL /\ GetPhasePath(label) \notin DOMAIN phasePath
        /\ g.paths = [k \in DOMAIN phasePath \cup {GetPhasePath(label)} |->
                        IF k = GetPhasePath(label) THEN Len(node) + 1 ELSE phasePath[k]]
        /\ IsNew(x, lv, label, node[current].state)
  /\ g.phase = Len(node) + 1 /\ g.nodes = Append(node, x)

----------------------------------------------------------------------------
(* The inductive invariant                                                  *)

Calls == [op : {"begin", "complete"}, lv : Nat, label : Seq(Words)]

TreeOK ==
  /\ IsTree(node) /\ Ordered(node) /\ current \in 0 .. Len(node)
  /\ \A k \in DOMAIN phasePath : phasePath[k] \in DOMAIN node

\* The CDs on the path were begun one after the other, before the next call.
PathOK ==
  /\ open \in Seq([phase : Nat, at : Nat]) /\ Len(open) <= MaxLevel + 1
  /\ \A l \in DOMAIN open : open[l].phase \in DOMAIN node /\ open[l].at \in 1 .. ip - 1
  /\ \A l, m \in DOMAIN open : l < m => open[l].at < open[m].at

\* The failure point is a phase and an id.
PointOK ==
  /\ prev_phase \in {HEALTHY} \cup DOMAIN node
  /\ IsGood => failed_seqID = HEALTHY
  /\ IsFailed => failed_phase \in DOMAIN node /\ failed_seqID \in Nat

ProgOK ==
  /\ prog \in Seq(Calls) /\ Len(prog) <= MaxOps /\ ip \in 1 .. Len(prog) + 1
  /\ fails \in 0 .. MaxFails

PhaseInv == app \in Apps /\ TreeOK /\ PathOK /\ PointOK /\ ProgOK

\* The bounds of an application are numbers.
LEMMA AppFacts ==
  ASSUME app \in Apps
  PROVE  /\ MaxLevel \in Nat /\ MaxOps \in Nat /\ MaxFails \in Nat
         /\ Labels \cup {Root} \subseteq Seq(Words)
         /\ Loops \subseteq 0 .. MaxLevel /\ Targets \subseteq 0 .. MaxLevel /\ Midway \in BOOLEAN
<1>1. Application(app)
  BY PhaseAssumption, Zenon
<1>2. Root \in Seq(Words)
  <2>1. "Root" \in Words
    BY PhaseAssumption, Zenon
  <2>2. \A S : \A x \in S : <<x>> \in Seq(S)
    OBVIOUS
  <2> QED
    BY <2>1, <2>2, Zenon DEF Root
<1> QED
  BY <1>1, <1>2, Zenon DEF Application, MaxLevel, MaxOps, MaxFails, Labels, Loops, Targets, Midway

\* The application that runs stays the same.
LEMMA SameApp ==
  ASSUME app' = app
  PROVE  /\ MaxLevel' = MaxLevel /\ MaxOps' = MaxOps /\ MaxFails' = MaxFails /\ Labels' = Labels
         /\ Loops' = Loops /\ Targets' = Targets /\ Midway' = Midway /\ Phases' = Phases
BY Zenon DEF MaxLevel, MaxOps, MaxFails, Labels, Loops, Targets, Midway, Phases

\* Changing the states of some phases to kExecution keeps everything else.
LEMMA FinishKeeps ==
  ASSUME IsTree(node)
  PROVE  /\ IsTree(FinishRecovery) /\ Kept(node, FinishRecovery)
         /\ \A p \in DOMAIN node : FinishRecovery[p].state \in {kExecution, node[p].state}
<1> DEFINE top[p \in DOMAIN node] ==
             IF node[p].parent = NULL \/ node[node[p].parent].state # kReexecution THEN p
             ELSE top[node[p].parent]
           below[p \in DOMAIN node] ==
             p = top[current] \/ (node[p].parent # NULL /\ below[node[p].parent])
           m == FinishRecovery
<1>1. m = [p \in DOMAIN node |->
             IF below[p] THEN [node[p] EXCEPT !.state = kExecution] ELSE node[p]]
  BY Zenon DEF FinishRecovery
<1> HIDE DEF top, below, m
<1>2. node \in Seq(Phases) /\ DOMAIN node = 1 .. Len(node) /\ Len(node) \in Nat
  BY DEF IsTree
<1>3. ASSUME NEW p \in DOMAIN node
      PROVE  /\ m[p] \in Phases
             /\ m[p].level = node[p].level /\ m[p].parent = node[p].parent
             /\ m[p].left = node[p].left /\ m[p].path = node[p].path
             /\ m[p].seq_begin = node[p].seq_begin /\ m[p].seq_end = node[p].seq_end
             /\ m[p].state \in {kExecution, node[p].state}
  <2>1. node[p] \in Phases
    BY <1>2
  <2>2. m[p] = [node[p] EXCEPT !.state = kExecution] \/ m[p] = node[p]
    BY <1>1, Zenon
  <2>3. CASE m[p] = node[p]
    BY <2>1, <2>3, Zenon
  <2>4. CASE m[p] = [node[p] EXCEPT !.state = kExecution]
    <3> DEFINE x == node[p]
               y == [x EXCEPT !.state = kExecution]
    <3>1. x \in Phases /\ m[p] = y
      BY <2>1, <2>4, Zenon
    <3> HIDE DEF x
    <3>2. /\ y \in Phases /\ y.state = kExecution
          /\ y.level = x.level /\ y.parent = x.parent /\ y.left = x.left
          /\ y.path = x.path /\ y.seq_begin = x.seq_begin /\ y.seq_end = x.seq_end
      BY <3>1, SetState, Zenon
    <3> HIDE DEF y
    <3> QED
      BY <3>1, <3>2, Zenon DEF x
  <2> QED
    BY <2>2, <2>3, <2>4, Zenon
<1>4. m \in Seq(Phases) /\ DOMAIN m = DOMAIN node
  <2>1. DOMAIN m = 1 .. Len(node) /\ m = [p \in DOMAIN m |-> m[p]]
    BY <1>1, <1>2, Zenon
  <2>2. m \in [1 .. Len(node) -> Phases]
    BY <1>2, <1>3, <2>1, Zenon
  <2> QED
    BY <1>2, <2>1, <2>2
<1>5. IsTree(m)
  BY <1>3, <1>4, Zenon DEF IsTree
<1>6. Kept(node, m)
  BY <1>3, <1>4, Zenon DEF Kept, SamePhases
<1> QED
  BY <1>3, <1>5, <1>6, Zenon DEF m

\* What CompletePhase makes of the phases n.
Completed(n, m, p, good) ==
  /\ IsTree(m) /\ SamePhases(n, m)
  /\ \A q \in DOMAIN n : m[q].seq_begin = n[q].seq_begin
  /\ \A q \in DOMAIN n \ {p} : m[q].state = n[q].state /\ m[q].seq_end = n[q].seq_end
  /\ IF good THEN m[p].state = n[p].state /\ m[p].seq_end = n[p].seq_end + 1
     ELSE m[p].state = kReexecution /\ m[p].seq_end = n[p].seq_end

\* What GetCDToRecover makes of the phases n when it goes through those of c up to level r.
RolledBack(n, m, c, r) ==
  /\ IsTree(m) /\ SamePhases(n, m)
  /\ \A q \in DOMAIN n : m[q].seq_begin = n[q].seq_begin
  /\ \A q \in DOMAIN n :
       IF \E l \in DOMAIN c : c[l] = q
       THEN /\ m[q].state = kReexecution
            /\ \/ m[q].seq_end = n[q].seq_end
               \/ r < n[q].level /\ m[q].seq_end = n[q].seq_begin
       ELSE m[q].state = n[q].state /\ m[q].seq_end = n[q].seq_end

----------------------------------------------------------------------------
(* What the steps do                                                        *)

\* The program after a call.
Called(c) ==
  /\ prog' \in Seq(Calls) /\ Len(prog') <= MaxOps /\ ip \in 1 .. Len(prog')
  /\ prog'[ip] = c /\ \A i \in 1 .. Len(prog) : prog'[i] = prog[i]
  /\ \/ ip \in 1 .. Len(prog) /\ prog' = prog
     \/ ip = Len(prog) + 1 /\ prog' = Append(prog, c) /\ Len(prog') = Len(prog) + 1

\* A Begin that passes its assertion.
BeginStep(g, label) ==
  /\ Len(open) \in 0 .. MaxLevel /\ IF Len(open) = 0 THEN label = Root ELSE label \in Labels
  /\ label \in Seq(Words)
  /\ Called([op |-> "begin", lv |-> Len(open), label |-> label])
  /\ assertion = "none"
  /\ Len(open) \notin Loops => label \notin Begun(Len(open))
  /\ ~BeginFails(label)
  /\ OldPhase(g, label) \/ \E x : NewPhase(g, x, Len(open), label)
  /\ IsTree(g.nodes) /\ IsTree(node') /\ Ordered(node') /\ Grown(node, node')
  /\ IF prev_phase # g.phase /\ ~(prev_phase # HEALTHY /\ g.nodes[prev_phase].level > Len(open))
     THEN Marked(g.nodes, node', g.phase) ELSE node' = g.nodes
  /\ DOMAIN node' = DOMAIN g.nodes /\ g.phase \in DOMAIN node'
  /\ phasePath' = g.paths /\ \A k \in DOMAIN g.paths : g.paths[k] \in DOMAIN node'
  /\ current' = g.phase /\ prev_phase' = g.phase
  /\ open' = Append(open, [phase |-> g.phase, at |-> ip]) /\ ip' = ip + 1
  /\ UNCHANGED <<assertion, failed_phase, failed_seqID, fails, failed_at>>

\* A step that an assertion stops.
StopStep(c) ==
  /\ Called(c) \/ prog' = prog
  /\ assertion = "none" /\ assertion' # "none" /\ fails' \in 0 .. MaxFails
  /\ UNCHANGED <<node, phasePath, current, prev_phase, failed_phase, failed_seqID, open, ip,
                 failed_at>>

\* A Complete that passes its assertions: n are the phases once a recovery is over.
CompleteStep(n) ==
  /\ Len(open) > 0 /\ Called([op |-> "complete", lv |-> Level, label |-> <<>>])
  /\ assertion = "none" /\ current \in DOMAIN node
  /\ IF AtFailurePoint THEN n = FinishRecovery ELSE n = node
  /\ IsTree(n) /\ Kept(node, n)
  /\ Completed(n, node', current, IsGood \/ AtFailurePoint)
  /\ Ordered(node')
  /\ current' = node[current].parent
  /\ failed_phase' = (IF AtFailurePoint THEN HEALTHY ELSE failed_phase)
  /\ failed_seqID' = (IF AtFailurePoint THEN HEALTHY ELSE failed_seqID)
  /\ open' = SubSeq(open, 1, Level) /\ ip' = ip + 1
  /\ UNCHANGED <<assertion, phasePath, prev_phase, fails, failed_at>>

\* A rollback to level r that passes its assertions, through the phases c.
RollbackStep(r, c) ==
  /\ Len(open) > 0 /\ r \in 0 .. Level /\ (r # Level => r \in Targets)
  /\ \/ Called([op |-> "complete", lv |-> Level, label |-> <<>>])
     \/ Midway /\ prog' = prog
  /\ assertion = "none"
  /\ Climbs(c, r) /\ \A l \in r .. Level : c[l] \in DOMAIN node
  /\ RolledBack(node, node', c, r) /\ Ordered(node')
  /\ current' = node[c[r]].parent
  /\ IF IsGood
     THEN /\ failed_phase' = Top.phase /\ failed_seqID' = node[current].seq_end
          /\ failed_at' = Top.at
     ELSE UNCHANGED <<failed_phase, failed_seqID, failed_at>>
  /\ open' = SubSeq(open, 1, r) /\ ip' = open[r + 1].at /\ fails' \in 0 .. MaxFails
  /\ UNCHANGED <<assertion, phasePath, prev_phase>>

\* The sizes of the program and of the path.
LEMMA InvFacts ==
  ASSUME PhaseInv
  PROVE  /\ MaxLevel \in Nat /\ MaxOps \in Nat /\ MaxFails \in Nat
         /\ node \in Seq(Phases) /\ Len(node) \in Nat /\ DOMAIN node = 1 .. Len(node)
         /\ IsTree(node) /\ Ordered(node)
         /\ open \in Seq([phase : Nat, at : Nat]) /\ Len(open) \in Nat /\ DOMAIN open = 1 .. Len(open)
         /\ Level = Len(open) - 1 /\ Level \in Int
         /\ prog \in Seq(Calls) /\ Len(prog) \in Nat /\ ip \in 1 .. Len(prog) + 1 /\ ip \in Nat
<1>1. MaxLevel \in Nat /\ MaxOps \in Nat /\ MaxFails \in Nat
  BY AppFacts, Zenon DEF PhaseInv
<1>2. IsTree(node) /\ Ordered(node) /\ node \in Seq(Phases)
  BY Zenon DEF PhaseInv, TreeOK, IsTree
<1>3. open \in Seq([phase : Nat, at : Nat])
  BY Zenon DEF PhaseInv, PathOK
<1>4. prog \in Seq(Calls) /\ ip \in 1 .. Len(prog) + 1
  BY Zenon DEF PhaseInv, ProgOK
<1>5. Len(open) \in Nat /\ DOMAIN open = 1 .. Len(open) /\ Len(prog) \in Nat /\ Len(node) \in Nat
      /\ DOMAIN node = 1 .. Len(node)
  BY <1>2, <1>3, <1>4
<1>6. Level = Len(open) - 1 /\ Level \in Int
  BY <1>5 DEF Level
<1> QED
  BY <1>1, <1>2, <1>3, <1>4, <1>5, <1>6

----------------------------------------------------------------------------
(* Types                                                                    *)

\* The path up to a level.
LEMMA ShorterPath ==
  ASSUME PhaseInv, NEW k \in 0 .. Len(open)
  PROVE  /\ SubSeq(open, 1, k) \in Seq([phase : Nat, at : Nat]) /\ Len(SubSeq(open, 1, k)) = k
         /\ \A l \in 1 .. k : SubSeq(open, 1, k)[l] = open[l]
<1> DEFINE P == [phase : Nat, at : Nat]
<1>1. open \in Seq(P) /\ Len(open) \in Nat
  BY InvFacts, Zenon
<1> HIDE DEF P
<1>2. SubSeq(open, 1, k) \in Seq(P)
  BY <1>1
<1>3. Len(SubSeq(open, 1, k)) = k /\ \A l \in 1 .. k : SubSeq(open, 1, k)[l] = open[l]
  BY <1>1
<1> QED
  BY <1>2, <1>3, Zenon DEF P

\* The parent of a phase is a phase or none.
LEMMA ParentIsPhase ==
  ASSUME NEW n, IsTree(n), NEW p \in DOMAIN n
  PROVE  n[p].parent \in 0 .. Len(n) /\ (n[p].parent # NULL => n[p].parent \in DOMAIN n)
<1>1. n[p].parent \in 0 .. p - 1 /\ p \in 1 .. Len(n) /\ Len(n) \in Nat /\ DOMAIN n = 1 .. Len(n)
  BY DEF IsTree
<1> QED
  BY <1>1 DEF NULL

\* The steps of a task.
LEMMA StepIs ==
  LeastNumber /\ PhaseInv /\ Next =>
    /\ app' = app
    /\ \/ \E g, label : BeginStep(g, label)
       \/ \E n : CompleteStep(n)
       \/ \E r, c : RollbackStep(r, c)
       \/ \E c \in Calls : StopStep(c)

\* Writing seq_end_ leaves the other members of a phase node alone.
<0>SetEnd.
  ASSUME NEW x \in Phases, NEW e \in Nat
  PROVE  /\ [x EXCEPT !.seq_end = e] \in Phases
         /\ [x EXCEPT !.seq_end = e].state = x.state
         /\ [x EXCEPT !.seq_end = e].level = x.level
         /\ [x EXCEPT !.seq_end = e].parent = x.parent
         /\ [x EXCEPT !.seq_end = e].left = x.left
         /\ [x EXCEPT !.seq_end = e].path = x.path
         /\ [x EXCEPT !.seq_end = e].seq_begin = x.seq_begin
         /\ [x EXCEPT !.seq_end = e].seq_end = e
  BY <0>SetEnd, Zenon DEF Phases

\* Writing seq_begin_ leaves the other members of a phase node alone.
<0>SetBegin.
  ASSUME NEW x \in Phases, NEW b \in Nat
  PROVE  /\ [x EXCEPT !.seq_begin = b] \in Phases
         /\ [x EXCEPT !.seq_begin = b].state = x.state
         /\ [x EXCEPT !.seq_begin = b].level = x.level
         /\ [x EXCEPT !.seq_begin = b].parent = x.parent
         /\ [x EXCEPT !.seq_begin = b].left = x.left
         /\ [x EXCEPT !.seq_begin = b].path = x.path
         /\ [x EXCEPT !.seq_begin = b].seq_begin = b
         /\ [x EXCEPT !.seq_begin = b].seq_end = x.seq_end
  BY <0>SetBegin, Zenon DEF Phases

\* MarkSeqID writes the ids of the one node, from its left sibling, and nothing else.
<0>MarkSeqIDMarks.
  ASSUME NEW n, IsTree(n), NEW p \in DOMAIN n
  PROVE  Marked(n, MarkSeqID(n, p), p)
  <1> USE <0>MarkSeqIDMarks
  <1> DEFINE b == LeftBegin(n, p)
             x == n[p]
             y == [x EXCEPT !.seq_begin = b]
             z == [y EXCEPT !.seq_end = b]
             m == MarkSeqID(n, p)
  <1>1. x \in Phases /\ n \in Seq(Phases) /\ n[p].left \in 0 .. p - 1 /\ p \in 1 .. Len(n)
    BY DEF IsTree
  <1>2. b \in Nat
    <2>1. n[p].left # NULL => n[p].left \in 1 .. Len(n)
      BY <1>1 DEF NULL
    <2>2. \A q \in 1 .. Len(n) : n[q].seq_begin \in Nat
      BY <1>1, PhaseFields
    <2> QED
      BY <2>1, <2>2, Zenon DEF LeftBegin
  <1>3. m = [n EXCEPT ![p] = z]
    BY <1>1, Zenon DEF MarkSeqID, LeftBegin
  <1> HIDE DEF b, x, m
  <1>4. y \in Phases /\ z \in Phases
    BY <1>1, <1>2, <0>SetBegin, <0>SetEnd, Zenon
  <1>5. /\ z.state = x.state /\ z.level = x.level /\ z.parent = x.parent /\ z.left = x.left
        /\ z.path = x.path /\ z.seq_begin = b /\ z.seq_end = b
    BY <1>1, <1>2, <1>4, <0>SetBegin, <0>SetEnd
  <1> HIDE DEF z
  <1>6. m \in Seq(Phases) /\ DOMAIN m = DOMAIN n /\ m[p] = z /\ \A q \in DOMAIN n \ {p} : m[q] = n[q]
    BY <1>1, <1>3, <1>4
  <1>7. SamePhases(n, m)
    BY <1>5, <1>6, Zenon DEF SamePhases, x
  <1>8. IsTree(m)
    BY <1>6, <1>7, Zenon DEF IsTree, SamePhases
  <1> QED
    BY <1>5, <1>6, <1>7, <1>8, Zenon DEF Marked, m, b, x

\* A non-empty set of numbers with an upper bound has a greatest one.
<0>HasGreatest.
  ASSUME LeastNumber, NEW n \in Nat, NEW S \in SUBSET (1 .. n), S # {}
  PROVE  \E x \in S : \A z \in S : x >= z
  <1> USE <0>HasGreatest
  <1> DEFINE T == {n - x : x \in S}
  <1>1. T \in SUBSET Nat /\ T # {}
    <2>1. \A x \in S : n - x \in Nat
      OBVIOUS
    <2>2. PICK x \in S : TRUE
      BY Zenon
    <2>3. n - x \in T
      BY <2>2, Zenon
    <2> QED
      BY <2>1, <2>3, Zenon
  <1>2. PICK y \in T : \A z \in T : y <= z
    BY <1>1, Zenon DEF LeastNumber
  <1>3. PICK x \in S : y = n - x
    BY Zenon
  <1>4. \A z \in S : x >= z
    <2> TAKE z \in S
    <2>1. n - z \in T /\ x \in Nat /\ z \in Nat
      OBVIOUS
    <2> QED
      BY <1>2, <1>3, <2>1
  <1> QED
    BY <1>4, Zenon

\* The node that Create makes: a child of the current phase, right of its last child.
<0>NewNodeIsNew.
  ASSUME LeastNumber, IsTree(node), current \in 0 .. Len(node), NEW lv \in 0 .. MaxLevel,
         NEW label \in Seq(Words), NEW state \in {kExecution, kReexecution}
  PROVE  IsNew(NewNode(lv, label, state), lv, label, state)
  <1> USE <0>NewNodeIsNew
  <1> DEFINE x == NewNode(lv, label, state)
             left == IF current = NULL \/ Children(current) = {} THEN NULL ELSE LastChild(current)
             seq == IF left = NULL THEN 0 ELSE node[left].seq_end
             path == IF current = NULL THEN label ELSE node[current].path \o label
  <1>1. x = [level |-> lv, parent |-> current, left |-> left, state |-> state, path |-> path,
             seq_begin |-> seq, seq_end |-> seq]
    BY Zenon DEF NewNode
  <1>2. Len(node) \in Nat /\ DOMAIN node = 1 .. Len(node) /\ \A q \in 1 .. Len(node) : node[q] \in Phases
    BY DEF IsTree
  <1>3. left \in 0 .. Len(node) /\ (left # NULL => node[left].parent = current /\ current # NULL)
    <2>1. CASE current = NULL \/ Children(current) = {}
      BY <1>2, <2>1 DEF NULL
    <2>2. CASE ~(current = NULL \/ Children(current) = {})
      <3>1. Children(current) \in SUBSET (1 .. Len(node))
        BY <1>2, Zenon DEF Children
      <3>2. LastChild(current) \in Children(current)
        <4>1. \E c \in Children(current) : \A d \in Children(current) : c >= d
          BY <1>2, <2>2, <3>1, <0>HasGreatest, Zenon
        <4> QED
          BY <4>1, Zenon DEF LastChild
      <3>3. left = LastChild(current)
        BY <2>2, Zenon
      <3>4. left \in Children(current)
        BY <3>2, <3>3, Zenon
      <3> HIDE DEF left
      <3>5. left \in 1 .. Len(node) /\ node[left].parent = current
        BY <1>2, <3>4, Zenon DEF Children
      <3>6. left \in 0 .. Len(node)
        BY <1>2, <3>5
      <3> QED
        BY <2>2, <3>5, <3>6, Zenon
    <2> QED
      BY <2>1, <2>2, Zenon
  <1> HIDE DEF left
  <1>4. seq \in Nat
    <2>1. left # NULL => left \in 1 .. Len(node)
      BY <1>2, <1>3 DEF NULL
    <2> QED
      BY <1>2, <2>1, PhaseFields, Zenon
  <1>5. path \in Seq(Words)
    <2>1. CASE current = NULL
      BY <2>1, Zenon
    <2>2. CASE current # NULL
      <3>1. current \in 1 .. Len(node)
        BY <1>2, <2>2 DEF NULL
      <3>2. node[current].path \in Seq(Words)
        BY <1>2, <3>1, PhaseFields, Zenon
      <3> QED
        BY <2>2, <3>2, ConcatIs, Zenon
    <2> QED
      BY <2>1, <2>2, Zenon
  <1>6. left \in Nat /\ current \in Nat
    BY <1>2, <1>3
  <1>7. /\ x.level = lv /\ x.parent = current /\ x.left = left /\ x.state = state /\ x.path = path
        /\ x.seq_begin = seq /\ x.seq_end = seq
    BY <1>1
  <1> HIDE DEF seq, path
  <1>8. x \in Phases
    BY <1>1, <1>4, <1>5, <1>6 DEF Phases
  <1> HIDE DEF x
  <1> QED
    BY <1>3, <1>7, <1>8, Zenon DEF IsNew, seq, path, x

\* BeginPhase does one or the other.
<0>BeginCases.
  ASSUME LeastNumber, IsTree(node), current \in 0 .. Len(node), NEW lv \in 0 .. MaxLevel,
         NEW label \in Seq(Words), \A k \in DOMAIN phasePath : phasePath[k] \in DOMAIN node
  PROVE  \/ OldPhase(BeginPhase(lv, label), label)
         \/ \E x : NewPhase(BeginPhase(lv, label), x, lv, label)
  <1> USE <0>BeginCases
  <1> DEFINE g == BeginPhase(lv, label)
             key == GetPhasePath(label)
  <1>1. Len(node) \in Nat /\ DOMAIN node = 1 .. Len(node) /\ node \in Seq(Phases)
    BY DEF IsTree
  <1>2. Kept(node, node)
    BY Zenon DEF Kept, SamePhases
  <1>3. CASE current = NULL /\ node # <<>>
    <2>1. g.phase = 1 /\ g.paths = phasePath /\ g.nodes = node
      BY <1>3, Zenon DEF BeginPhase
    <2>2. 1 \in DOMAIN node
      BY <1>1, <1>3
    <2> QED
      BY <1>2, <1>3, <2>1, <2>2, Zenon DEF OldPhase
  <1>4. CASE current = NULL /\ node = <<>>
    <2> DEFINE x == NewNode(lv, label, kExecution)
    <2>1. g.phase = 1 /\ g.paths = phasePath /\ g.nodes = <<x>>
      BY <1>4, Zenon DEF BeginPhase
    <2>2. IsNew(x, lv, label, kExecution)
      BY <0>NewNodeIsNew, Zenon
    <2> HIDE DEF x
    <2>3. Len(node) = 0 /\ Append(node, x) = <<x>>
      BY <1>4
    <2> QED
      BY <1>4, <2>1, <2>2, <2>3 DEF NewPhase
  <1>5. CASE current # NULL /\ key \notin DOMAIN phasePath
    <2> DEFINE x == NewNode(lv, label, node[current].state)
    <2>1. /\ g.phase = Len(node) + 1 /\ g.nodes = Append(node, x)
          /\ g.paths = [k \in DOMAIN phasePath \cup {key} |->
                          IF k = key THEN Len(node) + 1 ELSE phasePath[k]]
      BY <1>5, Zenon DEF BeginPhase, GetPhaseNode
    <2>2. current \in 1 .. Len(node)
      BY <1>1, <1>5 DEF NULL
    <2>3. node[current].state \in {kExecution, kReexecution}
      BY <1>1, <2>2, PhaseFields
    <2>4. IsNew(x, lv, label, node[current].state)
      BY <2>3, <0>NewNodeIsNew, Zenon
    <2> QED
      BY <1>5, <2>1, <2>4, Zenon DEF NewPhase
  <1>6. CASE current # NULL /\ key \in DOMAIN phasePath
    <2> DEFINE p == phasePath[key]
               s == [node[p] EXCEPT !.state = kReexecution]
    <2>1. /\ g.phase = p /\ g.paths = phasePath
          /\ g.nodes = IF node[current].state = kReexecution THEN [node EXCEPT ![p] = s] ELSE node
      BY <1>6, Zenon DEF BeginPhase, GetPhaseNode
    <2>2. p \in 1 .. Len(node) /\ node[p] \in Phases
      BY <1>1, <1>6
    <2> HIDE DEF p
    <2>3. /\ s \in Phases /\ s.state = kReexecution /\ s.level = node[p].level
          /\ s.parent = node[p].parent /\ s.left = node[p].left /\ s.path = node[p].path
          /\ s.seq_begin = node[p].seq_begin /\ s.seq_end = node[p].seq_end
      BY <2>2, SetState, Zenon
    <2> HIDE DEF s
    <2>4. CASE node[current].state = kReexecution
      <3>1. /\ g.nodes \in Seq(Phases) /\ DOMAIN g.nodes = DOMAIN node
            /\ g.nodes[p] = s /\ \A q \in DOMAIN node \ {p} : g.nodes[q] = node[q]
        BY <1>1, <2>1, <2>2, <2>3, <2>4
      <3>2. Kept(node, g.nodes)
        BY <2>3, <3>1, Zenon DEF Kept, SamePhases
      <3>3. IsTree(g.nodes)
        BY <3>1, <3>2, Zenon DEF IsTree, Kept, SamePhases
      <3> QED
        BY <1>1, <1>6, <2>1, <2>2, <2>3, <2>4, <3>1, <3>2, <3>3, Zenon DEF OldPhase, p
    <2>5. CASE node[current].state # kReexecution
      BY <1>1, <1>2, <1>6, <2>1, <2>2, <2>5, Zenon DEF OldPhase, p
    <2> QED
      BY <2>4, <2>5, Zenon
  <1> QED
    BY <1>3, <1>4, <1>5, <1>6, Zenon

\* Marking a phase keeps the ids in order and raises none.
<0>MarkKeepsOrder.
  ASSUME NEW n, IsTree(n), Ordered(n), NEW p \in DOMAIN n, NEW m, Marked(n, m, p)
  PROVE  Ordered(m) /\ Grown(n, m)
  <1> USE <0>MarkKeepsOrder
  <1>1. n \in Seq(Phases) /\ DOMAIN n = 1 .. Len(n) /\ Len(n) \in Nat
    BY DEF IsTree
  <1>2. \A q \in DOMAIN n : /\ n[q].seq_begin \in Nat /\ n[q].seq_end \in Nat
                            /\ n[q].left \in 0 .. q - 1
                            /\ (n[q].left # NULL => n[q].left \in DOMAIN n /\ n[q].left # q)
    <2> TAKE q \in DOMAIN n
    <2>1. n[q].seq_begin \in Nat /\ n[q].seq_end \in Nat /\ n[q].left \in 0 .. q - 1 /\ q \in 1 .. Len(n)
      BY <1>1, PhaseFields DEF IsTree
    <2> QED
      BY <1>1, <2>1 DEF NULL
  <1>3. LeftBegin(n, p) \in Nat /\ LeftBegin(n, p) <= n[p].seq_begin
    BY <1>2 DEF LeftBegin, Ordered
  <1>4. /\ \A q \in DOMAIN n \ {p} : m[q] = n[q]
        /\ m[p].seq_begin = LeftBegin(n, p) /\ m[p].seq_end = LeftBegin(n, p)
        /\ DOMAIN m = DOMAIN n /\ \A q \in DOMAIN n : m[q].left = n[q].left
    BY Zenon DEF Marked, SamePhases
  <1>5. \A q \in DOMAIN n : m[q].seq_begin <= n[q].seq_begin /\ m[q].seq_end <= n[q].seq_end
    <2> TAKE q \in DOMAIN n
    <2>1. CASE q = p
      BY <1>2, <1>3, <1>4, <2>1 DEF Ordered
    <2>2. CASE q # p
      BY <1>2, <1>4, <2>2
    <2> QED
      BY <2>1, <2>2, Zenon
  <1>6. Ordered(m)
    <2> SUFFICES ASSUME NEW q \in DOMAIN n
                 PROVE  /\ m[q].seq_begin <= m[q].seq_end
                        /\ n[q].left # NULL => m[n[q].left].seq_begin <= m[q].seq_begin
      BY <1>4, Zenon DEF Ordered
    <2>1. n[q].seq_begin <= n[q].seq_end
      BY Zenon DEF Ordered
    <2>2. m[q].seq_begin <= m[q].seq_end
      BY <1>3, <1>4, <2>1
    <2>3. ASSUME n[q].left # NULL
          PROVE  m[n[q].left].seq_begin <= m[q].seq_begin
      <3> DEFINE l == n[q].left
      <3>1. l \in DOMAIN n /\ l # q /\ n[l].seq_begin <= n[q].seq_begin
        BY <1>2, <2>3, Zenon DEF Ordered
      <3> HIDE DEF l
      <3>2. m[l].seq_begin <= n[l].seq_begin /\ m[l].seq_begin \in Nat /\ n[l].seq_begin \in Nat
        BY <1>2, <1>3, <1>4, <1>5, <3>1, Zenon
      <3>3. CASE q = p
        <4>1. m[q].seq_begin = n[l].seq_begin
          BY <1>4, <2>3, <3>3, Zenon DEF LeftBegin, l
        <4> QED
          BY <3>2, <4>1, Zenon DEF l
      <3>4. CASE q # p
        <4>1. m[q] = n[q] /\ n[q].seq_begin \in Nat
          BY <1>2, <1>4, <3>4, Zenon
        <4> QED
          BY <3>1, <3>2, <4>1 DEF l
      <3> QED
        BY <3>3, <3>4, Zenon
    <2> QED
      BY <2>2, <2>3, Zenon
  <1>7. Grown(n, m)
    BY <1>5, Zenon DEF Grown, Marked, SamePhases
  <1> QED
    BY <1>6, <1>7, Zenon

\* A Begin keeps the tree a tree and its ids in order.
<0>BeginKeepsTree.
  ASSUME IsTree(node), Ordered(node), current \in 0 .. Len(node), NEW lv \in 0 .. MaxLevel,
         NEW label \in Seq(Words), \A k \in DOMAIN phasePath : phasePath[k] \in DOMAIN node,
         NEW g, OldPhase(g, label) \/ \E x : NewPhase(g, x, lv, label)
  PROVE  LET m == MarkAtBegin(g.nodes, g.phase, lv)
         IN  /\ IsTree(g.nodes) /\ IsTree(m) /\ Ordered(m) /\ Grown(node, m) /\ g.phase \in DOMAIN m
             /\ DOMAIN m = DOMAIN g.nodes /\ (Marked(g.nodes, m, g.phase) \/ m = g.nodes)
             /\ \A k \in DOMAIN g.paths : g.paths[k] \in DOMAIN m
  <1> USE <0>BeginKeepsTree
  <1> DEFINE m == MarkAtBegin(g.nodes, g.phase, lv)
  <1>0. Len(node) \in Nat /\ DOMAIN node = 1 .. Len(node) /\ node \in Seq(Phases)
    BY DEF IsTree
  <1>1. /\ IsTree(g.nodes) /\ Ordered(g.nodes) /\ Grown(node, g.nodes) /\ g.phase \in DOMAIN g.nodes
        /\ \A k \in DOMAIN g.paths : g.paths[k] \in DOMAIN g.nodes
    <2>1. CASE OldPhase(g, label)
      <3>1. /\ IsTree(g.nodes) /\ Kept(node, g.nodes) /\ g.phase \in DOMAIN node /\ g.paths = phasePath
        BY <2>1, Zenon DEF OldPhase
      <3>2. DOMAIN g.nodes = DOMAIN node
            /\ \A p \in DOMAIN node :
                 /\ g.nodes[p].left = node[p].left
                 /\ g.nodes[p].seq_begin = node[p].seq_begin /\ g.nodes[p].seq_end = node[p].seq_end
        BY <3>1, Zenon DEF Kept, SamePhases
      <3>3. \A p \in DOMAIN node : /\ node[p].left # NULL => node[p].left \in DOMAIN node
                                   /\ node[p].seq_begin \in Nat /\ node[p].seq_end \in Nat
        <4> TAKE p \in DOMAIN node
        <4>1. node[p].left \in 0 .. p - 1 /\ p \in 1 .. Len(node)
          BY <1>0, Zenon DEF IsTree
        <4> QED
          BY <1>0, <4>1, PhaseFields DEF NULL
      <3>4. Ordered(g.nodes)
        BY <3>2, <3>3, ZenonT(30) DEF Ordered
      <3>5. Grown(node, g.nodes)
        BY <3>1, <3>2, <3>3 DEF Grown, Kept, SamePhases
      <3> QED
        BY <3>1, <3>2, <3>4, <3>5, Zenon
    <2>2. ASSUME NEW x, NewPhase(g, x, lv, label)
          PROVE  /\ IsTree(g.nodes) /\ Ordered(g.nodes) /\ Grown(node, g.nodes)
                 /\ g.phase \in DOMAIN g.nodes
                 /\ \A k \in DOMAIN g.paths : g.paths[k] \in DOMAIN g.nodes
      <3>1. g.nodes = Append(node, x) /\ g.phase = Len(node) + 1 /\ \E s : IsNew(x, lv, label, s)
        BY <2>2, Zenon DEF NewPhase
      <3>2. /\ IsTree(g.nodes) /\ Ordered(g.nodes) /\ Grown(node, g.nodes)
            /\ Len(g.nodes) = Len(node) + 1
        BY <3>1, AppendNode
      <3>3. DOMAIN g.nodes = 1 .. Len(node) + 1
        BY <3>2 DEF IsTree
      <3>4. \A k \in DOMAIN g.paths : g.paths[k] \in 1 .. Len(node) + 1
        BY <1>0, <2>2 DEF NewPhase
      <3> QED
        BY <1>0, <3>1, <3>2, <3>3, <3>4
    <2> QED
      BY <2>1, <2>2, Zenon
  <1>2. CASE m = g.nodes
    BY <1>1, <1>2, Zenon
  <1>3. CASE m = MarkSeqID(g.nodes, g.phase)
    <2>1. Marked(g.nodes, m, g.phase)
      BY <1>1, <1>3, <0>MarkSeqIDMarks, Zenon
    <2>2. Ordered(m) /\ Grown(g.nodes, m)
      BY <1>1, <2>1, <0>MarkKeepsOrder, Zenon
    <2>3. IsTree(m) /\ DOMAIN m = DOMAIN g.nodes
      BY <2>1, Zenon DEF Marked, SamePhases
    <2> HIDE DEF m
    <2>4. Grown(node, m)
      <3> SUFFICES ASSUME NEW p \in DOMAIN node
                   PROVE  /\ m[p].level = node[p].level /\ m[p].parent = node[p].parent
                          /\ m[p].left = node[p].left /\ m[p].path = node[p].path
                          /\ m[p].seq_begin <= node[p].seq_begin /\ m[p].seq_end <= node[p].seq_end
        BY <1>1, <2>3, Zenon DEF Grown
      <3>1. p \in DOMAIN g.nodes
        BY <1>1, Zenon DEF Grown
      <3>2. /\ node[p] \in Phases /\ g.nodes[p] \in Phases /\ m[p] \in Phases
        BY <1>0, <1>1, <2>3, <3>1 DEF IsTree
      <3>3. /\ m[p].seq_begin \in Nat /\ g.nodes[p].seq_begin \in Nat /\ node[p].seq_begin \in Nat
            /\ m[p].seq_end \in Nat /\ g.nodes[p].seq_end \in Nat /\ node[p].seq_end \in Nat
        BY <3>2, PhaseFields, Zenon
      <3>4. /\ m[p].seq_begin <= g.nodes[p].seq_begin /\ g.nodes[p].seq_begin <= node[p].seq_begin
            /\ m[p].seq_end <= g.nodes[p].seq_end /\ g.nodes[p].seq_end <= node[p].seq_end
        BY <1>1, <2>2, <3>1, Zenon DEF Grown
      <3>5. m[p].seq_begin <= node[p].seq_begin /\ m[p].seq_end <= node[p].seq_end
        <4>1. \A a, b, c \in Nat : a <= b /\ b <= c => a <= c
          OBVIOUS
        <4> QED
          BY <3>3, <3>4, <4>1, Zenon
      <3>6. /\ m[p].level = node[p].level /\ m[p].parent = node[p].parent
            /\ m[p].left = node[p].left /\ m[p].path = node[p].path
        BY <1>1, <2>2, <3>1, Zenon DEF Grown
      <3> QED
        BY <3>5, <3>6, Zenon
    <2> QED
      BY <1>1, <2>1, <2>2, <2>3, <2>4, Zenon DEF m
  <1> QED
    BY <1>2, <1>3, Zenon DEF MarkAtBegin

\* The application makes a call: it made it before, or makes it now.
<0>CallKeepsProg.
  ASSUME ProgOK, MaxOps \in Nat, NEW c \in Calls, Call(c)
  PROVE  /\ prog' \in Seq(Calls) /\ Len(prog') <= MaxOps /\ ip \in 1 .. Len(prog')
         /\ prog'[ip] = c /\ \A i \in 1 .. Len(prog) : prog'[i] = prog[i]
         /\ \/ ip \in 1 .. Len(prog) /\ prog' = prog
            \/ ip = Len(prog) + 1 /\ prog' = Append(prog, c) /\ Len(prog') = Len(prog) + 1
  <1> USE <0>CallKeepsProg
  <1>1. prog \in Seq(Calls) /\ Len(prog) \in Nat /\ ip \in 1 .. Len(prog) + 1 /\ Len(prog) <= MaxOps
    BY DEF ProgOK
  <1>2. CASE ip <= Len(prog)
    BY <1>1, <1>2 DEF Call
  <1>3. CASE ~(ip <= Len(prog))
    <2>1. ip = Len(prog) + 1 /\ prog' = Append(prog, c) /\ Len(prog) < MaxOps
      BY <1>1, <1>3 DEF Call
    <2>2. /\ prog' \in Seq(Calls) /\ Len(prog') = Len(prog) + 1 /\ prog'[Len(prog) + 1] = c
          /\ \A i \in 1 .. Len(prog) : prog'[i] = prog[i]
      BY <1>1, <2>1, AppendIs
    <2> QED
      BY <1>1, <2>1, <2>2
  <1> QED
    BY <1>2, <1>3, Zenon

\* CompletePhase counts the phase when it ran well and marks it for re-execution when it did not.
<0>CompletePhaseCompletes.
  ASSUME NEW n, IsTree(n), NEW p \in DOMAIN n, NEW good \in BOOLEAN
  PROVE  Completed(n, CompletePhase(n, p, good), p, good)
  <1> USE <0>CompletePhaseCompletes
  <1> DEFINE x == n[p]
             m == CompletePhase(n, p, good)
  <1>1. x \in Phases /\ n \in Seq(Phases) /\ p \in 1 .. Len(n)
    BY DEF IsTree
  <1>2. ASSUME NEW z \in Phases, m = [n EXCEPT ![p] = z], z.level = x.level, z.parent = x.parent,
               z.left = x.left, z.path = x.path
        PROVE  IsTree(m) /\ SamePhases(n, m) /\ m[p] = z /\ \A q \in DOMAIN n \ {p} : m[q] = n[q]
    <2> HIDE DEF m, x
    <2>1. m \in Seq(Phases) /\ DOMAIN m = DOMAIN n /\ m[p] = z /\ \A q \in DOMAIN n \ {p} : m[q] = n[q]
      BY <1>1, <1>2
    <2>2. SamePhases(n, m)
      BY <1>2, <2>1, Zenon DEF SamePhases, x
    <2>3. IsTree(m)
      BY <2>1, <2>2, Zenon DEF IsTree, SamePhases
    <2> QED
      BY <2>1, <2>2, <2>3, Zenon
  <1>3. CASE good
    <2> DEFINE z == [x EXCEPT !.seq_end = x.seq_end + 1]
    <2>1. m = [n EXCEPT ![p] = z]
      BY <1>1, <1>3, Zenon DEF CompletePhase
    <2>2. x.seq_end + 1 \in Nat
      BY <1>1, PhaseFields
    <2> HIDE DEF m, x
    <2>3. /\ z \in Phases /\ z.level = x.level /\ z.parent = x.parent /\ z.left = x.left
          /\ z.path = x.path /\ z.state = x.state /\ z.seq_begin = x.seq_begin
          /\ z.seq_end = x.seq_end + 1
      BY <1>1, <2>2, <0>SetEnd, ZenonT(30)
    <2> HIDE DEF z
    <2>4. IsTree(m) /\ SamePhases(n, m) /\ m[p] = z /\ \A q \in DOMAIN n \ {p} : m[q] = n[q]
      BY <1>2, <2>1, <2>3, Zenon
    <2> QED
      BY <1>3, <2>3, <2>4, Zenon DEF Completed, m, x
  <1>4. CASE ~good
    <2> DEFINE z == [x EXCEPT !.state = kReexecution]
    <2>1. m = [n EXCEPT ![p] = z]
      BY <1>1, <1>4, Zenon DEF CompletePhase
    <2> HIDE DEF m, x
    <2>3. /\ z \in Phases /\ z.level = x.level /\ z.parent = x.parent /\ z.left = x.left
          /\ z.path = x.path /\ z.state = kReexecution /\ z.seq_begin = x.seq_begin
          /\ z.seq_end = x.seq_end
      BY <1>1, SetState, Zenon
    <2> HIDE DEF z
    <2>4. IsTree(m) /\ SamePhases(n, m) /\ m[p] = z /\ \A q \in DOMAIN n \ {p} : m[q] = n[q]
      BY <1>2, <2>1, <2>3, Zenon
    <2> QED
      BY <1>4, <2>3, <2>4, Zenon DEF Completed, m, x
  <1> QED
    BY <1>3, <1>4, Zenon

\* Going up to the rollback point marks the climbed phases; it may reset the ids of those below it.
<0>RollbackMarks.
  ASSUME IsTree(node), NEW c, NEW r \in Nat, NEW lv, NEW m,
         \A l \in DOMAIN c : lv[l] \in Nat /\ r <= lv[l],
         m = [p \in DOMAIN node |->
                IF \E l \in DOMAIN c : c[l] = p
                THEN [ResetSeqID(node[p], lv[CHOOSE l \in DOMAIN c : c[l] = p])
                        EXCEPT !.state = kReexecution]
                ELSE node[p]]
  PROVE  RolledBack(node, m, c, r)
  <1> USE <0>RollbackMarks
  <1>1. node \in Seq(Phases) /\ DOMAIN node = 1 .. Len(node) /\ Len(node) \in Nat
    BY DEF IsTree
  <1> DEFINE E(p) == \/ m[p].seq_end = node[p].seq_end
                     \/ r < node[p].level /\ m[p].seq_end = node[p].seq_begin
             In(p) == \E l \in DOMAIN c : c[l] = p
             At(p) == lv[CHOOSE l \in DOMAIN c : c[l] = p]
  <1>2. ASSUME NEW p \in DOMAIN node
        PROVE  /\ m[p] \in Phases
               /\ m[p].level = node[p].level /\ m[p].parent = node[p].parent
               /\ m[p].left = node[p].left /\ m[p].path = node[p].path
               /\ m[p].seq_begin = node[p].seq_begin
               /\ IF In(p) THEN m[p].state = kReexecution /\ E(p)
                  ELSE m[p].state = node[p].state /\ m[p].seq_end = node[p].seq_end
    <2>1. node[p] \in Phases
      BY <1>1
    <2>2. m[p] = IF In(p) THEN [ResetSeqID(node[p], At(p)) EXCEPT !.state = kReexecution] ELSE node[p]
      BY Zenon
    <2>3. CASE In(p)
      <3> DEFINE x == node[p]
                 a == At(p)
                 z == ResetSeqID(x, a)
                 y == [z EXCEPT !.state = kReexecution]
      <3>1. x \in Phases /\ m[p] = y
        BY <2>1, <2>2, <2>3, Zenon
      <3>2. a \in Nat /\ r <= a
        BY <2>3, Zenon
      <3> HIDE DEF x, In, a, At
      <3>3. x.seq_begin \in Nat /\ x.seq_end \in Nat
        BY <3>1, PhaseFields, Zenon
      <3>4. x.level \in Nat
        BY <3>1, PhaseFields
      <3>5. /\ z \in Phases /\ z.state = x.state
            /\ z.level = x.level /\ z.parent = x.parent /\ z.left = x.left
            /\ z.path = x.path /\ z.seq_begin = x.seq_begin
            /\ \/ z.seq_end = x.seq_end
               \/ r < x.level /\ z.seq_end = x.seq_begin
        <4>1. CASE a < x.level
          <5>1. z = [x EXCEPT !.seq_end = x.seq_begin]
            BY <4>1, Zenon DEF ResetSeqID
          <5>2. r < x.level
            BY <3>2, <3>4, <4>1
          <5> QED
            BY <3>1, <3>3, <5>1, <5>2, <0>SetEnd
        <4>2. CASE ~(a < x.level)
          <5>1. z = x
            BY <4>2, Zenon DEF ResetSeqID
          <5> QED
            BY <3>1, <4>2, <5>1, Zenon
        <4> QED
          BY <4>1, <4>2, Zenon
      <3> HIDE DEF z
      <3>6. /\ y \in Phases /\ y.state = kReexecution
            /\ y.level = z.level /\ y.parent = z.parent /\ y.left = z.left
            /\ y.path = z.path /\ y.seq_begin = z.seq_begin /\ y.seq_end = z.seq_end
        BY <3>5, SetState, Zenon
      <3> HIDE DEF y
      <3> QED
        BY <2>3, <3>1, <3>5, <3>6, Zenon DEF x
    <2>4. CASE ~In(p)
      <3>1. m[p] = node[p]
        BY <2>2, <2>4, Zenon
      <3> HIDE DEF In, E
      <3> QED
        BY <2>1, <2>4, <3>1, Zenon
    <2> QED
      BY <2>3, <2>4, Zenon
  <1>3. m \in Seq(Phases) /\ DOMAIN m = DOMAIN node
    <2>1. DOMAIN m = 1 .. Len(node) /\ m = [p \in DOMAIN m |-> m[p]]
      BY <1>1, Zenon
    <2>2. m \in [1 .. Len(node) -> Phases]
      BY <1>1, <1>2, <2>1, Zenon
    <2> HIDE <0>RollbackMarks
    <2> QED
      BY <1>1, <2>1, <2>2
  <1> HIDE DEF In, E
  <1>4. IsTree(m)
    BY <1>2, <1>3, Zenon DEF IsTree
  <1>5. SamePhases(node, m)
    BY <1>2, <1>3, Zenon DEF SamePhases
  <1> QED
    BY <1>2, <1>4, <1>5, Zenon DEF RolledBack, In, E

\* Completing a phase and rolling back keep the ids in order.
<0>CompleteKeepsOrder.
  ASSUME NEW n, NEW m, IsTree(n), Ordered(n), SamePhases(n, m),
         \A q \in DOMAIN n : m[q].seq_begin = n[q].seq_begin,
         \A q \in DOMAIN n : m[q].seq_end \in {n[q].seq_end, n[q].seq_end + 1, n[q].seq_begin}
  PROVE  Ordered(m)
  <1> USE <0>CompleteKeepsOrder
  <1> SUFFICES ASSUME NEW q \in DOMAIN m
               PROVE  /\ m[q].seq_begin <= m[q].seq_end
                      /\ m[q].left # NULL => m[m[q].left].seq_begin <= m[q].seq_begin
    BY Zenon DEF Ordered
  <1>1. q \in DOMAIN n /\ n[q] \in Phases /\ n[q].left \in 0 .. q - 1 /\ q \in 1 .. Len(n) /\ Len(n) \in Nat
    BY DEF IsTree, SamePhases
  <1>2. n[q].seq_begin \in Nat /\ n[q].seq_end \in Nat /\ n[q].seq_begin <= n[q].seq_end
    BY <1>1, PhaseFields, Zenon DEF Ordered
  <1>3. m[q].seq_begin <= m[q].seq_end
    BY <1>1, <1>2
  <1>4. m[q].left # NULL => m[m[q].left].seq_begin <= m[q].seq_begin
    <2>1. n[q].left # NULL => n[q].left \in DOMAIN n
      BY <1>1 DEF NULL, IsTree
    <2>2. n[q].left # NULL => n[n[q].left].seq_begin <= n[q].seq_begin
      BY <1>1, Zenon DEF Ordered
    <2> QED
      BY <1>1, <2>1, <2>2, Zenon DEF SamePhases
  <1> QED
    BY <1>3, <1>4, Zenon

\* Begin.
<0>BeginIs.
  ASSUME LeastNumber, PhaseInv, NEW label \in Labels \cup {Root}, Begin(label)
  PROVE  \/ \E g : BeginStep(g, label)
         \/ \E c \in Calls : StopStep(c)
  <1> USE <0>BeginIs
  <1> DEFINE lv == Len(open)
             g == BeginPhase(lv, label)
             c == [op |-> "begin", lv |-> lv, label |-> label]
  <1>1. /\ lv \in 0 .. MaxLevel /\ label \in Seq(Words) /\ c \in Calls
        /\ IF lv = 0 THEN label = Root ELSE label \in Labels
    <2>1. lv <= MaxLevel /\ IF lv = 0 THEN label = Root ELSE label \in Labels
      BY Zenon DEF Begin
    <2>2. lv \in Nat /\ MaxLevel \in Nat
      BY InvFacts, Zenon
    <2>3. label \in Seq(Words)
      BY AppFacts, Zenon DEF PhaseInv
    <2>4. c \in Calls
      BY <2>2, <2>3, Zenon DEF Calls
    <2> QED
      BY <2>1, <2>2, <2>3, <2>4
  <1>2. Call(c) /\ assertion = "none" /\ (lv \notin Loops => label \notin Begun(lv))
    BY Zenon DEF Begin, Call
  <1>3. Called(c)
    BY <1>1, <1>2, InvFacts, <0>CallKeepsProg, Zenon DEF PhaseInv, Called
  <1> HIDE DEF g, c
  <1>4. CASE BeginFails(label)
    <2>1. /\ assertion' # "none"
          /\ UNCHANGED <<node, phasePath, current, prev_phase, open, ip>>
          /\ UNCHANGED <<failed_phase, failed_seqID, fails, failed_at>>
      BY <1>4, Zenon DEF Begin
    <2>2. fails' \in 0 .. MaxFails
      BY <2>1, Zenon DEF PhaseInv, ProgOK
    <2>3. StopStep(c)
      BY <1>2, <1>3, <2>1, <2>2, Zenon DEF StopStep
    <2> QED
      BY <1>1, <2>3, Zenon
  <1>5. CASE ~BeginFails(label)
    <2>1. /\ node' = MarkAtBegin(g.nodes, g.phase, lv) /\ phasePath' = g.paths
          /\ current' = g.phase /\ prev_phase' = g.phase
          /\ open' = Append(open, [phase |-> g.phase, at |-> ip]) /\ ip' = ip + 1
          /\ UNCHANGED <<assertion, failed_phase, failed_seqID, fails, failed_at>>
      BY <1>5, Zenon DEF Begin, g
    <2>2. /\ IsTree(node) /\ Ordered(node) /\ current \in 0 .. Len(node)
          /\ \A k \in DOMAIN phasePath : phasePath[k] \in DOMAIN node
      BY Zenon DEF PhaseInv, TreeOK
    <2>3. OldPhase(g, label) \/ \E x : NewPhase(g, x, lv, label)
      BY <1>1, <2>2, <0>BeginCases, Zenon DEF g
    <2>4. /\ IsTree(g.nodes) /\ IsTree(node') /\ Ordered(node') /\ Grown(node, node')
          /\ g.phase \in DOMAIN node'
          /\ DOMAIN node' = DOMAIN g.nodes
          /\ \A k \in DOMAIN g.paths : g.paths[k] \in DOMAIN node'
      BY <1>1, <2>1, <2>2, <2>3, <0>BeginKeepsTree, Zenon
    <2>5. IF prev_phase # g.phase /\ ~(prev_phase # HEALTHY /\ g.nodes[prev_phase].level > lv)
          THEN Marked(g.nodes, node', g.phase) ELSE node' = g.nodes
      BY <2>1, <2>4, <0>MarkSeqIDMarks, Zenon DEF MarkAtBegin
    <2>6. BeginStep(g, label)
      BY <1>1, <1>2, <1>3, <1>5, <2>1, <2>3, <2>4, <2>5, Zenon DEF BeginStep, c
    <2> QED
      BY <2>6, Zenon
  <1> QED
    BY <1>4, <1>5, Zenon

\* Complete.
<0>CompleteIs.
  ASSUME PhaseInv, Complete
  PROVE  \/ \E n : CompleteStep(n)
         \/ \E c \in Calls : StopStep(c)
  <1> USE <0>CompleteIs
  <1> DEFINE c == [op |-> "complete", lv |-> Level, label |-> <<>>]
  <1>1. Len(open) > 0 /\ Level \in Nat
    <2>1. open # <<>>
      BY Zenon DEF Complete
    <2>2. open \in Seq([phase : Nat, at : Nat]) /\ Level = Len(open) - 1
      BY InvFacts, Zenon
    <2>3. Len(open) \in Nat /\ Len(open) # 0
      BY <2>1, <2>2
    <2> QED
      BY <2>2, <2>3
  <1>2. c \in Calls
    BY <1>1 DEF Calls
  <1>3. Call(c) /\ assertion = "none" /\ assertion' = CompleteAssertion
    BY Zenon DEF Complete, Call
  <1>4. Called(c)
    BY <1>2, <1>3, InvFacts, <0>CallKeepsProg, Zenon DEF PhaseInv, Called
  <1> HIDE DEF c
  <1>5. UNCHANGED <<phasePath, prev_phase, fails, failed_at>>
    BY Zenon DEF Complete
  <1>6. CASE assertion' # "none"
    <2>1. UNCHANGED <<node, current, failed_phase, failed_seqID, open, ip>>
      BY <1>6, Zenon DEF Complete
    <2>2. fails' \in 0 .. MaxFails
      BY <1>5, Zenon DEF PhaseInv, ProgOK
    <2>3. StopStep(c)
      BY <1>3, <1>4, <1>5, <1>6, <2>1, <2>2, Zenon DEF StopStep
    <2> QED
      BY <1>2, <2>3, Zenon
  <1>7. CASE assertion' = "none"
    <2> DEFINE n == IF AtFailurePoint THEN FinishRecovery ELSE node
               good == IsGood \/ AtFailurePoint
    <2>1. /\ node' = CompletePhase(n, current, good)
          /\ current' = node[current].parent
          /\ failed_phase' = (IF AtFailurePoint THEN HEALTHY ELSE failed_phase)
          /\ failed_seqID' = (IF AtFailurePoint THEN HEALTHY ELSE failed_seqID)
          /\ open' = SubSeq(open, 1, Level) /\ ip' = ip + 1
      BY <1>7, Zenon DEF Complete
    <2>2. current \in DOMAIN node
      <3>1. current # NULL
        BY <1>3, <1>7, Zenon DEF CompleteAssertion
      <3>2. current \in 0 .. Len(node)
        BY Zenon DEF PhaseInv, TreeOK
      <3> QED
        BY <3>1, <3>2, InvFacts DEF NULL
    <2>3. IsTree(n) /\ Kept(node, n)
      <3>1. Kept(node, node)
        BY Zenon DEF Kept, SamePhases
      <3>2. IsTree(node)
        BY InvFacts, Zenon
      <3> QED
        BY <3>1, <3>2, FinishKeeps, Zenon
    <2>4. IF AtFailurePoint THEN n = FinishRecovery ELSE n = node
      BY Zenon
    <2>5. good \in BOOLEAN /\ good = (IsGood \/ AtFailurePoint)
      BY Zenon DEF IsGood, AtFailurePoint, IsFailed
    <2> HIDE DEF n, good
    <2>6. current \in DOMAIN n
      BY <2>2, <2>3, Zenon DEF Kept, SamePhases
    <2>7. Completed(n, node', current, good)
      BY <2>1, <2>3, <2>5, <2>6, <0>CompletePhaseCompletes, Zenon
    <2>8. Ordered(node')
      <3>1. IsTree(node) /\ Ordered(node)
        BY InvFacts, Zenon
      <3>2. SamePhases(node, node')
        BY <2>3, <2>7 DEF Completed, Kept, SamePhases
      <3>3. \A q \in DOMAIN node :
              /\ node'[q].seq_begin = node[q].seq_begin
              /\ node'[q].seq_end \in {node[q].seq_end, node[q].seq_end + 1, node[q].seq_begin}
        BY <2>3, <2>5, <2>7 DEF Completed, Kept, SamePhases
      <3> QED
        BY <3>1, <3>2, <3>3, <0>CompleteKeepsOrder, Zenon
    <2>9. CompleteStep(n)
      BY <1>1, <1>3, <1>4, <1>5, <1>7, <2>1, <2>2, <2>3, <2>4, <2>5, <2>7, <2>8, Zenon DEF CompleteStep, c
    <2> QED
      BY <2>9, Zenon
  <1> QED
    BY <1>6, <1>7, Zenon

\* Rollback.
<0>RollbackIs.
  ASSUME LeastNumber, PhaseInv, NEW r \in 0 .. MaxLevel, Rollback(r)
  PROVE  \/ \E c : RollbackStep(r, c)
         \/ \E k \in Calls : StopStep(k)
  <1> USE <0>RollbackIs
  <1> DEFINE k == [op |-> "complete", lv |-> Level, label |-> <<>>]
             c == Climbed(r)
  <1>1. Len(open) > 0 /\ Level \in Nat /\ r \in 0 .. Level /\ (r # Level => r \in Targets)
    BY InvFacts DEF Rollback
  <1>2. k \in Calls
    BY <1>1 DEF Calls
  <1>3. /\ Call(k) \/ (Midway /\ prog' = prog)
        /\ assertion = "none"
    <2>1. RollbackCall
      BY Zenon DEF Rollback
    <2>2. assertion = "none"
      BY <2>1, Zenon DEF RollbackCall, Call
    <2> QED
      BY <2>1, <2>2, Zenon DEF RollbackCall
  <1>4. Called(k) \/ (Midway /\ prog' = prog)
    BY <1>2, <1>3, InvFacts, <0>CallKeepsProg, Zenon DEF PhaseInv, Called
  <1>5. fails' \in 0 .. MaxFails /\ UNCHANGED <<phasePath, prev_phase>>
    <2>1. fails \in 0 .. MaxFails /\ MaxFails \in Nat
      BY InvFacts, Zenon DEF PhaseInv, ProgOK
    <2>2. fails < MaxFails /\ fails' = fails + 1 /\ UNCHANGED <<phasePath, prev_phase>>
      BY Zenon DEF Rollback
    <2> QED
      BY <2>1, <2>2
  <1>6. Climbs(c, r)
    BY <1>1, InvFacts, ClimbedClimbs, Zenon DEF PhaseInv, TreeOK
  <1>7. DOMAIN c = r .. Level
    BY <1>6, Zenon DEF Climbs
  <1> HIDE DEF k
  <1>8. CASE \E l \in DOMAIN c : c[l] = NULL
    <2>1. /\ assertion' = "phaseTree.current_"
          /\ UNCHANGED <<node, current, failed_phase, failed_seqID, open, ip, failed_at>>
      BY <1>8, Zenon DEF Rollback
    <2>2. StopStep(k)
      BY <1>3, <1>4, <1>5, <2>1, Zenon DEF StopStep
    <2> QED
      BY <1>2, <2>2, Zenon
  <1>9. CASE ~(\E l \in DOMAIN c : c[l] = NULL)
    <2> DEFINE Reset(lv) ==
                 [p \in DOMAIN node |->
                    IF \E l \in DOMAIN c : c[l] = p
                    THEN [ResetSeqID(node[p], lv[CHOOSE l \in DOMAIN c : c[l] = p])
                            EXCEPT !.state = kReexecution]
                    ELSE node[p]]
    <2>1. /\ SetFailure
          /\ \E lv \in RollbackLv(r) : node' = Reset(lv)
          /\ current' = node[c[r]].parent
          /\ open' = SubSeq(open, 1, r)
          /\ ip' = open[r + 1].at
          /\ UNCHANGED assertion
      BY <1>9, Zenon DEF Rollback
    <2> HIDE DEF c
    <2>2. \A l \in r .. Level : c[l] \in DOMAIN node
      <3>1. c \in [r .. Level -> 0 .. Len(node)] /\ \A l \in r .. Level : c[l] # NULL
        BY <1>6, <1>7, <1>9, Zenon DEF Climbs
      <3>2. Len(node) \in Nat /\ DOMAIN node = 1 .. Len(node)
        BY InvFacts, Zenon
      <3> QED
        BY <3>1, <3>2 DEF NULL
    <2>3. RolledBack(node, node', c, r)
      <3>1. IsTree(node)
        BY InvFacts, Zenon
      <3>2. r \in Nat
        OBVIOUS
      <3>3. PICK lv \in RollbackLv(r) : node' = Reset(lv)
        BY <2>1, Zenon
      <3>4. \A l \in DOMAIN c : lv[l] \in Nat /\ r <= lv[l]
        BY <1>1, <1>7, <3>3 DEF RollbackLv
      <3> QED
        BY <3>1, <3>2, <3>3, <3>4, <0>RollbackMarks, Zenon
    <2>4. Ordered(node')
      <3>1. IsTree(node) /\ Ordered(node)
        BY InvFacts, Zenon
      <3>2. SamePhases(node, node')
        BY <2>3, Zenon DEF RolledBack
      <3>3. \A q \in DOMAIN node :
              /\ node'[q].seq_begin = node[q].seq_begin
              /\ node'[q].seq_end \in {node[q].seq_end, node[q].seq_end + 1, node[q].seq_begin}
        BY <2>3, Zenon DEF RolledBack
      <3> QED
        BY <3>1, <3>2, <3>3, <0>CompleteKeepsOrder, Zenon
    <2>5. IF IsGood
          THEN /\ failed_phase' = Top.phase /\ failed_seqID' = node[current].seq_end
               /\ failed_at' = Top.at
          ELSE UNCHANGED <<failed_phase, failed_seqID, failed_at>>
      BY <2>1, Zenon DEF SetFailure
    <2>6. RollbackStep(r, c)
      BY <1>1, <1>3, <1>4, <1>5, <1>6, <2>1, <2>2, <2>3, <2>4, <2>5, Zenon DEF RollbackStep, k
    <2> QED
      BY <2>6, Zenon
  <1> QED
    BY <1>8, <1>9, Zenon
<0> QED
  <1> SUFFICES ASSUME LeastNumber, PhaseInv, Next
               PROVE  /\ app' = app
                      /\ \/ \E g, label : BeginStep(g, label)
                         \/ \E n : CompleteStep(n)
                         \/ \E r, c : RollbackStep(r, c)
                         \/ \E c \in Calls : StopStep(c)
    BY Zenon
  <1>1. app' = app
    BY Zenon DEF Next
  <1>2. CASE \E label \in Labels \cup {Root} : Begin(label)
    BY <1>1, <1>2, <0>BeginIs, Zenon
  <1>3. CASE Complete
    BY <1>1, <1>3, <0>CompleteIs, Zenon
  <1>4. CASE \E r \in 0 .. MaxLevel : Rollback(r)
    BY <1>1, <1>4, <0>RollbackIs, Zenon
  <1> QED
    BY <1>2, <1>3, <1>4, Zenon DEF Next

\* Every call of the application keeps the invariant of the phase tree.
LEMMA PhaseInvStep ==
  LeastNumber /\ PhaseInv /\ Next => PhaseInv'

\* A step that an assertion stops changes the program and nothing else.
<0>StopKeeps.
  ASSUME PhaseInv, app' = app, NEW c \in Calls, StopStep(c)
  PROVE  PhaseInv'
  <1> USE <0>StopKeeps
  <1>1. /\ MaxLevel' = MaxLevel /\ MaxOps' = MaxOps /\ MaxFails' = MaxFails /\ Phases' = Phases
    BY SameApp, Zenon
  <1>2. UNCHANGED <<node, phasePath, current, prev_phase, failed_phase, failed_seqID, open, ip>>
    BY Zenon DEF StopStep
  <1>3. TreeOK'
    <2>1. IsTree(node)' /\ Ordered(node)'
      BY <1>1, <1>2, InvFacts, Zenon DEF IsTree, Ordered, NULL
    <2> QED
      BY <1>2, <2>1, Zenon DEF PhaseInv, TreeOK
  <1>4. PathOK'
    BY <1>1, <1>2, Zenon DEF PhaseInv, PathOK
  <1>5. PointOK'
    BY <1>2, Zenon DEF PhaseInv, PointOK, IsGood, IsFailed
  <1>6. ProgOK'
    <2>1. Called(c) \/ prog' = prog
      BY Zenon DEF StopStep
    <2>2. /\ prog \in Seq(Calls) /\ Len(prog) <= MaxOps /\ ip \in 1 .. Len(prog) + 1
      BY Zenon DEF PhaseInv, ProgOK
    <2>3. prog' \in Seq(Calls) /\ Len(prog') <= MaxOps /\ ip \in 1 .. Len(prog') + 1
      BY <2>1, <2>2 DEF Called
    <2>4. Calls' = Calls
      BY Zenon DEF Calls
    <2>5. fails' \in 0 .. MaxFails
      BY Zenon DEF StopStep
    <2> QED
      BY <1>1, <1>2, <2>3, <2>4, <2>5, Zenon DEF ProgOK
  <1> QED
    BY <1>3, <1>4, <1>5, <1>6, Zenon DEF PhaseInv

\* A Begin, which finds or makes a phase below the current one, keeps the invariant.
<0>BeginKeeps.
  ASSUME PhaseInv, app' = app, NEW g, NEW label, BeginStep(g, label)
  PROVE  PhaseInv'
  <1> USE <0>BeginKeeps
  <1>1. /\ MaxLevel' = MaxLevel /\ MaxOps' = MaxOps /\ MaxFails' = MaxFails /\ Phases' = Phases
    BY SameApp, Zenon
  <1>2. /\ IsTree(node') /\ Ordered(node') /\ g.phase \in DOMAIN node' /\ DOMAIN node \subseteq DOMAIN node'
        /\ phasePath' = g.paths /\ \A k \in DOMAIN g.paths : g.paths[k] \in DOMAIN node'
        /\ current' = g.phase /\ prev_phase' = g.phase
        /\ open' = Append(open, [phase |-> g.phase, at |-> ip]) /\ ip' = ip + 1
        /\ UNCHANGED <<failed_phase, failed_seqID, fails>>
        /\ Len(open) \in 0 .. MaxLevel
    BY Zenon DEF BeginStep, Grown
  <1>3. Len(node') \in Nat /\ DOMAIN node' = 1 .. Len(node') /\ g.phase \in Nat
    BY <1>2 DEF IsTree
  <1>4. TreeOK'
    <2>1. IsTree(node)' /\ Ordered(node)'
      BY <1>1, <1>2, Zenon DEF IsTree, Ordered, NULL
    <2> QED
      BY <1>2, <1>3, <2>1 DEF TreeOK
  <1>5. PathOK'
    <2> DEFINE P == [phase : Nat, at : Nat]
               e == [phase |-> g.phase, at |-> ip]
    <2>1. /\ open \in Seq(P) /\ Len(open) \in Nat /\ DOMAIN open = 1 .. Len(open) /\ ip \in Nat
          /\ MaxLevel \in Nat /\ ip >= 1
      BY InvFacts
    <2>2. e \in P /\ e.phase = g.phase /\ e.at = ip
      BY <1>3, <2>1, Zenon
    <2> HIDE DEF P, e
    <2>3. open' = Append(open, e)
      BY <1>2, Zenon DEF e
    <2>4. /\ open' \in Seq(P) /\ Len(open') = Len(open) + 1 /\ open'[Len(open) + 1] = e
          /\ \A l \in 1 .. Len(open) : open'[l] = open[l]
      BY <2>1, <2>2, <2>3, AppendIs
    <2>5. DOMAIN open' = 1 .. Len(open) + 1
      BY <2>1, <2>4
    <2>6. /\ \A l \in DOMAIN open : open[l].phase \in DOMAIN node /\ open[l].at \in 1 .. ip - 1
          /\ \A l, m \in DOMAIN open : l < m => open[l].at < open[m].at
      BY Zenon DEF PhaseInv, PathOK
    <2>7. \A l \in DOMAIN open' : open'[l].phase \in DOMAIN node' /\ open'[l].at \in 1 .. ip' - 1
      <3> SUFFICES ASSUME NEW l \in 1 .. Len(open) + 1
                   PROVE  open'[l].phase \in DOMAIN node' /\ open'[l].at \in 1 .. ip' - 1
        BY <2>5, Zenon
      <3>1. CASE l = Len(open) + 1
        BY <1>2, <2>1, <2>2, <2>4, <3>1
      <3>2. CASE l \in 1 .. Len(open)
        <4>1. open'[l] = open[l] /\ open[l].phase \in DOMAIN node /\ open[l].at \in 1 .. ip - 1
          BY <2>1, <2>4, <2>6, <3>2, Zenon
        <4> QED
          BY <1>2, <2>1, <4>1
      <3> QED
        BY <2>1, <3>1, <3>2
    <2>8. \A l, m \in DOMAIN open' : l < m => open'[l].at < open'[m].at
      <3> SUFFICES ASSUME NEW l \in 1 .. Len(open) + 1, NEW m \in 1 .. Len(open) + 1, l < m
                   PROVE  open'[l].at < open'[m].at
        BY <2>5, Zenon
      <3>1. l \in 1 .. Len(open) /\ open'[l] = open[l] /\ open[l].at \in 1 .. ip - 1
        BY <2>1, <2>4, <2>6
      <3>2. CASE m = Len(open) + 1
        BY <2>1, <2>2, <2>4, <3>1, <3>2
      <3>3. CASE m # Len(open) + 1
        <4>1. m \in 1 .. Len(open)
          BY <2>1, <3>3
        <4>2. open'[m] = open[m] /\ open[l].at < open[m].at
          BY <2>1, <2>4, <2>6, <3>1, <4>1, Zenon
        <4> QED
          BY <3>1, <4>2, Zenon
      <3> QED
        BY <3>2, <3>3, Zenon
    <2>9. Len(open') <= MaxLevel + 1
      BY <1>2, <2>1, <2>4
    <2> QED
      BY <1>1, <2>4, <2>7, <2>8, <2>9, Zenon DEF PathOK, P
  <1>6. PointOK'
    <2>1. g.phase \in DOMAIN node' /\ PointOK
      BY <1>2, Zenon DEF PhaseInv
    <2> QED
      BY <1>2, <2>1, Zenon DEF PointOK, IsGood, IsFailed
  <1>7. ProgOK'
    <2>1. Called([op |-> "begin", lv |-> Len(open), label |-> label])
      BY Zenon DEF BeginStep
    <2>2. prog' \in Seq(Calls) /\ Len(prog') <= MaxOps /\ ip \in 1 .. Len(prog')
      BY <2>1, Zenon DEF Called
    <2>3. ip + 1 \in 1 .. Len(prog') + 1
      BY <2>2
    <2>4. Calls' = Calls
      BY Zenon DEF Calls
    <2>5. fails \in 0 .. MaxFails
      BY Zenon DEF PhaseInv, ProgOK
    <2> QED
      BY <1>1, <1>2, <2>2, <2>3, <2>4, <2>5, Zenon DEF ProgOK
  <1> QED
    BY <1>4, <1>5, <1>6, <1>7, Zenon DEF PhaseInv

\* The path invariant for a shorter path, when the calls that begun it lie before the next one.
<0>ShorterPathOK.
  ASSUME PhaseInv, app' = app, NEW k \in 0 .. Len(open), open' = SubSeq(open, 1, k),
         DOMAIN node' = DOMAIN node, ip' \in Nat, \A l \in 1 .. k : open[l].at < ip'
  PROVE  PathOK'
  <1> USE <0>ShorterPathOK
  <1>1. /\ MaxLevel' = MaxLevel
    BY SameApp, Zenon
  <1>2. /\ open' \in Seq([phase : Nat, at : Nat]) /\ Len(open') = k
        /\ \A l \in 1 .. k : open'[l] = open[l]
    BY ShorterPath, Zenon
  <1>3. DOMAIN open' = 1 .. k /\ 1 .. k \subseteq DOMAIN open /\ Len(open) \in Nat /\ MaxLevel \in Nat
    BY <1>2, InvFacts
  <1>4. /\ \A l \in DOMAIN open : open[l].phase \in DOMAIN node /\ open[l].at \in 1 .. ip - 1
        /\ \A l, m \in DOMAIN open : l < m => open[l].at < open[m].at
        /\ Len(open) <= MaxLevel + 1
    BY Zenon DEF PhaseInv, PathOK
  <1>5. \A l \in DOMAIN open' : open'[l].phase \in DOMAIN node' /\ open'[l].at \in 1 .. ip' - 1
    <2> SUFFICES ASSUME NEW l \in 1 .. k
                 PROVE  open'[l].phase \in DOMAIN node' /\ open'[l].at \in 1 .. ip' - 1
      BY <1>3, Zenon
    <2>1. open'[l] = open[l] /\ open[l].phase \in DOMAIN node /\ open[l].at \in 1 .. ip - 1
          /\ open[l].at < ip'
      BY <1>2, <1>3, <1>4, Zenon
    <2> QED
      BY <2>1
  <1>6. \A l, m \in DOMAIN open' : l < m => open'[l].at < open'[m].at
    BY <1>2, <1>3, <1>4, Zenon
  <1>7. Len(open') <= MaxLevel + 1
    BY <1>2, <1>3, <1>4
  <1> QED
    BY <1>1, <1>2, <1>5, <1>6, <1>7, Zenon DEF PathOK

\* A Complete, which leaves the current phase for its parent, keeps the invariant.
<0>CompleteKeeps.
  ASSUME PhaseInv, app' = app, NEW n, CompleteStep(n)
  PROVE  PhaseInv'
  <1> USE <0>CompleteKeeps
  <1>1. /\ MaxLevel' = MaxLevel /\ MaxOps' = MaxOps /\ MaxFails' = MaxFails /\ Phases' = Phases
    BY SameApp, Zenon
  <1>2. /\ IsTree(node') /\ SamePhases(node, node') /\ Ordered(node')
    BY ZenonT(30) DEF CompleteStep, Completed, Kept, SamePhases
  <1>3. /\ Len(open) > 0 /\ current \in DOMAIN node /\ current' = node[current].parent
        /\ UNCHANGED <<phasePath, prev_phase, fails>> /\ open' = SubSeq(open, 1, Level) /\ ip' = ip + 1
    BY Zenon DEF CompleteStep
  <1>4. DOMAIN node' = DOMAIN node
    BY <1>2, Zenon DEF SamePhases
  <1>5. TreeOK'
    <2>1. IsTree(node)' /\ Ordered(node)'
      BY <1>1, <1>2, Zenon DEF IsTree, Ordered, NULL
    <2>2. node[current].parent \in 0 .. Len(node)
      BY <1>3, InvFacts, ParentIsPhase, Zenon
    <2>3. Len(node') = Len(node)
      BY <1>2, <1>4, InvFacts DEF IsTree
    <2>4. \A k \in DOMAIN phasePath : phasePath[k] \in DOMAIN node
      BY Zenon DEF PhaseInv, TreeOK
    <2> QED
      BY <1>3, <1>4, <2>1, <2>2, <2>3, <2>4, Zenon DEF TreeOK
  <1>6. PathOK'
    <2>1. Level \in 0 .. Len(open) /\ Level = Len(open) - 1 /\ Len(open) \in Nat /\ ip \in Nat
      <3>1. Len(open) > 0 /\ Level = Len(open) - 1 /\ Len(open) \in Nat /\ ip \in Nat
        BY <1>3, InvFacts, Zenon
      <3> HIDE <0>CompleteKeeps
      <3> QED
        BY <3>1
    <2>2. \A l \in 1 .. Level : open[l].at < ip'
      <3> TAKE l \in 1 .. Level
      <3>1. l \in DOMAIN open
        BY <2>1, InvFacts
      <3>2. open[l].at \in 1 .. ip - 1
        BY <3>1, Zenon DEF PhaseInv, PathOK
      <3> QED
        BY <1>3, <2>1, <3>2
    <2>3. ip' \in Nat
      BY <1>3, <2>1
    <2> QED
      BY <1>3, <1>4, <2>1, <2>2, <2>3, <0>ShorterPathOK, Zenon
  <1>7. PointOK'
    <2>1. failed_phase' \in {HEALTHY, failed_phase} /\ failed_seqID' \in {HEALTHY, failed_seqID}
          /\ (failed_phase' = failed_phase => failed_seqID' = failed_seqID \/ failed_phase = HEALTHY)
          /\ (failed_phase' # failed_phase => failed_seqID' = HEALTHY)
          /\ (IsGood => failed_phase' = HEALTHY /\ failed_seqID' \in {HEALTHY, failed_seqID})
      BY Zenon DEF CompleteStep, IsGood, AtFailurePoint, IsFailed
    <2>2. PointOK
      BY Zenon DEF PhaseInv
    <2> QED
      BY <1>3, <1>4, <2>1, <2>2, Zenon DEF PointOK, IsGood, IsFailed
  <1>8. ProgOK'
    <2>1. Called([op |-> "complete", lv |-> Level, label |-> <<>>])
      BY Zenon DEF CompleteStep
    <2>2. prog' \in Seq(Calls) /\ Len(prog') <= MaxOps /\ ip \in 1 .. Len(prog')
      BY <2>1, Zenon DEF Called
    <2>3. ip + 1 \in 1 .. Len(prog') + 1
      BY <2>2
    <2>4. Calls' = Calls
      BY Zenon DEF Calls
    <2>5. fails \in 0 .. MaxFails
      BY Zenon DEF PhaseInv, ProgOK
    <2> QED
      BY <1>1, <1>3, <2>2, <2>3, <2>4, <2>5, Zenon DEF ProgOK
  <1> QED
    BY <1>5, <1>6, <1>7, <1>8, Zenon DEF PhaseInv

\* A failure and the rollback it causes keep the invariant.
<0>RollbackKeeps.
  ASSUME PhaseInv, app' = app, NEW r, NEW c, RollbackStep(r, c)
  PROVE  PhaseInv'
  <1> USE <0>RollbackKeeps
  <1>1. /\ MaxLevel' = MaxLevel /\ MaxOps' = MaxOps /\ MaxFails' = MaxFails /\ Phases' = Phases
    BY SameApp, Zenon
  <1>2. /\ IsTree(node') /\ SamePhases(node, node') /\ Ordered(node')
    BY Zenon DEF RollbackStep, RolledBack
  <1>3. /\ Len(open) > 0 /\ r \in 0 .. Level /\ \A l \in r .. Level : c[l] \in DOMAIN node
        /\ current' = node[c[r]].parent /\ fails' \in 0 .. MaxFails
        /\ UNCHANGED <<phasePath, prev_phase>> /\ open' = SubSeq(open, 1, r) /\ ip' = open[r + 1].at
        /\ c[Level] = current
    BY Zenon DEF RollbackStep, Climbs
  <1>4. DOMAIN node' = DOMAIN node
    BY <1>2, Zenon DEF SamePhases
  <1>5. Level = Len(open) - 1 /\ Len(open) \in Nat /\ DOMAIN open = 1 .. Len(open) /\ ip \in Nat
    BY InvFacts, Zenon
  <1>6. r + 1 \in DOMAIN open /\ r \in 0 .. Len(open) /\ c[r] \in DOMAIN node /\ current \in DOMAIN node
    <2>1. r + 1 \in DOMAIN open /\ r \in 0 .. Len(open) /\ r \in r .. Level /\ Level \in r .. Level
      BY <1>3, <1>5
    <2> QED
      BY <1>3, <2>1, Zenon
  <1>7. /\ \A l \in DOMAIN open : open[l].phase \in DOMAIN node /\ open[l].at \in 1 .. ip - 1
        /\ \A l, m \in DOMAIN open : l < m => open[l].at < open[m].at
    BY Zenon DEF PhaseInv, PathOK
  <1>8. open[r + 1].at \in 1 .. ip - 1
    BY <1>6, <1>7, Zenon
  <1>9. TreeOK'
    <2>1. IsTree(node)' /\ Ordered(node)'
      BY <1>1, <1>2, Zenon DEF IsTree, Ordered, NULL
    <2>2. node[c[r]].parent \in 0 .. Len(node)
      BY <1>6, InvFacts, ParentIsPhase, Zenon
    <2>3. Len(node') = Len(node)
      BY <1>2, <1>4, InvFacts DEF IsTree
    <2>4. \A k \in DOMAIN phasePath : phasePath[k] \in DOMAIN node
      BY Zenon DEF PhaseInv, TreeOK
    <2> QED
      BY <1>3, <1>4, <2>1, <2>2, <2>3, <2>4, Zenon DEF TreeOK
  <1>10. PathOK'
    <2>1. \A l \in 1 .. r : open[l].at < ip'
      <3> TAKE l \in 1 .. r
      <3>1. l \in DOMAIN open /\ l < r + 1
        BY <1>5, <1>6
      <3> QED
        BY <1>3, <1>6, <1>7, <3>1, Zenon
    <2>2. ip' \in Nat
      BY <1>3, <1>5, <1>8
    <2> QED
      BY <1>3, <1>4, <1>6, <2>1, <2>2, <0>ShorterPathOK, Zenon
  <1>11. PointOK'
    <2>1. PointOK /\ prev_phase' = prev_phase
      BY <1>3, Zenon DEF PhaseInv
    <2>2. CASE IsGood
      <3>1. failed_phase' = Top.phase /\ failed_seqID' = node[current].seq_end
        BY <2>2, Zenon DEF RollbackStep
      <3>2. Top.phase \in DOMAIN node
        BY <1>3, <1>5, <1>7 DEF Top
      <3>3. node[current].seq_end \in Nat
        BY <1>6, InvFacts, PhaseFields
      <3>4. \A p \in DOMAIN node : p # HEALTHY
        BY InvFacts DEF HEALTHY
      <3> QED
        BY <1>4, <2>1, <3>1, <3>2, <3>3, <3>4, Zenon DEF PointOK, IsGood, IsFailed
    <2>3. CASE ~IsGood
      <3>1. UNCHANGED <<failed_phase, failed_seqID>>
        BY <2>3, Zenon DEF RollbackStep
      <3> QED
        BY <1>4, <2>1, <3>1, Zenon DEF PointOK, IsGood, IsFailed
    <2> QED
      BY <2>2, <2>3, Zenon
  <1>12. ProgOK'
    <2>1. Called([op |-> "complete", lv |-> Level, label |-> <<>>]) \/ prog' = prog
      BY Zenon DEF RollbackStep
    <2>2. prog \in Seq(Calls) /\ Len(prog) <= MaxOps /\ ip \in 1 .. Len(prog) + 1 /\ Len(prog) \in Nat
      BY InvFacts, Zenon DEF PhaseInv, ProgOK
    <2>3. prog' \in Seq(Calls) /\ Len(prog') <= MaxOps /\ ip \in 1 .. Len(prog') + 1
      BY <2>1, <2>2 DEF Called
    <2>4. open[r + 1].at \in 1 .. Len(prog') + 1
      BY <1>8, <2>3
    <2>5. Calls' = Calls
      BY Zenon DEF Calls
    <2> QED
      BY <1>1, <1>3, <2>3, <2>4, <2>5, Zenon DEF ProgOK
  <1> QED
    BY <1>9, <1>10, <1>11, <1>12, Zenon DEF PhaseInv
<0> QED
  <1> SUFFICES ASSUME LeastNumber, PhaseInv, Next
               PROVE  PhaseInv'
    BY Zenon
  <1> QED
    BY StepIs, <0>BeginKeeps, <0>CompleteKeeps, <0>RollbackKeeps, <0>StopKeeps, Zenon

\* The root CD, just created, satisfies the invariant of the phase tree.
LEMMA PhaseInvInit ==
  ASSUME Init
  PROVE  PhaseInv
<1>1. app \in Apps /\ node = <<>> /\ phasePath = <<>> /\ current = 0 /\ prev_phase = HEALTHY
      /\ failed_phase = HEALTHY /\ failed_seqID = HEALTHY /\ open = <<>> /\ prog = <<>> /\ ip = 1
      /\ fails = 0
  BY Zenon DEF Init, NULL
<1>2. MaxLevel \in Nat /\ MaxOps \in Nat /\ MaxFails \in Nat
  BY <1>1, AppFacts, Zenon
<1>3. TreeOK
  BY <1>1 DEF TreeOK, IsTree, Ordered
<1>4. PathOK
  BY <1>1, <1>2 DEF PathOK
<1>5. PointOK
  BY <1>1, Zenon DEF PointOK, IsGood, IsFailed
<1>6. ProgOK
  BY <1>1, <1>2 DEF ProgOK
<1> QED
  BY <1>1, <1>3, <1>4, <1>5, <1>6, Zenon DEF PhaseInv

\* A step that changes nothing keeps the invariant of the phase tree.
LEMMA PhaseInvStutter ==
  ASSUME PhaseInv, UNCHANGED vars
  PROVE  PhaseInv'
<1>1. UNCHANGED <<app, node, phasePath, current, prev_phase, failed_phase, failed_seqID, open,
                  prog, ip, fails>>
  BY Zenon DEF vars
<1>2. MaxLevel' = MaxLevel /\ MaxOps' = MaxOps /\ MaxFails' = MaxFails /\ Phases' = Phases
  BY <1>1, SameApp, Zenon
<1>3. IsTree(node)' /\ Ordered(node)'
  BY <1>1, <1>2, InvFacts, Zenon DEF IsTree, Ordered, NULL
<1>4. TreeOK'
  BY <1>1, <1>3, Zenon DEF PhaseInv, TreeOK
<1>5. PathOK'
  BY <1>1, <1>2, Zenon DEF PhaseInv, PathOK
<1>6. PointOK' /\ ProgOK'
  BY <1>1, <1>2, Zenon DEF PhaseInv, PointOK, ProgOK, IsGood, IsFailed, Calls
<1> QED
  BY <1>1, <1>4, <1>5, <1>6, Zenon DEF PhaseInv

----------------------------------------------------------------------------
(* The paths of the phases                                                  *)

\* The path of the phase that the map of paths keeps under k: the label of the root is not
\* part of the key of its children.
FullPath(k) == IF Len(k) = 1 THEN Root \o k ELSE k

\* A phase is one level and one word below its parent, and paths tell phases apart.
PathTree(n) ==
  /\ \A p \in DOMAIN n :
       /\ Len(n[p].path) = n[p].level + 1
       /\ n[p].parent = NULL <=> p = 1
       /\ p = 1 => n[p].path = Root
       /\ n[p].parent # NULL =>
            /\ n[p].level = n[n[p].parent].level + 1
            /\ \E w \in Seq(Words) : Len(w) = 1 /\ n[p].path = n[n[p].parent].path \o w
       /\ n[p].left # NULL => n[p].parent # NULL /\ n[n[p].left].parent = n[p].parent
  /\ \A p, q \in DOMAIN n : n[p].path = n[q].path => p = q

\* The map of paths leads to every phase but the root.
KeyMap(n, paths) ==
  /\ \A k \in DOMAIN paths :
       /\ k \in Seq(Words) /\ Len(k) # 2
       /\ paths[k] \in DOMAIN n /\ n[paths[k]].path = FullPath(k)
  /\ \A p \in DOMAIN n \ {1} : \E k \in DOMAIN paths : paths[k] = p

\* The phases of the CD path, from the root down.
OnPath(n, o) ==
  \A l \in DOMAIN o :
    /\ n[o[l].phase].level = l - 1
    /\ n[o[l].phase].parent = IF l = 1 THEN NULL ELSE o[l - 1].phase

PathInv ==
  /\ PathTree(node) /\ KeyMap(node, phasePath) /\ OnPath(node, open)
  /\ current = IF open = <<>> THEN NULL ELSE Top.phase

----------------------------------------------------------------------------
(* Facts about paths                                                        *)

\* Two paths that differ in their last words or before them differ.
LEMMA LastWord ==
  ASSUME NEW a \in Seq(Words), NEW b \in Seq(Words), NEW w \in Seq(Words), NEW v \in Seq(Words),
         Len(w) = 1, Len(v) = 1, a \o w = b \o v
  PROVE  a = b /\ w = v
<1>1. \A x, y \in Seq(Words) :
        /\ Len(x \o y) = Len(x) + Len(y)
        /\ \A i \in 1 .. Len(x) + Len(y) :
             (x \o y)[i] = IF i <= Len(x) THEN x[i] ELSE y[i - Len(x)]
  BY ConcatIs, Zenon
<1>2. Len(a) \in Nat /\ Len(b) \in Nat
  OBVIOUS
<1>3. Len(a) + Len(w) = Len(a \o w) /\ Len(b) + Len(v) = Len(b \o v)
  BY <1>1, Zenon
<1>4. Len(a) = Len(b)
  BY <1>2, <1>3
<1>5. \A i \in 1 .. Len(a) + 1 :
        /\ (a \o w)[i] = IF i <= Len(a) THEN a[i] ELSE w[i - Len(a)]
        /\ (b \o v)[i] = IF i <= Len(b) THEN b[i] ELSE v[i - Len(b)]
  BY <1>1, <1>4, ZenonT(30)
<1>6. ASSUME NEW i \in 1 .. Len(a)
      PROVE  a[i] = b[i]
  <2>1. i \in 1 .. Len(a) + 1 /\ i <= Len(a) /\ i <= Len(b)
    BY <1>2, <1>4
  <2> QED
    BY <1>5, <2>1, Zenon
<1>7. w[1] = v[1]
  <2>1. Len(a) + 1 \in 1 .. Len(a) + 1 /\ ~(Len(a) + 1 <= Len(a)) /\ Len(a) + 1 - Len(a) = 1
    BY <1>2
  <2> QED
    BY <1>4, <1>5, <2>1
<1>8. a = b
  BY <1>4, <1>6, SameElements, Zenon
<1>9. w = v
  BY <1>7, SameElements
<1> QED
  BY <1>8, <1>9, Zenon

\* A path has one key.
LEMMA OneKey ==
  ASSUME NEW j \in Seq(Words), NEW k \in Seq(Words), Len(j) # 2, Len(k) # 2,
         FullPath(j) = FullPath(k)
  PROVE  j = k
<1>1. Root \in Seq(Words) /\ Len(Root) = 1
  <2>1. "Root" \in Words
    BY PhaseAssumption, Zenon
  <2>2. \A S : \A x \in S : <<x>> \in Seq(S)
    OBVIOUS
  <2>3. Len(<<"Root">>) = 1
    BY Zenon
  <2> QED
    BY <2>1, <2>2, <2>3, Zenon DEF Root
<1>2. \A i \in Seq(Words) : Len(i) = 1 => Len(Root \o i) = 2
  <2> TAKE i \in Seq(Words)
  <2>1. Len(Root \o i) = Len(Root) + Len(i)
    BY <1>1, ConcatIs, Zenon
  <2> QED
    BY <1>1, <2>1
<1>3. CASE Len(j) = 1 /\ Len(k) = 1
  BY <1>1, <1>3, LastWord, Zenon DEF FullPath
<1>4. CASE Len(j) # 1 /\ Len(k) # 1
  BY <1>4, Zenon DEF FullPath
<1>5. CASE Len(j) = 1 /\ Len(k) # 1
  BY <1>2, <1>5, Zenon DEF FullPath
<1>6. CASE Len(j) # 1 /\ Len(k) = 1
  BY <1>2, <1>6, Zenon DEF FullPath
<1> QED
  BY <1>3, <1>4, <1>5, <1>6, Zenon

\* Steps that change ids and states keep the paths.
LEMMA SamePaths ==
  ASSUME NEW n, NEW m, IsTree(n), SamePhases(n, m)
  PROVE  /\ PathTree(n) => PathTree(m)
         /\ \A paths : KeyMap(n, paths) => KeyMap(m, paths)
<1>1. DOMAIN m = DOMAIN n
      /\ \A p \in DOMAIN n : /\ m[p].level = n[p].level /\ m[p].parent = n[p].parent
                             /\ m[p].left = n[p].left /\ m[p].path = n[p].path
  BY Zenon DEF SamePhases
<1>2. \A p \in DOMAIN n : /\ n[p].parent # NULL => n[p].parent \in DOMAIN n
                          /\ n[p].left # NULL => n[p].left \in DOMAIN n
  <2> TAKE p \in DOMAIN n
  <2>1. /\ n[p].parent \in 0 .. p - 1 /\ n[p].left \in 0 .. p - 1 /\ p \in 1 .. Len(n)
        /\ Len(n) \in Nat /\ DOMAIN n = 1 .. Len(n)
    BY DEF IsTree
  <2> QED
    BY <2>1 DEF NULL
<1>3. PathTree(n) => PathTree(m)
  <2> SUFFICES ASSUME PathTree(n) PROVE PathTree(m)
    BY Zenon
  <2>1. ASSUME NEW p \in DOMAIN m
        PROVE  /\ Len(m[p].path) = m[p].level + 1
               /\ m[p].parent = NULL <=> p = 1
               /\ p = 1 => m[p].path = Root
               /\ m[p].parent # NULL =>
                    /\ m[p].level = m[m[p].parent].level + 1
                    /\ \E w \in Seq(Words) : Len(w) = 1 /\ m[p].path = m[m[p].parent].path \o w
               /\ m[p].left # NULL => m[p].parent # NULL /\ m[m[p].left].parent = m[p].parent
    <3>1. p \in DOMAIN n /\ m[p].level = n[p].level /\ m[p].parent = n[p].parent
          /\ m[p].left = n[p].left /\ m[p].path = n[p].path
      BY <1>1, Zenon
    <3>2. n[p].parent # NULL => m[n[p].parent].level = n[n[p].parent].level
                                /\ m[n[p].parent].path = n[n[p].parent].path
      BY <1>1, <1>2, <3>1, Zenon
    <3>3. n[p].left # NULL => m[n[p].left].parent = n[n[p].left].parent
      BY <1>1, <1>2, <3>1, Zenon
    <3>4. /\ Len(n[p].path) = n[p].level + 1
          /\ n[p].parent = NULL <=> p = 1
          /\ p = 1 => n[p].path = Root
          /\ n[p].parent # NULL =>
               /\ n[p].level = n[n[p].parent].level + 1
               /\ \E w \in Seq(Words) : Len(w) = 1 /\ n[p].path = n[n[p].parent].path \o w
          /\ n[p].left # NULL => n[p].parent # NULL /\ n[n[p].left].parent = n[p].parent
      BY <3>1, Zenon DEF PathTree
    <3> QED
      BY <3>1, <3>2, <3>3, <3>4, Zenon
  <2>2. \A p, q \in DOMAIN m : m[p].path = m[q].path => p = q
    BY <1>1, Zenon DEF PathTree
  <2> QED
    BY <2>1, <2>2, Zenon DEF PathTree
<1>4. \A paths : KeyMap(n, paths) => KeyMap(m, paths)
  BY <1>1, Zenon DEF KeyMap
<1> QED
  BY <1>3, <1>4, Zenon

\* The keys of the map of paths: GetPhasePath on the current phase is the key of the path that
\* a child of it has.
LEMMA KeyIsPath ==
  ASSUME PhaseInv, PathInv, SingleWords, NEW label \in Labels, current # NULL
  PROVE  /\ current \in DOMAIN node /\ node[current].path \in Seq(Words)
         /\ label \in Seq(Words) /\ Len(label) = 1
         /\ node[current].level = Len(open) - 1
         /\ FullPath(GetPhasePath(label)) = node[current].path \o label
         /\ Len(node[current].path \o label) = Len(open) + 1
         /\ GetPhasePath(label) \in Seq(Words) /\ Len(GetPhasePath(label)) # 2
<1>1. current \in DOMAIN node
  BY InvFacts DEF PhaseInv, TreeOK, NULL
<1>2. node[current] \in Phases /\ node[current].path \in Seq(Words)
      /\ node[current].level \in 0 .. MaxLevel
  BY <1>1, InvFacts, PhaseFields
<1>3. label \in Seq(Words) /\ Len(label) = 1
  <2>1. label \in app.labels /\ app \in Apps
    BY Zenon DEF Labels, PhaseInv
  <2>2. Len(label) = 1
    BY <2>1, Zenon DEF SingleWords
  <2>3. label \in Seq(Words)
    BY AppFacts, Zenon DEF PhaseInv
  <2> QED
    BY <2>2, <2>3, Zenon
<1>4. open # <<>> /\ current = Top.phase /\ Len(open) \in DOMAIN open /\ Len(open) \in Nat
  <2>1. open # <<>> /\ current = Top.phase
    BY Zenon DEF PathInv
  <2> QED
    BY <2>1, InvFacts
<1>5. node[current].level = Len(open) - 1
  BY <1>4, Zenon DEF PathInv, OnPath, Top
<1>6. /\ Len(node[current].path) = node[current].level + 1
      /\ node[current].parent = NULL <=> current = 1
      /\ current = 1 => node[current].path = Root
      /\ node[current].parent # NULL => node[current].level = node[node[current].parent].level + 1
  BY <1>1, Zenon DEF PathInv, PathTree
<1>7. Len(node[current].path \o label) = Len(open) + 1
  <2>1. Len(node[current].path \o label) = Len(node[current].path) + Len(label)
    BY <1>2, <1>3, ConcatIs, Zenon
  <2> QED
    BY <1>2, <1>3, <1>4, <1>5, <1>6, <2>1
<1>8. /\ FullPath(GetPhasePath(label)) = node[current].path \o label
      /\ GetPhasePath(label) \in Seq(Words) /\ Len(GetPhasePath(label)) # 2
  <2>1. CASE node[current].parent = NULL
    <3>1. GetPhasePath(label) = label
      BY <2>1, Zenon DEF GetPhasePath
    <3>2. FullPath(label) = Root \o label
      BY <1>3, Zenon DEF FullPath
    <3>3. node[current].path = Root
      BY <1>6, <2>1, Zenon
    <3>4. Len(label) # 2
      BY <1>3
    <3> QED
      BY <1>3, <3>1, <3>2, <3>3, <3>4, Zenon
  <2>2. CASE node[current].parent # NULL
    <3>1. GetPhasePath(label) = node[current].path \o label
      BY <2>2, Zenon DEF GetPhasePath
    <3>2. node[current].level >= 1
      <4>1. node[current].parent \in DOMAIN node
        BY <1>1, <2>2, InvFacts, ParentIsPhase, Zenon
      <4>2. node[node[current].parent].level \in 0 .. MaxLevel
        BY <4>1, InvFacts, PhaseFields
      <4> QED
        BY <1>2, <1>6, <2>2, <4>2
    <3>3. Len(node[current].path \o label) \notin {1, 2}
      BY <1>4, <1>5, <1>7, <3>2
    <3>4. node[current].path \o label \in Seq(Words)
      BY <1>2, <1>3, ConcatIs, Zenon
    <3> QED
      BY <3>1, <3>3, <3>4, Zenon DEF FullPath
  <2> QED
    BY <2>1, <2>2, Zenon
<1> QED
  BY <1>1, <1>2, <1>3, <1>5, <1>7, <1>8, Zenon

\* A phase whose path is that of the current one and a word more is a child of the current one.
LEMMA ChildOfCurrent ==
  ASSUME PhaseInv, PathInv, SingleWords, NEW label \in Labels, current # NULL,
         NEW q \in DOMAIN node, node[q].path = node[current].path \o label
  PROVE  node[q].parent = current /\ node[q].level = Len(open) /\ q # 1
<1>1. /\ current \in DOMAIN node /\ node[current].path \in Seq(Words)
      /\ label \in Seq(Words) /\ Len(label) = 1
      /\ Len(node[q].path) = Len(open) + 1
      /\ node[current].level = Len(open) - 1 /\ node[current].level \in Nat /\ Len(open) \in Nat
  <2>1. node[current].level \in Nat
    <3>1. current \in DOMAIN node
      BY KeyIsPath, Zenon
    <3>2. node[current] \in Phases
      BY <3>1, InvFacts
    <3>3. node[current].level \in 0 .. MaxLevel
      BY <3>2, PhaseFields, Zenon
    <3> QED
      BY <3>3
  <2> QED
    BY <2>1, KeyIsPath, InvFacts, Zenon
<1>2. /\ Len(node[q].path) = node[q].level + 1
      /\ node[q].parent = NULL <=> q = 1
      /\ q = 1 => node[q].path = Root
      /\ node[q].parent # NULL =>
           \E w \in Seq(Words) : Len(w) = 1 /\ node[q].path = node[node[q].parent].path \o w
  BY Zenon DEF PathInv, PathTree
<1>3. node[q].level \in Nat
  BY InvFacts, PhaseFields
<1>4. node[q].level = Len(open)
  BY <1>1, <1>2, <1>3
<1>5. q # 1
  <2>1. Len(Root) = 1
    BY Zenon DEF Root
  <2>2. Len(open) >= 1
    BY <1>1
  <2>3. Len(node[q].path) # 1
    BY <1>1, <2>2
  <2> QED
    BY <1>2, <2>1, <2>3, Zenon
<1>6. node[q].parent \in DOMAIN node
  BY <1>2, <1>5, InvFacts, ParentIsPhase, Zenon
<1>7. node[node[q].parent].path \in Seq(Words)
  BY <1>6, InvFacts, PhaseFields
<1>8. PICK w \in Seq(Words) : Len(w) = 1 /\ node[q].path = node[node[q].parent].path \o w
  BY <1>2, <1>5, Zenon
<1>9. node[node[q].parent].path = node[current].path
  <2> DEFINE a == node[node[q].parent].path
             b == node[current].path
  <2>1. a \in Seq(Words) /\ b \in Seq(Words) /\ a \o w = b \o label
    BY <1>1, <1>7, <1>8, Zenon
  <2> HIDE DEF a, b
  <2>2. a = b
    BY <1>1, <1>8, <2>1, LastWord, Zenon
  <2> QED
    BY <2>2, Zenon DEF a, b
<1>10. node[q].parent = current
  BY <1>1, <1>6, <1>9, Zenon DEF PathInv, PathTree
<1> QED
  BY <1>4, <1>5, <1>10, Zenon

\* A phase that BeginPhase makes has a path of its own.
LEMMA NewPath ==
  ASSUME PhaseInv, PathInv, SingleWords, NEW g, NEW x, NEW label, NewPhase(g, x, Len(open), label),
         IF Len(open) = 0 THEN label = Root ELSE label \in Labels
  PROVE  PathTree(g.nodes) /\ KeyMap(g.nodes, g.paths)
<1> DEFINE m == g.nodes
           N == Len(node) + 1
<1>1. /\ Len(node) \in Nat /\ DOMAIN node = 1 .. Len(node) /\ IsTree(node) /\ Ordered(node)
      /\ current \in 0 .. Len(node) /\ Len(open) \in Nat
  BY InvFacts, Zenon DEF PhaseInv, TreeOK
<1>2. m = Append(node, x) /\ \E s : IsNew(x, Len(open), label, s)
  BY Zenon DEF NewPhase
<1>3. /\ IsTree(m) /\ Len(m) = N /\ m[N] = x /\ \A q \in DOMAIN node : m[q] = node[q]
  BY <1>1, <1>2, AppendNode, SMTT(30)
<1>4. DOMAIN m = DOMAIN node \cup {N} /\ N \notin DOMAIN node
  <2>1. DOMAIN m = 1 .. N
    BY <1>3 DEF IsTree
  <2> QED
    BY <1>1, <2>1
<1>5. /\ x.level = Len(open) /\ x.parent = current
      /\ x.path = IF current = NULL THEN label ELSE node[current].path \o label
      /\ x.left \in 0 .. Len(node) /\ (x.left # NULL => node[x.left].parent = current /\ current # NULL)
  BY <1>2, Zenon DEF IsNew
<1>6. current = NULL <=> Len(open) = 0
  <2>1. CASE open = <<>>
    BY <2>1, Zenon DEF PathInv
  <2>2. CASE open # <<>>
    <3>1. Len(open) \in DOMAIN open
      BY <2>2, InvFacts
    <3>2. current \in DOMAIN node
      BY <2>2, <3>1, Zenon DEF PathInv, Top, PhaseInv, PathOK
    <3> QED
      BY <1>1, <2>2, <3>1, <3>2, InvFacts DEF NULL
  <2> QED
    BY <2>1, <2>2, Zenon
<1>7. ASSUME NEW p \in DOMAIN node
      PROVE  /\ m[p] = node[p] /\ Len(node[p].path) = node[p].level + 1
             /\ node[p].parent = NULL <=> p = 1
             /\ p = 1 => node[p].path = Root
             /\ node[p].parent # NULL =>
                  /\ m[node[p].parent] = node[node[p].parent]
                  /\ node[p].level = node[node[p].parent].level + 1
                  /\ \E w \in Seq(Words) : Len(w) = 1 /\ node[p].path = node[node[p].parent].path \o w
             /\ node[p].left # NULL =>
                  /\ m[node[p].left] = node[node[p].left]
                  /\ node[p].parent # NULL /\ node[node[p].left].parent = node[p].parent
  <2>1. node[p].parent # NULL => node[p].parent \in DOMAIN node
    BY <1>1, ParentIsPhase, Zenon
  <2>2. node[p].left # NULL => node[p].left \in DOMAIN node
    <3>1. node[p].left \in 0 .. p - 1 /\ p \in 1 .. Len(node)
      BY <1>1, Zenon DEF IsTree
    <3> QED
      BY <1>1, <3>1 DEF NULL
  <2> QED
    BY <1>3, <2>1, <2>2, Zenon DEF PathInv, PathTree
<1>8. CASE current = NULL
  <2>1. node = <<>> /\ g.paths = phasePath /\ x.path = Root /\ x.parent = NULL /\ x.level = 0
        /\ x.left = NULL
    BY <1>5, <1>6, <1>8, Zenon DEF NewPhase
  <2>2. DOMAIN m = {1} /\ m[1] = x
    BY <1>1, <1>3, <1>4, <2>1
  <2>3. Len(Root) = 1
    BY Zenon DEF Root
  <2> HIDE DEF m
  <2>4. PathTree(m)
    <3>1. \A p \in DOMAIN m : p = 1 /\ m[p] = x
      BY <2>2, Zenon
    <3>2. Len(x.path) = x.level + 1 /\ x.parent = NULL /\ x.path = Root /\ x.left = NULL
      BY <2>1, <2>3
    <3> QED
      BY <3>1, <3>2, Zenon DEF PathTree
  <2>5. DOMAIN phasePath = {}
    <3>1. \A k \in DOMAIN phasePath : phasePath[k] \in DOMAIN node
      BY Zenon DEF PhaseInv, TreeOK
    <3> QED
      BY <2>1, <3>1
  <2>6. KeyMap(m, g.paths)
    BY <2>1, <2>2, <2>5, Zenon DEF KeyMap
  <2> QED
    BY <2>4, <2>6, Zenon DEF m
<1>9. CASE current # NULL
  <2> DEFINE key == GetPhasePath(label)
  <2>1. label \in Labels
    BY <1>6, <1>9, Zenon
  <2>2. /\ current \in DOMAIN node /\ node[current].path \in Seq(Words)
        /\ label \in Seq(Words) /\ Len(label) = 1
        /\ node[current].level = Len(open) - 1
        /\ FullPath(key) = node[current].path \o label
        /\ key \in Seq(Words) /\ Len(key) # 2
        /\ Len(node[current].path \o label) = Len(open) + 1
    BY <1>9, <2>1, KeyIsPath, Zenon
  <2>3. /\ key \notin DOMAIN phasePath
        /\ g.paths = [k \in DOMAIN phasePath \cup {key} |-> IF k = key THEN N ELSE phasePath[k]]
    BY <1>9, Zenon DEF NewPhase
  <2>4. x.path = node[current].path \o label /\ m[current] = node[current]
    BY <1>3, <1>5, <1>9, <2>2, Zenon
  <2> HIDE DEF key, m
  <2>5. KeyMap(node, phasePath)
    BY Zenon DEF PathInv
  <2>6. \A q \in DOMAIN node : node[q].path # x.path
    <3> SUFFICES ASSUME NEW q \in DOMAIN node, node[q].path = x.path PROVE FALSE
      BY Zenon
    <3>1. q # 1
      BY <1>9, <2>1, <2>4, ChildOfCurrent, Zenon
    <3>2. PICK k \in DOMAIN phasePath : phasePath[k] = q
      BY <2>5, <3>1, Zenon DEF KeyMap
    <3>3. FullPath(k) = FullPath(key)
      BY <2>2, <2>4, <2>5, <3>2, Zenon DEF KeyMap
    <3>4. k = key
      BY <2>2, <2>5, <3>3, OneKey, Zenon DEF KeyMap
    <3> QED
      BY <2>3, <3>4, Zenon
  <2>7. PathTree(m)
    <3>1. /\ Len(x.path) = x.level + 1 /\ x.parent # NULL /\ N # 1
          /\ x.level = m[x.parent].level + 1
          /\ \E w \in Seq(Words) : Len(w) = 1 /\ x.path = m[x.parent].path \o w
          /\ x.left # NULL => m[x.left].parent = x.parent
      <4>1. Len(x.path) = x.level + 1 /\ x.parent # NULL
        BY <1>5, <1>9, <2>2, <2>4, Zenon
      <4>2. N # 1
        BY <1>1, <2>2
      <4>3. x.level = m[x.parent].level + 1
        BY <1>1, <1>5, <2>2, <2>4
      <4>4. \E w \in Seq(Words) : Len(w) = 1 /\ x.path = m[x.parent].path \o w
        BY <1>5, <2>2, <2>4, Zenon
      <4>5. x.left # NULL => m[x.left].parent = x.parent
        <5>1. x.left # NULL => x.left \in DOMAIN node
          BY <1>1, <1>5 DEF NULL
        <5> QED
          BY <1>3, <1>5, <5>1, Zenon
      <4> QED
        BY <4>1, <4>2, <4>3, <4>4, <4>5, Zenon
    <3>2. ASSUME NEW p \in DOMAIN m
          PROVE  /\ Len(m[p].path) = m[p].level + 1
                 /\ m[p].parent = NULL <=> p = 1
                 /\ p = 1 => m[p].path = Root
                 /\ m[p].parent # NULL =>
                      /\ m[p].level = m[m[p].parent].level + 1
                      /\ \E w \in Seq(Words) : Len(w) = 1 /\ m[p].path = m[m[p].parent].path \o w
                 /\ m[p].left # NULL => m[p].parent # NULL /\ m[m[p].left].parent = m[p].parent
      <4>1. CASE p \in DOMAIN node
        <5>1. /\ m[p] = node[p]
              /\ node[p].parent # NULL => m[node[p].parent] = node[node[p].parent]
              /\ node[p].left # NULL => m[node[p].left] = node[node[p].left]
          BY <1>7, <4>1, Zenon
        <5>2. /\ Len(node[p].path) = node[p].level + 1
              /\ node[p].parent = NULL <=> p = 1
              /\ p = 1 => node[p].path = Root
          BY <1>7, <4>1, Zenon
        <5>3. node[p].parent # NULL =>
                /\ node[p].level = node[node[p].parent].level + 1
                /\ \E w \in Seq(Words) : Len(w) = 1 /\ node[p].path = node[node[p].parent].path \o w
          BY <1>7, <4>1, Zenon
        <5>4. node[p].left # NULL => node[p].parent # NULL
                                     /\ node[node[p].left].parent = node[p].parent
          BY <1>7, <4>1, Zenon
        <5> QED
          BY <5>1, <5>2, <5>3, <5>4, Zenon
      <4>2. CASE p = N
        BY <1>3, <3>1, <4>2, Zenon
      <4> QED
        BY <1>4, <4>1, <4>2, Zenon
    <3>3. ASSUME NEW p \in DOMAIN m, NEW q \in DOMAIN m, m[p].path = m[q].path
          PROVE  p = q
      <4>1. CASE p \in DOMAIN node /\ q \in DOMAIN node
        BY <1>3, <3>3, <4>1, Zenon DEF PathInv, PathTree
      <4>2. CASE p = N /\ q \in DOMAIN node
        BY <1>3, <2>6, <3>3, <4>2, Zenon
      <4>3. CASE q = N /\ p \in DOMAIN node
        BY <1>3, <2>6, <3>3, <4>3, Zenon
      <4> QED
        BY <1>4, <4>1, <4>2, <4>3, Zenon
    <3> QED
      BY <3>2, <3>3, Zenon DEF PathTree
  <2>8. KeyMap(m, g.paths)
    <3>1. DOMAIN g.paths = DOMAIN phasePath \cup {key} /\ g.paths[key] = N
          /\ \A k \in DOMAIN phasePath : g.paths[k] = phasePath[k]
      BY <2>3, Zenon
    <3>2. ASSUME NEW k \in DOMAIN g.paths
          PROVE  /\ k \in Seq(Words) /\ Len(k) # 2
                 /\ g.paths[k] \in DOMAIN m /\ m[g.paths[k]].path = FullPath(k)
      <4>1. CASE k = key
        BY <1>3, <1>4, <2>2, <2>4, <3>1, <4>1, Zenon
      <4>2. CASE k \in DOMAIN phasePath
        <5>1. /\ k \in Seq(Words) /\ Len(k) # 2
              /\ phasePath[k] \in DOMAIN node /\ node[phasePath[k]].path = FullPath(k)
          BY <2>5, <4>2, Zenon DEF KeyMap
        <5>2. g.paths[k] = phasePath[k]
          BY <3>1, <4>2, Zenon
        <5>3. phasePath[k] \in DOMAIN m /\ m[phasePath[k]] = node[phasePath[k]]
          BY <1>3, <1>4, <5>1, Zenon
        <5> QED
          BY <5>1, <5>2, <5>3, Zenon
      <4> QED
        BY <3>1, <4>1, <4>2, Zenon
    <3>3. ASSUME NEW p \in DOMAIN m \ {1}
          PROVE  \E k \in DOMAIN g.paths : g.paths[k] = p
      <4>1. CASE p = N
        BY <3>1, <4>1, Zenon
      <4>2. CASE p \in DOMAIN node
        <5>1. PICK k \in DOMAIN phasePath : phasePath[k] = p
          BY <2>5, <4>2, Zenon DEF KeyMap
        <5> QED
          BY <3>1, <5>1, Zenon
      <4> QED
        BY <1>4, <4>1, <4>2, Zenon
    <3> QED
      BY <3>2, <3>3, Zenon DEF KeyMap
  <2> QED
    BY <2>7, <2>8, Zenon DEF m
<1> QED
  BY <1>8, <1>9, Zenon

\* There is a current phase if and only if there is a current CD: it is the phase of that CD.
LEMMA CurrentFacts ==
  ASSUME PhaseInv, PathInv
  PROVE  /\ current = NULL <=> Len(open) = 0
         /\ Len(open) # 0 => /\ Len(open) \in DOMAIN open /\ current = open[Len(open)].phase
                             /\ current \in DOMAIN node /\ current = Top.phase
<1>1. Len(open) \in Nat /\ DOMAIN open = 1 .. Len(open) /\ open \in Seq([phase : Nat, at : Nat])
      /\ DOMAIN node = 1 .. Len(node) /\ Len(node) \in Nat
  BY InvFacts, Zenon
<1>2. CASE open = <<>>
  BY <1>2, Zenon DEF PathInv
<1>3. CASE open # <<>>
  <2>1. Len(open) # 0 /\ Len(open) \in DOMAIN open
    BY <1>1, <1>3
  <2>2. current = open[Len(open)].phase /\ current = Top.phase
    BY <1>3, Zenon DEF PathInv, Top
  <2>3. current \in DOMAIN node
    BY <2>1, <2>2, Zenon DEF PhaseInv, PathOK
  <2> QED
    BY <1>1, <2>1, <2>2, <2>3 DEF NULL
<1> QED
  BY <1>2, <1>3, Zenon

\* The phase of a CD that begins.
LEMMA BegunPhase ==
  ASSUME PhaseInv, PathInv, SingleWords, NEW g, NEW label, BeginStep(g, label)
  PROVE  /\ SamePhases(g.nodes, node') /\ PathTree(node') /\ KeyMap(node', phasePath')
         /\ node'[g.phase].level = Len(open) /\ node'[g.phase].parent = current
         /\ node'[g.phase].path = IF current = NULL THEN label ELSE node[current].path \o label
<1>1. /\ IsTree(g.nodes) /\ SamePhases(g.nodes, node') /\ g.phase \in DOMAIN g.nodes
      /\ phasePath' = g.paths
      /\ OldPhase(g, label) \/ \E x : NewPhase(g, x, Len(open), label)
      /\ IF Len(open) = 0 THEN label = Root ELSE label \in Labels
  BY Zenon DEF BeginStep, Marked, SamePhases
<1>2. /\ PathTree(g.nodes) /\ KeyMap(g.nodes, g.paths)
      /\ g.nodes[g.phase].level = Len(open) /\ g.nodes[g.phase].parent = current
      /\ g.nodes[g.phase].path = IF current = NULL THEN label ELSE node[current].path \o label
  <2>1. CASE OldPhase(g, label)
    <3>1. SamePhases(node, g.nodes) /\ g.paths = phasePath /\ g.phase \in DOMAIN node
      BY <2>1, Zenon DEF OldPhase, Kept
    <3>2. PathTree(g.nodes) /\ KeyMap(g.nodes, g.paths)
      BY <3>1, InvFacts, SamePaths, Zenon DEF PathInv
    <3>3. /\ node[g.phase].level = Len(open) /\ node[g.phase].parent = current
          /\ node[g.phase].path = IF current = NULL THEN label ELSE node[current].path \o label
      <4>1. CASE current = NULL
        <5>1. Len(open) = 0 /\ label = Root /\ g.phase = 1
          BY <1>1, <2>1, <4>1, CurrentFacts, Zenon DEF OldPhase
        <5>2. node[1].parent = NULL /\ node[1].path = Root /\ Len(node[1].path) = node[1].level + 1
              /\ node[1].level \in Nat
          <6>1. 1 \in DOMAIN node
            BY <3>1, <5>1, Zenon
          <6>2. node[1].level \in Nat
            BY <6>1, InvFacts, PhaseFields
          <6> QED
            BY <6>1, <6>2, Zenon DEF PathInv, PathTree
        <5>3. Len(Root) = 1
          BY Zenon DEF Root
        <5>4. node[1].level = 0
          BY <5>2, <5>3, SMTT(30)
        <5> QED
          BY <4>1, <5>1, <5>2, <5>4, Zenon
      <4>2. CASE current # NULL
        <5>1. label \in Labels
          BY <1>1, <4>2, CurrentFacts, Zenon
        <5>2. GetPhasePath(label) \in DOMAIN phasePath /\ g.phase = phasePath[GetPhasePath(label)]
          BY <2>1, <4>2, Zenon DEF OldPhase
        <5>3. node[g.phase].path = node[current].path \o label
          BY <4>2, <5>1, <5>2, KeyIsPath, Zenon DEF PathInv, KeyMap
        <5> QED
          BY <3>1, <4>2, <5>1, <5>3, ChildOfCurrent, Zenon
      <4> QED
        BY <4>1, <4>2, Zenon
    <3> QED
      BY <3>1, <3>2, <3>3, Zenon DEF SamePhases
  <2>2. ASSUME NEW x, NewPhase(g, x, Len(open), label)
        PROVE  /\ PathTree(g.nodes) /\ KeyMap(g.nodes, g.paths)
               /\ g.nodes[g.phase].level = Len(open) /\ g.nodes[g.phase].parent = current
               /\ g.nodes[g.phase].path
                    = IF current = NULL THEN label ELSE node[current].path \o label
    <3>1. PathTree(g.nodes) /\ KeyMap(g.nodes, g.paths)
      BY <1>1, <2>2, NewPath, Zenon
    <3>2. PICK s : IsNew(x, Len(open), label, s)
      BY <2>2, Zenon DEF NewPhase
    <3>3. g.nodes = Append(node, x) /\ g.phase = Len(node) + 1
      BY <2>2, Zenon DEF NewPhase
    <3>4. g.nodes[g.phase] = x
      BY <3>2, <3>3, InvFacts, AppendNode DEF PhaseInv, TreeOK
    <3> QED
      BY <3>1, <3>2, <3>4, Zenon DEF IsNew
  <2> QED
    BY <1>1, <2>1, <2>2, Zenon
<1>3. PathTree(node') /\ KeyMap(node', phasePath')
  BY <1>1, <1>2, SamePaths, Zenon
<1> QED
  BY <1>1, <1>2, <1>3, Zenon DEF SamePhases

\* GetCDToRecover, which follows parent_, goes through the phases of the CD path.
LEMMA ClimbsThePath ==
  ASSUME LeastNumber, PhaseInv, PathInv, Len(open) > 0, NEW r \in 0 .. Level, NEW c, Climbs(c, r)
  PROVE  \A l \in r .. Level : c[l] = open[l + 1].phase
<1> DEFINE T == {l \in r .. Level : c[l] = open[l + 1].phase}
<1>1. Level = Len(open) - 1 /\ Len(open) \in Nat /\ DOMAIN open = 1 .. Len(open) /\ Level \in Int
  BY InvFacts, Zenon
<1>2. /\ c[Level] = current
      /\ \A l \in r .. Level - 1 : c[l] = IF c[l + 1] = NULL THEN NULL ELSE node[c[l + 1]].parent
  BY Zenon DEF Climbs
<1>3. Level \in T
  <2>1. current = open[Len(open)].phase /\ Level + 1 = Len(open) /\ Level \in r .. Level
    BY <1>1, CurrentFacts
  <2> QED
    BY <1>2, <2>1, Zenon
<1>4. ASSUME NEW l \in r .. Level - 1, l + 1 \in T
      PROVE  l \in T
  <2>1. c[l + 1] = open[l + 2].phase /\ l + 2 \in DOMAIN open /\ l \in r .. Level /\ l + 1 + 1 = l + 2
        /\ l + 2 # 1 /\ l + 2 - 1 = l + 1
    BY <1>1, <1>4
  <2>2. open[l + 2].phase \in DOMAIN node
    BY <2>1, Zenon DEF PhaseInv, PathOK
  <2>3. open[l + 2].phase # NULL
    <3>1. DOMAIN node = 1 .. Len(node) /\ Len(node) \in Nat
      BY InvFacts, Zenon
    <3> QED
      BY <2>2, <3>1 DEF NULL
  <2>4. node[open[l + 2].phase].parent = open[l + 1].phase
    BY <2>1 DEF PathInv, OnPath
  <2>5. c[l] = open[l + 1].phase
    BY <1>2, <2>1, <2>3, <2>4, Zenon
  <2> QED
    BY <2>1, <2>5, Zenon
<1> HIDE DEF T
<1>5. \A l \in r .. Level : l \in T
  <2>1. r \in Int /\ \A l \in r .. Level - 1 : l + 1 \in T => l \in T
    BY <1>1, <1>4
  <2> QED
    BY <1>1, <1>3, <2>1, DownwardInduction, Zenon
<1> QED
  BY <1>5, Zenon DEF T

----------------------------------------------------------------------------
(* The failure point                                                        *)

\* The phase that failed is marked, and its ids are not past the failure point.
FailInv ==
  IsFailed => node[failed_phase].state = kReexecution /\ node[failed_phase].seq_end <= failed_seqID

\* The invariant of a task whose labels are single words.
TaskInv == PhaseInv /\ PathInv /\ FailInv

\* Every call keeps the three parts of the invariant together.
LEMMA TaskInvStep ==
  LeastNumber /\ SingleWords /\ TaskInv /\ Next => TaskInv'

\* A Begin enters the phase whose path extends that of the open CDs by its label.
<0>BeginKeepsPath.
  ASSUME PhaseInv, PathInv, SingleWords, NEW g, NEW label, BeginStep(g, label)
  PROVE  PathInv'
  <1> USE <0>BeginKeepsPath
  <1>1. /\ PathTree(node') /\ KeyMap(node', phasePath')
        /\ node'[g.phase].level = Len(open) /\ node'[g.phase].parent = current
    BY BegunPhase, Zenon
  <1>2. /\ open' = Append(open, [phase |-> g.phase, at |-> ip]) /\ current' = g.phase
        /\ Grown(node, node')
    BY Zenon DEF BeginStep
  <1>3. open \in Seq([phase : Nat, at : Nat]) /\ Len(open) \in Nat /\ DOMAIN open = 1 .. Len(open)
    BY InvFacts, Zenon
  <1>5. /\ Len(open') = Len(open) + 1 /\ open'[Len(open) + 1].phase = g.phase
        /\ \A l \in 1 .. Len(open) : open'[l] = open[l]
        /\ DOMAIN open' = 1 .. Len(open) + 1
    <2> DEFINE e == [phase |-> g.phase, at |-> ip]
    <2>1. open' = Append(open, e) /\ e.phase = g.phase
      BY <1>2, Zenon
    <2> HIDE DEF e
    <2> QED
      BY <1>3, <2>1
  <1>6. OnPath(node', open')
    <2> SUFFICES ASSUME NEW l \in 1 .. Len(open) + 1
                 PROVE  /\ node'[open'[l].phase].level = l - 1
                        /\ node'[open'[l].phase].parent = IF l = 1 THEN NULL ELSE open'[l - 1].phase
      BY <1>5, Zenon DEF OnPath
    <2>1. CASE l \in 1 .. Len(open)
      <3>1. open'[l] = open[l] /\ (l # 1 => open'[l - 1] = open[l - 1])
        <4>1. l # 1 => l - 1 \in 1 .. Len(open)
          BY <1>3, <2>1
        <4>2. \A i \in 1 .. Len(open) : open'[i] = open[i]
          BY <1>5, Zenon
        <4> QED
          BY <2>1, <4>1, <4>2, Zenon
      <3>2. /\ node[open[l].phase].level = l - 1
            /\ node[open[l].phase].parent = IF l = 1 THEN NULL ELSE open[l - 1].phase
            /\ open[l].phase \in DOMAIN node
        BY <1>3, <2>1, Zenon DEF PathInv, OnPath, PhaseInv, PathOK
      <3>3. /\ node'[open[l].phase].level = node[open[l].phase].level
            /\ node'[open[l].phase].parent = node[open[l].phase].parent
        BY <1>2, <3>2, Zenon DEF Grown
      <3> QED
        BY <3>1, <3>2, <3>3, Zenon
    <2>2. CASE l = Len(open) + 1
      <3>1. open'[l].phase = g.phase /\ l - 1 = Len(open)
        BY <1>3, <1>5, <2>2, SMTT(30)
      <3>2. CASE Len(open) = 0
        BY <1>1, <1>3, <2>2, <3>1, <3>2, CurrentFacts
      <3>3. CASE Len(open) # 0
        <4>1. open'[l - 1] = open[Len(open)] /\ l # 1
          BY <1>3, <1>5, <2>2, <3>1, <3>3
        <4> QED
          BY <1>1, <3>1, <3>3, <4>1, CurrentFacts, Zenon
      <3> QED
        BY <3>2, <3>3, Zenon
    <2> QED
      BY <1>3, <2>1, <2>2
  <1>7. current' = (IF open = <<>> THEN NULL ELSE Top.phase)'
    <2>1. open' # <<>>
      BY <1>3, <1>5
    <2> QED
      BY <1>2, <1>5, <2>1, Zenon DEF Top
  <1> QED
    BY <1>1, <1>6, <1>7, Zenon DEF PathInv, PathTree, KeyMap, OnPath, NULL, FullPath, Root

\* The CD path gets shorter: the current phase is the parent of the first phase that leaves it.
<0>ShorterKeepsPath.
  ASSUME PhaseInv, PathInv, SamePhases(node, node'), phasePath' = phasePath,
         NEW k \in 0 .. Len(open) - 1, open' = SubSeq(open, 1, k),
         current' = node[open[k + 1].phase].parent
  PROVE  PathInv'
  <1> USE <0>ShorterKeepsPath
  <1>1. PathTree(node') /\ KeyMap(node', phasePath')
    BY InvFacts, SamePaths, Zenon DEF PathInv
  <1>2. Len(open) \in Nat /\ DOMAIN open = 1 .. Len(open)
    BY InvFacts, Zenon
  <1>3. k \in 0 .. Len(open) /\ k + 1 \in DOMAIN open
    BY <1>2
  <1>4. /\ open' \in Seq([phase : Nat, at : Nat]) /\ Len(open') = k
        /\ \A l \in 1 .. k : open'[l] = open[l]
    BY <1>3, ShorterPath, Zenon
  <1>5. DOMAIN open' = 1 .. k
    BY <1>4
  <1>6. OnPath(node', open')
    <2> SUFFICES ASSUME NEW l \in 1 .. k
                 PROVE  /\ node'[open'[l].phase].level = l - 1
                        /\ node'[open'[l].phase].parent = IF l = 1 THEN NULL ELSE open'[l - 1].phase
      BY <1>5, Zenon DEF OnPath
    <2>1. l \in DOMAIN open /\ open'[l] = open[l] /\ (l # 1 => open'[l - 1] = open[l - 1])
      BY <1>2, <1>4
    <2>2. /\ node[open[l].phase].level = l - 1
          /\ node[open[l].phase].parent = IF l = 1 THEN NULL ELSE open[l - 1].phase
          /\ open[l].phase \in DOMAIN node
      BY <2>1, Zenon DEF PathInv, OnPath, PhaseInv, PathOK
    <2>3. /\ node'[open[l].phase].level = node[open[l].phase].level
          /\ node'[open[l].phase].parent = node[open[l].phase].parent
      BY <2>2, Zenon DEF SamePhases
    <2> QED
      BY <2>1, <2>2, <2>3, Zenon
  <1>7. current' = (IF open = <<>> THEN NULL ELSE Top.phase)'
    <2>1. node[open[k + 1].phase].parent = IF k + 1 = 1 THEN NULL ELSE open[k + 1 - 1].phase
      BY <1>3, SMTT(30) DEF PathInv, OnPath
    <2>2. CASE k = 0
      <3>1. open' = <<>>
        BY <1>4, <2>2
      <3> QED
        BY <2>1, <2>2, <3>1
    <2>3. CASE k # 0
      <3>1. open' # <<>> /\ k \in 1 .. k /\ k + 1 # 1 /\ k + 1 - 1 = k
        BY <1>4, <2>3
      <3>2. open'[Len(open')].phase = open[k].phase
        BY <1>4, <3>1, Zenon
      <3> QED
        BY <2>1, <3>1, <3>2, Zenon DEF Top
    <2> QED
      BY <2>2, <2>3, Zenon
  <1> QED
    BY <1>1, <1>6, <1>7, Zenon DEF PathInv, PathTree, KeyMap, OnPath, NULL, FullPath, Root

\* A Complete returns to the phase of the remaining open CDs.
<0>CompleteKeepsPath.
  ASSUME PhaseInv, PathInv, NEW n, CompleteStep(n)
  PROVE  PathInv'
  <1> USE <0>CompleteKeepsPath
  <1>1. /\ Len(open) > 0 /\ open' = SubSeq(open, 1, Level) /\ current' = node[current].parent
        /\ phasePath' = phasePath /\ SamePhases(node, node')
    BY DEF CompleteStep, Completed, Kept, SamePhases
  <1>2. Level = Len(open) - 1 /\ Len(open) \in Nat /\ Level \in 0 .. Len(open) - 1 /\ Level + 1 = Len(open)
    BY <1>1, InvFacts
  <1>3. current = open[Level + 1].phase
    BY <1>1, <1>2, CurrentFacts
  <1> QED
    BY <1>1, <1>2, <1>3, <0>ShorterKeepsPath, Zenon

\* A rollback returns to the phase of the CDs that stay open.
<0>RollbackKeepsPath.
  ASSUME LeastNumber, PhaseInv, PathInv, NEW r, NEW c, RollbackStep(r, c)
  PROVE  PathInv'
  <1> USE <0>RollbackKeepsPath
  <1>1. /\ Len(open) > 0 /\ open' = SubSeq(open, 1, r) /\ current' = node[c[r]].parent
        /\ phasePath' = phasePath /\ SamePhases(node, node') /\ r \in 0 .. Level /\ Climbs(c, r)
    BY Zenon DEF RollbackStep, RolledBack
  <1>2. Level = Len(open) - 1 /\ Len(open) \in Nat /\ r \in 0 .. Len(open) - 1 /\ r \in r .. Level
    BY <1>1, InvFacts
  <1>3. c[r] = open[r + 1].phase
    BY <1>1, <1>2, ClimbsThePath, Zenon
  <1> QED
    BY <1>1, <1>2, <1>3, <0>ShorterKeepsPath, Zenon

\* Begin keeps the mark and does not raise the ids.
<0>BeginKeepsFail.
  ASSUME PhaseInv, FailInv, NEW g, NEW label, BeginStep(g, label)
  PROVE  FailInv'
  <1> USE <0>BeginKeepsFail
  <1> SUFFICES ASSUME IsFailed'
               PROVE  /\ node'[failed_phase].state = kReexecution
                      /\ node'[failed_phase].seq_end <= failed_seqID /\ UNCHANGED <<failed_phase, failed_seqID>>
    BY Zenon DEF FailInv
  <1> DEFINE f == failed_phase
  <1>1. UNCHANGED <<failed_phase, failed_seqID>> /\ IsFailed
    BY Zenon DEF BeginStep, IsFailed, IsGood
  <1>2. f \in DOMAIN node /\ failed_seqID \in Nat
        /\ node[f].state = kReexecution /\ node[f].seq_end <= failed_seqID
    BY <1>1, Zenon DEF FailInv, PhaseInv, PointOK
  <1>3. node'[f].state = kReexecution
    <2>1. f \in DOMAIN g.nodes /\ g.nodes[f].state = kReexecution
      <3>1. CASE OldPhase(g, label)
        BY <1>2, <3>1, Zenon DEF OldPhase, Kept, SamePhases
      <3>2. ASSUME NEW x, NewPhase(g, x, Len(open), label)
            PROVE  f \in DOMAIN g.nodes /\ g.nodes[f].state = kReexecution
        <4>1. g.nodes = Append(node, x) /\ node \in Seq(Phases) /\ Len(node) \in Nat
              /\ DOMAIN node = 1 .. Len(node)
          BY <3>2, InvFacts, Zenon DEF NewPhase
        <4> QED
          BY <1>2, <4>1
      <3> QED
        BY <3>1, <3>2, Zenon DEF BeginStep
    <2>2. node' = g.nodes \/ Marked(g.nodes, node', g.phase)
      BY Zenon DEF BeginStep
    <2> QED
      BY <2>1, <2>2, Zenon DEF Marked
  <1>4. node'[f].seq_end <= node[f].seq_end
    BY <1>2, Zenon DEF BeginStep, Grown
  <1>5. node'[f].seq_end \in Nat /\ node[f].seq_end \in Nat
    <2>1. IsTree(node) /\ IsTree(node') /\ f \in DOMAIN node'
      BY <1>2, InvFacts, Zenon DEF BeginStep, Grown
    <2>2. node[f] \in Phases /\ node'[f] \in Phases
      BY <1>2, <2>1 DEF IsTree
    <2> QED
      BY <2>2, PhaseFields, Zenon
  <1> QED
    BY <1>1, <1>2, <1>3, <1>4, <1>5

\* A Complete before the failure point leaves the failed phase marked and its ids at most at that point.
<0>CompleteKeepsFail.
  ASSUME PhaseInv, FailInv, NEW n, CompleteStep(n)
  PROVE  FailInv'
  <1> USE <0>CompleteKeepsFail
  <1> SUFFICES ASSUME IsFailed' PROVE FailInv'
    BY Zenon DEF FailInv
  <1>1. ~AtFailurePoint
    BY Zenon DEF CompleteStep, IsFailed, IsGood
  <1>2. UNCHANGED <<failed_phase, failed_seqID>> /\ IsFailed /\ n = node
    BY <1>1, Zenon DEF CompleteStep, IsFailed, IsGood
  <1>3. ~(IsGood \/ AtFailurePoint)
    BY <1>1, <1>2, Zenon DEF IsFailed
  <1>4. Completed(node, node', current, FALSE)
    BY <1>2, <1>3, Zenon DEF CompleteStep
  <1>5. failed_phase \in DOMAIN node
    BY <1>2, Zenon DEF PhaseInv, PointOK
  <1>6. /\ node'[failed_phase].state \in {kReexecution, node[failed_phase].state}
        /\ node'[failed_phase].seq_end = node[failed_phase].seq_end
    BY <1>4, <1>5, Zenon DEF Completed
  <1> QED
    BY <1>2, <1>6, Zenon DEF FailInv

\* A rollback marks the failed phase, whose ids are then at most at the failure point.
<0>RollbackKeepsFail.
  ASSUME PhaseInv, PathInv, FailInv, NEW r, NEW c, RollbackStep(r, c)
  PROVE  FailInv'
  <1> USE <0>RollbackKeepsFail
  <1>1. RolledBack(node, node', c, r) /\ Climbs(c, r) /\ \A l \in r .. Level : c[l] \in DOMAIN node
    BY Zenon DEF RollbackStep
  <1>2. \A q \in DOMAIN node :
          /\ node'[q].state \in {kReexecution, node[q].state}
          /\ node'[q].seq_end \in {node[q].seq_begin, node[q].seq_end}
    BY <1>1, Zenon DEF RolledBack
  <1>3. \A q \in DOMAIN node : /\ node[q].seq_begin \in Nat /\ node[q].seq_end \in Nat
                               /\ node[q].seq_begin <= node[q].seq_end
    BY InvFacts, PhaseFields DEF Ordered
  <1>4. Len(open) > 0 /\ r \in 0 .. Level /\ Level \in Int
    BY InvFacts, Zenon DEF RollbackStep
  <1>5. CASE IsGood
    <2>1. failed_phase' = Top.phase /\ failed_seqID' = node[current].seq_end
      BY <1>5, Zenon DEF RollbackStep
    <2>2. current = Top.phase /\ current \in DOMAIN node /\ c[Level] = current
      BY <1>1, <1>4, InvFacts, CurrentFacts DEF Climbs
    <2>3. DOMAIN c = r .. Level /\ Level \in DOMAIN c
      BY <1>1, <1>4 DEF Climbs
    <2>4. node'[current].state = kReexecution
      BY <1>1, <2>2, <2>3, Zenon DEF RolledBack
    <2>5. node'[current].seq_end <= node[current].seq_end
      BY <1>2, <1>3, <2>2
    <2> QED
      BY <2>1, <2>2, <2>4, <2>5, Zenon DEF FailInv
  <1>6. CASE ~IsGood
    <2>1. UNCHANGED <<failed_phase, failed_seqID>> /\ IsFailed
      BY <1>6, Zenon DEF RollbackStep, IsFailed
    <2>2. failed_phase \in DOMAIN node /\ failed_seqID \in Nat
          /\ node[failed_phase].state = kReexecution /\ node[failed_phase].seq_end <= failed_seqID
      BY <2>1, Zenon DEF PhaseInv, PointOK, FailInv
    <2>3. node'[failed_phase].state = kReexecution
      BY <1>2, <2>2, Zenon
    <2>4. node'[failed_phase].seq_end <= failed_seqID
      BY <1>2, <1>3, <2>2
    <2> QED
      BY <2>1, <2>3, <2>4, Zenon DEF FailInv
  <1> QED
    BY <1>5, <1>6, Zenon
<0> QED
  <1> SUFFICES ASSUME LeastNumber, SingleWords, TaskInv, Next
               PROVE  TaskInv'
    BY Zenon
  <1>1. PhaseInv /\ PathInv /\ FailInv
    BY Zenon DEF TaskInv
  <1>2. PhaseInv'
    BY <1>1, PhaseInvStep, Zenon
  <1>3. ASSUME NEW g, NEW label, BeginStep(g, label)
        PROVE  PathInv' /\ FailInv'
    BY <1>1, <1>3, <0>BeginKeepsPath, <0>BeginKeepsFail, Zenon
  <1>4. ASSUME NEW n, CompleteStep(n)
        PROVE  PathInv' /\ FailInv'
    BY <1>1, <1>4, <0>CompleteKeepsPath, <0>CompleteKeepsFail, Zenon
  <1>5. ASSUME NEW r, NEW c, RollbackStep(r, c)
        PROVE  PathInv' /\ FailInv'
    BY <1>1, <1>5, <0>RollbackKeepsPath, <0>RollbackKeepsFail, Zenon
  <1>6. ASSUME NEW c \in Calls, StopStep(c)
        PROVE  PathInv' /\ FailInv'
    <2>1. UNCHANGED <<node, phasePath, current, open, failed_phase, failed_seqID>>
      BY <1>6, Zenon DEF StopStep
    <2>2. PathInv'
      BY <1>1, <2>1, ZenonT(30) DEF PathInv, PathTree, KeyMap, OnPath, FullPath, Root, Top, NULL
    <2>3. FailInv'
      BY <1>1, <2>1, Zenon DEF FailInv, IsFailed, IsGood
    <2> QED
      BY <2>2, <2>3, Zenon
  <1> QED
    BY <1>1, <1>2, <1>3, <1>4, <1>5, <1>6, StepIs, Zenon DEF TaskInv
=============================================================================
