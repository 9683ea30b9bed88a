------------------------------- MODULE Shape -------------------------------
(***************************************************************************)
(* The shape of the CD tree: which tasks are in a CD, their numbers in it, *)
(* its head and its name.  CDHandle::Create deals the tasks of the current *)
(* CD out to its children, and keeps every CD it makes in access_store_    *)
(* under the path of the phases it was created in.  The next Create of the *)
(* same path finds it there, skips MPI_Comm_split and takes the old CD.    *)
(*                                                                         *)
(* The tasks of a CD make the same calls.  A Create that splits is         *)
(* collective; one that reuses, and Destroy, are local to each task and    *)
(* touch nothing of another one, so the tasks of a CD take them together.  *)
(* A name stands for a call in the program: it always comes with the same  *)
(* arguments, and is the label of the phase.  Errors are not part of this  *)
(* module: the mailboxes a Create reads and writes are those of Rollback.  *)
(***************************************************************************)
EXTENDS SplitCD, Sequences, FiniteSets

CONSTANTS Jobs   \* size, depth, busy (how many CDs of a level go on) and calls:
                 \* name, num (children), how, split (the method), place

ASSUME JobsAssumption ==
  \A j \in Jobs :
    /\ j.size \in Nat \ {0}
    /\ \A c \in j.calls : /\ c.num \in Nat \ {0}
                          /\ c.split \in {"1D", "3D"} /\ c.how \in {"Create", "CreateColored"}
    /\ \A c, d \in j.calls : c.name = d.name => c = d

\* What the library leaves to its caller: the colors and numbers the caller
\* gives are a deal, and a cube of children fits into the cube of tasks.
ASSUME CallerAssumption ==
  \A j \in Jobs : \A c \in j.calls : \A n \in 1 .. j.size :
    /\ c.how = "CreateColored" /\ DOMAIN c.place = 0 .. n - 1 => IsDeal(c.place, n, c.num, n \div c.num)
    /\ c.how = "Create" /\ c.split = "3D" /\ Splits3D(n, c.num) => CubeRoot(n) % CubeRoot(c.num) = 0

VARIABLES job,    \* the job
          cur,    \* the path of each task: the names of the CDs it is in
          store   \* access_store_ of each task: a CD for each path it has been in

vars == <<job, cur, store>>

Task == 0 .. job.size - 1
Names == {c.name : c \in job.calls}
Level(path) == Len(path)

\* PMPI_Comm_split: the tasks of one color, numbered by key and then by old number.
SameColor(members, color, t) == {u \in members : color[u] = color[t]}
Before(mine, key, old, t) == {u \in mine : key[u] < key[t] \/ (key[u] = key[t] /\ old[u] < old[t])}

CommSplit(members, color, key, old) ==
  [t \in members |->
     LET mine == SameColor(members, color, t)
     IN  [color |-> mine, size |-> Cardinality(mine), task |-> Cardinality(Before(mine, key, old, t))]]

\* Mutant: the name alone is the key.
GetPhaseName(path) ==
  IF path = <<>> THEN path ELSE <<path[Len(path)]>>

\* PhaseNode::GetPhasePath: the key of access_store_ (the labels have no '_').
GetPhasePath(path) ==
  path

\* The CD of a task at a path.
CD(t, path) == store[t][GetPhasePath(path)]

\* CheckToReuseCD
CheckToReuseCD(t, path) == GetPhasePath(path) \in DOMAIN store[t]

CanSplit(parent, call) ==
  \/ call.how = "CreateColored" /\ DOMAIN call.place = 0 .. parent.size - 1
  \/ call.how = "Create" /\ call.num = 1
  \/ call.how = "Create" /\ parent.split = "1D" /\ Splits1D(parent.size, call.num)
  \/ call.how = "Create" /\ parent.split = "3D" /\ Splits3D(parent.size, call.num)

\* The color and the number in it of a task: SplitCD, or what the caller gives.
Placed(parent, call) ==
  IF call.how = "CreateColored" THEN call.place[parent.task]
  ELSE IF call.num = 1 THEN [color |-> 0, task |-> parent.task]
  ELSE IF parent.split = "1D" THEN SplitCD_1D(parent.task, parent.size, call.num)
  ELSE SplitCD_3D(parent.task, parent.size, call.num)

\* GenNewNodeID, CDNameT and InternalCreate of a CD that is not in access_store_.
NewCD(members, path, call) ==
  LET parent == [t \in members |-> CD(t, path)]
      placed == [t \in members |-> Placed(parent[t], call)]
      node == CommSplit(members, [t \in members |-> placed[t].color],
                        [t \in members |-> placed[t].task], [t \in members |-> parent[t].task])
  IN  [t \in members |->
         [color |-> node[t].color, size |-> node[t].size, task |-> node[t].task,
          head |-> SelectHead(Level(path), parent[t].size \div call.num),
          rank |-> RankInLevel(parent[t].rank, call.num, placed[t].color),
          siblings |-> call.num, split |-> "1D"]]
-----------------------------------------------------------------------------
Init ==
  /\ job \in Jobs
  /\ cur = [t \in Task |-> <<>>]
  /\ store = [t \in Task |-> [k \in {<<>>} |->
       [color |-> Task, size |-> job.size, task |-> t, head |-> 0, rank |-> 0,
        siblings |-> 1, split |-> "1D"]]]

\* The tasks of a CD that are all at the same point of the program, and not at its end.
Together(members, path) ==
  /\ {cur[t] : t \in members} = {path}
  /\ {CD(t, path).color : t \in members} = {members}
  /\ {CD(t, path).rank : t \in members} \subseteq 0 .. job.busy - 1

\* CDHandle::RegisterSplitMethod, when the next call needs the other method.
RegisterSplitMethod(members, path, method) ==
  /\ Together(members, path)
  /\ method \notin {CD(t, path).split : t \in members}
  /\ \E c \in job.calls : c.how = "Create" /\ c.split = method
  /\ store' = [t \in Task |->
       IF t \in members THEN [store[t] EXCEPT ![GetPhasePath(path)].split = method] ELSE store[t]]
  /\ UNCHANGED <<job, cur>>

Create(members, path, call) ==
  LET child == Append(path, call.name)
      made == NewCD(members, path, call)
  IN  /\ Together(members, path)
      /\ Level(path) < job.depth
      /\ call.how = "Create" => {CD(t, path).split : t \in members} = {call.split}
      /\ members \subseteq {t \in Task : CheckToReuseCD(t, path) /\ CanSplit(CD(t, path), call)}
      /\ store' = [t \in Task |->
           IF t \in members /\ ~CheckToReuseCD(t, child)
           THEN [k \in DOMAIN store[t] \union {GetPhasePath(child)} |->
                   IF k = GetPhasePath(child) THEN made[t] ELSE store[t][k]]
           ELSE store[t]]
      /\ cur' = [t \in Task |-> IF t \in members THEN child ELSE cur[t]]
      /\ UNCHANGED job

\* CDHandle::Destroy: the CD stays in access_store_.
Destroy(members, path) ==
  /\ Together(members, path)
  /\ path # <<>>
  /\ cur' = [t \in Task |-> IF t \in members THEN SubSeq(path, 1, Len(path) - 1) ELSE cur[t]]
  /\ UNCHANGED <<job, store>>

Next ==
  \E t \in Task :
    LET members == CD(t, cur[t]).color IN
    /\ {u \in members : u < t} = {}
    /\ \/ \E method \in {"1D", "3D"} : RegisterSplitMethod(members, cur[t], method)
       \/ \E call \in job.calls : Create(members, cur[t], call)
       \/ Destroy(members, cur[t])

Spec == Init /\ [][Next]_vars
-----------------------------------------------------------------------------
\* The types of the variables.
TypeOK ==
  /\ cur \in [Task -> Seq(Names)]
  /\ \A t \in Task : \A k \in DOMAIN store[t] :
       /\ k \in Seq(Names)
       /\ CD(t, k).color \subseteq Task /\ CD(t, k).size \in 1 .. job.size
       /\ CD(t, k).task \in 0 .. CD(t, k).size - 1
       /\ CD(t, k).head \in 0 .. CD(t, k).size - 1
       /\ CD(t, k).rank \in Nat /\ CD(t, k).siblings \in Nat

CallOf(path) == CHOOSE c \in job.calls : c.name = path[Len(path)]
Parent(path) == SubSeq(path, 1, Len(path) - 1)

\* Create(num_children) makes num_children CDs of the tasks of the current one:
\* every task goes to one of them and all are of the size size / num_children,
\* for which SelectHead chose a head.
ChildrenPartition ==
  \A t \in Task : \A k \in DOMAIN store[t] \ {<<>>} :
    LET parent == CD(t, Parent(k))
        children == {CD(u, k).color : u \in parent.color}
    IN  /\ UNION children = parent.color
        /\ \A c \in children : Cardinality(c) * CallOf(k).num = parent.size
        /\ \A c, d \in children : c = d \/ c \cap d = {}
        /\ Cardinality(children) = CallOf(k).num

\* The tasks of a CD, wherever they are in the program by now, hold the same
\* communicator, head and name for it under different numbers, and just one
\* of them is its head.
OneHead ==
  \A t \in Task : \A k \in DOMAIN store[t] :
    LET c == CD(t, k)
    IN  /\ \A u \in c.color : /\ k \in DOMAIN store[u]
                               /\ CD(u, k).color = c.color /\ CD(u, k).head = c.head
                               /\ CD(u, k).size = c.size /\ CD(u, k).rank = c.rank
        /\ {CD(u, k).task : u \in c.color} = 0 .. c.size - 1
        /\ Cardinality({u \in c.color : CD(u, k).task = CD(u, k).head}) = 1

\* A name tells the CDs of one phase of the program apart: two tasks have the
\* same rank_in_level at a path exactly if they are in the same CD there.
NamesAreUnique ==
  \A t, u \in Task : \A k \in DOMAIN store[t] \cap DOMAIN store[u] :
    CD(t, k).rank = CD(u, k).rank <=> CD(t, k).color = CD(u, k).color

\* The tasks of a CD agree whether a Create takes an old CD from access_store_
\* or calls MPI_Comm_split, for which it needs all of them.
ReuseAgrees ==
  \A t \in Task : \A u \in CD(t, cur[t]).color : \A c \in job.calls :
    cur[u] = cur[t] =>
      (CheckToReuseCD(t, Append(cur[t], c.name)) <=> CheckToReuseCD(u, Append(cur[u], c.name)))

AllSplit(path, method) ==
  \A i \in 1 .. Len(path) : \E c \in job.calls :
    c.name = path[i] /\ c.how = "Create" /\ (c.num = 1 \/ c.split = method)

\* The place of a number in a cube of side n.
Coordinates(id, n) == <<id % n, (id \div n) % n, id \div (n * n)>>

\* However deep they are, 1D splits leave the tasks of a CD consecutive and in
\* their order, and 3D splits of a cube leave them a cube, numbered the way
\* the tasks of the job are.
BlocksAreKept ==
  \A t \in Task : \A k \in DOMAIN store[t] : \A u \in CD(t, k).color :
    /\ AllSplit(k, "1D") => u - CD(u, k).task = t - CD(t, k).task
    /\ AllSplit(k, "3D") /\ Cube(CubeRoot(job.size)) = job.size =>
         LET side == CubeRoot(CD(t, k).size)
             Corner(v) == [i \in 1 .. 3 |-> Coordinates(v, CubeRoot(job.size))[i]
                                            - Coordinates(CD(v, k).task, side)[i]]
         IN  /\ Corner(t) = Corner(u)
             /\ \A i \in 1 .. 3 : Corner(t)[i] % side = 0
=============================================================================
