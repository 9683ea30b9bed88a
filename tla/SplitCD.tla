------------------------------ MODULE SplitCD ------------------------------
(***************************************************************************)
(* How the tasks of a CD are dealt out to its children: the two functions  *)
(* the library has for it, SplitCD_1D and SplitCD_3D, the task that is the *)
(* head of a new CD and the name the new CD gets.                          *)
(*                                                                         *)
(* A split gives a task a color (the child it goes to) and a task number   *)
(* (its place in the child).  It is a deal if it fills the same number of  *)
(* places in every child, each with one task.                              *)
(***************************************************************************)
EXTENDS Integers

\* Mutant: a remainder is not refused.
SplitsAnyhow(size, num) ==
  num > 0 /\ size >= num

\* What ERROR_MESSAGE lets through.
Splits1D(size, num) ==
  num > 0 /\ size % num = 0

SplitCD_1D(id, size, num) ==
  LET new_size == size \div num
  IN  [color |-> id \div new_size, task |-> id % new_size]

Cube(n) == n * n * n

\* round(pow(n, 1/3.))
CubeRoot(n) ==
  CHOOSE r \in 0 .. n : Cube(2 * r - 1) <= 8 * n /\ 8 * n < Cube(2 * r + 1)

\* The assertions of SplitCD_3D.
Splits3D(size, num) ==
  /\ num > 0
  /\ CubeRoot(size) \in Nat /\ CubeRoot(num) \in Nat
  /\ LET num_x == CubeRoot(size)
         num_children_x == CubeRoot(num)
         new_num_x == num_x \div num_children_x
     IN  /\ Cube(num_x) = size /\ Cube(num_children_x) = num
         /\ new_num_x # 0 /\ Cube(new_num_x) = size \div num

\* The number of a place in a cube of side nx.
Place(x, y, z, nx) == x + y * nx + z * nx * nx

\* X, Y and Z of a task number, in a cube of side nx.
XYZ(id, nx) ==
  [X |-> (id % (nx * nx)) % nx, Y |-> (id % (nx * nx)) \div nx, Z |-> id \div (nx * nx)]

\* Mutant: x and y change places in the task number.
SplitCD_3DTurned(id, size, num) ==
  LET n == CubeRoot(size) \div CubeRoot(num)
      p == XYZ(id, CubeRoot(size))
  IN  [color |-> Place(p.X \div n, p.Y \div n, p.Z \div n, CubeRoot(num)),
       task |-> Place(p.Y % n, p.X % n, p.Z % n, n)]

SplitCD_3D(id, size, num) ==
  LET n == CubeRoot(size) \div CubeRoot(num)
      p == XYZ(id, CubeRoot(size))
  IN  [color |-> Place(p.X \div n, p.Y \div n, p.Z \div n, CubeRoot(num)),
       task |-> Place(p.X % n, p.Y % n, p.Z % n, n)]

\* Mutant: the level itself is taken.
SelectHeadByLevel(level, task_size) ==
  level + 1

\* CDHandle::SelectHead of a CD at this level, for children of task_size tasks.
SelectHead(level, task_size) ==
  (level + 1) % task_size

\* Mutant: the children of the parents before it are not skipped.
RankAmongSiblings(parent_rank, num_children, color) ==
  parent_rank + color

\* CDNameT of a child: its rank among the CDs of its level.
RankInLevel(parent_rank, num_children, color) ==
  num_children * parent_rank + color

\* The split of 0 .. size - 1 puts one task in each of m places of num children.
IsDeal(split, size, num, m) ==
  /\ \A i \in 0 .. size - 1 : split[i].color \in 0 .. num - 1 /\ split[i].task \in 0 .. m - 1
  /\ \A i, j \in 0 .. size - 1 :
       split[i].color = split[j].color /\ split[i].task = split[j].task => i = j
  /\ \A c \in 0 .. num - 1, r \in 0 .. m - 1 :
       \E i \in 0 .. size - 1 : split[i].color = c /\ split[i].task = r
=============================================================================
