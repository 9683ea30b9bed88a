------------------------------ MODULE MCShape ------------------------------
(***************************************************************************)
(* Instances of Shape for TLC: the jobs.                                   *)
(***************************************************************************)
EXTENDS Shape

Split(n, num, method) == [name |-> n, num |-> num, how |-> "Create", split |-> method]

\* The tasks of a CD of this size in turn, numbered from the last to the first.
Cyclic(n, num, size) ==
  [name |-> n, num |-> num, how |-> "CreateColored", split |-> "1D",
   place |-> [id \in 0 .. size - 1 |->
                [color |-> id % num, task |-> size \div num - 1 - id \div num]]]

MCJobs ==
  {[size |-> 6, depth |-> 2, busy |-> 2,
    calls |-> {Split("a", 2, "1D"), Split("b", 3, "1D"), Split("c", 1, "1D"), Split("d", 4, "1D")}],
   [size |-> 12, depth |-> 3, busy |-> 2,
    calls |-> {Split("a", 2, "1D"), Split("b", 3, "1D")}],
   [size |-> 4, depth |-> 2, busy |-> 4,
    calls |-> {Split("a", 2, "1D"), Cyclic("e", 2, 4)}],
   [size |-> 8, depth |-> 2, busy |-> 2,
    calls |-> {Split("f", 8, "3D"), Cyclic("e", 2, 8)}],
   [size |-> 64, depth |-> 2, busy |-> 1,
    calls |-> {Split("g", 8, "3D")}]}
=============================================================================
