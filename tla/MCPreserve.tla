----------------------------- MODULE MCPreserve -----------------------------
(***************************************************************************)
(* Instances of Preserve for TLC: the applications.                        *)
(***************************************************************************)
EXTENDS Preserve

Call(o, l) == <<[op |-> o, lv |-> l]>>
Copy(l, v) == <<[op |-> "preserve", lv |-> l, data |-> v, name |-> v, ref |-> v, how |-> "kCopy"]>>
Ref(l, v) == <<[op |-> "preserve", lv |-> l, data |-> v, name |-> v, ref |-> v, how |-> "kRef"]>>
Out(l, v, n) ==
  <<[op |-> "preserve", lv |-> l, data |-> v, name |-> n, ref |-> n, how |-> "kOutput"]>>
RefOf(l, v, n, r) ==
  <<[op |-> "preserve", lv |-> l, data |-> v, name |-> n, ref |-> r, how |-> "kRef"]>>
Use(v) == <<[op |-> "compute", data |-> v]>>

AppOf(calls, medium, size, a, b) ==
  [calls |-> calls, medium |-> medium, size |-> size, len |-> [A |-> a, B |-> b], errors |-> 3]

\* One CD, twice, that preserves its data between its computations.
Sequential ==
  Call("begin", 0) \o Copy(0, "A") \o Use("A") \o Copy(0, "B") \o Use("B")
  \o Out(0, "B", "Bout") \o Use("A") \o Call("complete", 0)
  \o Call("begin", 0) \o Copy(0, "B") \o Out(0, "B", "Bin") \o Copy(0, "A") \o Use("A") \o Use("B")
  \o Call("complete", 0)

\* A child that is begun twice and created twice, with copies and references.
Nested ==
  Call("begin", 0) \o Copy(0, "A") \o Copy(0, "B") \o Call("create", 0)
  \o Call("begin", 1) \o Copy(1, "A") \o Ref(1, "B") \o Use("A") \o Use("B") \o Call("complete", 1)
  \o Call("begin", 1) \o Copy(1, "B") \o Use("B") \o Call("complete", 1)
  \o Call("destroy", 1) \o Use("A") \o Call("create", 0)
  \o Call("begin", 1) \o Copy(1, "A") \o Copy(1, "B") \o Use("B") \o Use("A")
  \o Call("complete", 1) \o Call("destroy", 1) \o Call("complete", 0)

\* A child that refers to an output of its parent, and copies what it finds no entry of.
Output ==
  Call("begin", 0) \o Copy(0, "A") \o Copy(0, "B") \o Use("A") \o Out(0, "A", "Aout") \o Call("create", 0)
  \o Call("begin", 1) \o RefOf(1, "A", "A", "Aout") \o RefOf(1, "B", "B", "Bout") \o Use("A") \o Use("B")
  \o Call("complete", 1) \o Call("destroy", 1) \o Call("complete", 0)

\* Three levels: copies and references at each.
Deep ==
  Call("begin", 0) \o Copy(0, "A") \o Copy(0, "B") \o Call("create", 0)
  \o Call("begin", 1) \o Copy(1, "A") \o Ref(1, "B") \o Call("create", 1)
  \o Call("begin", 2) \o Ref(2, "A") \o Copy(2, "B") \o Use("A") \o Use("B")
  \o Call("complete", 2) \o Call("destroy", 2) \o Use("A") \o Call("complete", 1)
  \o Call("destroy", 1) \o Use("B") \o Call("complete", 0)

Disk == "kGlobalDisk"
DRAM == "kDRAM"

\* A table of two entries fills the chunk in which n bytes of data end.
TableFillsChunk(n) == n <= align_down(n + 2 * EntrySize)

\* Two data, in a file shared by a parent and a child.
SharedFile == {p \in (1 .. 5) \X (1 .. 5) : TableFillsChunk(p[1] + p[2])}

MCApps ==
  {AppOf(Sequential, <<m>>, 8, a, b) : m \in {Disk, DRAM}, a \in 1 .. 5, b \in {2, 3, 5, 9}}
  \union {AppOf(Nested, <<m, DRAM>>, 8, a, b) : m \in {Disk, DRAM}, a \in {1, 3}, b \in {2, 5}}
  \union {AppOf(Nested, <<m, Disk>>, 8, p[1], p[2]) : m \in {Disk, DRAM}, p \in SharedFile}
  \union {AppOf(Output, <<m, DRAM>>, 16, a, b) : m \in {Disk, DRAM}, a \in {2, 3}, b \in {1, 5}}
  \union {AppOf(Deep, <<m, DRAM, Disk>>, 8, p[1], p[2]) : m \in {Disk, DRAM}, p \in SharedFile}
  \union {AppOf(Deep, <<Disk, Disk, Disk>>, 8, p[1], p[2]) :
            p \in {q \in SharedFile : TableFillsChunk(q[1])}}

\* The data of the parent end in the chunk that the child takes for its own.
UnalignedApps == {AppOf(Nested, <<Disk, Disk>>, 8, 1, 4)}
=============================================================================
