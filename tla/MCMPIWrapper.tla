---------------------------- MODULE MCMPIWrapper ----------------------------
(***************************************************************************)
(* Instances of MPIWrapper for TLC: the applications.                      *)
(***************************************************************************)
EXTENDS MPIWrapper

AppOf(ops, requests, labels, level, calls, rollbacks, relaxed, targets, allow) ==
  [ops |-> ops, requests |-> requests, labels |-> labels, level |-> level, calls |-> calls,
   fails |-> rollbacks, relaxed |-> relaxed, targets |-> targets, allow |-> allow]

EveryBlockingCall ==
  {"Send", "Ssend", "Rsend", "Bsend", "Barrier", "Recv", "Bcast", "Allgather", "Allgatherv",
   "Allreduce", "Alltoall", "Alltoallv", "Scatter", "Scatterv", "Reduce_scatter", "Scan",
   "Sendrecv", "Sendrecv_replace", "Gather", "Gatherv", "Reduce"}

\* Relaxed CDs nested in one another; the root is rolled back.
Nested == AppOf({"Send", "Recv", "Sendrecv"}, {}, {"A", "B"}, 2, 8, 2, {0, 1, 2}, {0}, {})

\* The error is found while children are begun.
Inside == AppOf({"Send", "Recv", "Sendrecv"}, {}, {"A", "B"}, 2, 8, 1, {0, 1, 2}, {0}, {"inside"})

\* Requests that are started in one CD and completed in it, in its parent or in its child.
Requested ==
  AppOf({"Isend", "Irecv", "Test", "Testall", "Testany", "Waitall", "Waitany", "Waitsome"},
        {1, 2}, {"A"}, 1, 6, 2, {0, 1}, {0}, {})

\* Every blocking call.
Flat == AppOf(EveryBlockingCall, {}, {}, 0, 4, 2, {0}, {0}, {})

\* Strict CDs that are rolled back with requests open.
Strict ==
  AppOf({"Isend", "Irecv", "Test", "Testany", "Testsome", "Wait", "Waitany", "Waitsome"},
        {1, 2}, {"A"}, 1, 6, 1, {}, {1}, {"open", "again", "earlytest"})

\* A receive is waited for with Waitall in a strict CD.
WaitallStrict == {AppOf({"Irecv", "Waitall"}, {1}, {}, 0, 4, 0, {}, {0}, {})}

Replayed == {Nested, Inside, Requested, Flat, Strict}
=============================================================================
