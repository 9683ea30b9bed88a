----------------------------- MODULE MPIWrapper -----------------------------
(***************************************************************************)
(* A task whose CDs may be relaxed: the MPI wrappers (cd_mpiwrapper.cc),   *)
(* which log what they do and replay it after a rollback, and the CD calls *)
(* that hand the logs up and down the CD path.                             *)
(*                                                                         *)
(* The application is any sequence of calls.  It is chosen as it runs and  *)
(* kept in prog; after a rollback it makes the same calls again, as long   *)
(* as every call returns what it returned before.  MPI is external: what a *)
(* receive brings is a new number, and a request may complete at any time. *)
(* The task's wait for a message that does not come is part of Wait.       *)
(***************************************************************************)
EXTENDS CommLog

CONSTANTS
  Apps,       \* the applications and when errors are found in them: see Application
  TypeSize,   \* MPI_Type_size of the payloads, in units of an int
  HandleSize  \* sizeof(MPI_Datatype), in units of an int

\* What an application may do, or when an error may be found, that some instances leave out:
\* an error while a child of the target is begun, an error while a request is open, or
\* while a replay has passed its start and not its completion, a request variable or the label
\* of a child that is used again, communication between the Create and the Begin of a child, a
\* test that finds nothing as the first call of a CD.
Habits == {"inside", "open", "midreplay", "again", "between", "earlytest"}

\* ops: the calls the application makes; requests: its request variables; labels: of its CDs
\* below the root; level, calls, fails: bounds of the CD path, the calls and the rollbacks;
\* relaxed: levels of the relaxed CDs; targets: levels a rollback may go to.
Application(a) ==
  /\ DOMAIN a = {"ops", "requests", "labels", "level", "calls", "fails", "relaxed", "targets", "allow"}
  /\ a.requests \subseteq Nat \ {0} /\ a.level \in Nat /\ a.calls \in Nat /\ a.fails \in Nat
  /\ a.relaxed \subseteq 0 .. a.level /\ a.targets \subseteq 0 .. a.level
  /\ a.allow \subseteq Habits

ASSUME WrapperAssumption ==
  /\ \A a \in Apps : Application(a)
  /\ TypeSize \in Nat \ {0, 1} /\ HandleSize \in Nat \ {0}

VARIABLES
  app,      \* the application that runs
  path,     \* the CD path; path[1] is the root
  begun,    \* the levels (plus one) that are begun: a prefix of the path
  mpi,      \* open: the requests MPI works on; left: receives that were tested and cancelled
            \* and may still bring a message; the buffers; the array of indices
  context,  \* what the longjmp to each begun CD restores: ip and live
  live,     \* requests the application has started and not completed
  prog,     \* the calls: what they returned at first and last, how often MPI was called
  ip,       \* the next call
  fails     \* rollbacks so far

vars == <<app, path, begun, mpi, context, live, prog, ip, fails>>

Ops      == app.ops
Requests == app.requests
Labels   == app.labels
MaxLevel == app.level
MaxCalls == app.calls
MaxFails == app.fails
Relaxed  == app.relaxed
Targets  == app.targets
Allow    == app.allow

Init ==
  /\ app \in Apps
  /\ path = <<NewCD(<<>>, "Root", 0 \in Relaxed)>>
  /\ begun = 0 /\ context = <<>>
  /\ mpi = [open |-> <<>>, left |-> {}, buf |-> [r \in Requests |-> NoData], indices |-> <<>>,
            next |-> 1]
  /\ live = <<>> /\ prog = <<>> /\ ip = 1 /\ fails = 0

----------------------------------------------------------------------------
(* What a wrapper works on: the path, MPI, what the call returns, which      *)
(* requests the application takes as completed, and how often MPI was        *)
(* called.  The current CD is the innermost one that is begun                *)
(* (CDPath::GetCurrentCD).                                                   *)

Here          == [path |-> path, mpi |-> mpi, out |-> <<>>, fin |-> {}, done |-> 0]
Cur(s)        == s.path[begun]
SetCur(s, cd) == [s EXCEPT !.path[begun] = cd]
Log(s, e)     == SetCur(s, LogData(Cur(s), e, FALSE))
Fail(s)       == SetCur(s, Stop(Cur(s), "abort"))
Called(s)     == [s EXCEPT !.done = 1]
Return(s, v)  == [s EXCEPT !.out = Append(@, v)]

\* The application takes request r as completed and looks at its buffer.
Give(s, r) ==
  LET t == [s EXCEPT !.fin = @ \cup {r}]
  IN  IF live[r] = "recv" THEN Return(t, s.mpi.buf[r]) ELSE t

\* The blocking part of a call: MPI delivers a message.
Receive(s) == Return([Called(s) EXCEPT !.mpi.next = @ + 1], s.mpi.next)

\* MPI starts to work on request r.
PMPI_Start(s, r, kind) ==
  [Called(s) EXCEPT !.mpi.open = [q \in DOMAIN @ \cup {r} |-> IF q = r THEN kind ELSE @[q]],
                    !.mpi.buf[r] = NoData]

\* MPI completes request r; a receive fills its buffer.
PMPI_Complete(s, r) ==
  IF r \notin DOMAIN s.mpi.open THEN s
  ELSE [s EXCEPT !.mpi = [@ EXCEPT
          !.open = [q \in DOMAIN s.mpi.open \ {r} |-> s.mpi.open[q]],
          !.buf[r] = IF s.mpi.open[r] = "recv" THEN s.mpi.next ELSE @,
          !.next = @ + 1]]

\* MPI completes all of the requests rs.
PMPI_Waitall(s, rs) == FoldLeft(PMPI_Complete, Called(s), rs)

\* CD::ProbeAndLogData for request r.
Finish(s, r) == [s EXCEPT !.path = ProbeAndLogData(@, begun, r, s.mpi.buf[r])]

\* ReadData and ProbeData of an entry of `length' bytes, whatever they return.
Read(s, length) ==
  LET p == ReadData(Cur(s), length) IN Return(SetCur(s, p.cd), p.data)
Skip(s, r) == SetCur(s, ProbeData(Cur(s), 0).cd)

\* The switch over GetCDLoggingMode that every wrapper has: a strict CD performs the call,
\* a relaxed one performs and records it, or replays it from its first entry on until the
\* end of the log turns the CD to logging.
Switch(s, p, Perform(_), Strict(_), Record(_), Replay(_)) ==
  LET t == SetCur(s, p.cd)
  IN  CASE Cur(s).logging = kStrictCD      -> Strict(Perform(s))
        [] Cur(s).logging = kRelaxedCDGen  -> Record(Perform(s))
        [] Cur(s).logging = kRelaxedCDRead ->
             IF p.ret = kCommLogFlip THEN Record(Perform(t)) ELSE Replay(t)

\* Switch looks at the first entry only when there is a log.
ReadFirst(s, length)  == IF Cur(s).relaxed THEN ReadData(Cur(s), length) ELSE Cur(s)
ProbeFirst(s) == IF Cur(s).relaxed THEN ProbeData(Cur(s), 0) ELSE Cur(s)

----------------------------------------------------------------------------
(* Blocking calls                                                           *)

Same(s) == s

\* A call that brings nothing: its entry has no bytes.
EventCall(s) ==
  Switch(s, ProbeFirst(s), Called, Same, LAMBDA t : Log(t, Event), Same)

\* A call that fills a buffer; `length' is the length the replay asks for.
DataCall(s, length) ==
  LET p == ReadFirst(s, length)
  IN  Switch(s, p, Receive, Same, LAMBDA t : Log(t, Data(TypeSize, Last(t.out))),
             LAMBDA t : Return(t, p.data))

\* A call that does both, in two entries.
ExchangeCall(s) ==
  LET p == ProbeFirst(s)
      Replay(t) == IF p.ret # kCommLogOK THEN t
                   ELSE IF ReadData(Cur(t), TypeSize).ret # kCommLogOK THEN Fail(t)
                   ELSE Read(t, TypeSize)
  IN  Switch(s, p, Receive, Same,
             LAMBDA t : Log(Log(t, Event), Data(TypeSize, Last(t.out))), Replay)

MPI_Send(s)    == EventCall(s)
MPI_Ssend(s)   == EventCall(s)
MPI_Rsend(s)   == EventCall(s)
MPI_Bsend(s)   == EventCall(s)
MPI_Barrier(s) == EventCall(s)

MPI_Recv(s)           == DataCall(s, TypeSize)
MPI_Bcast(s)          == DataCall(s, TypeSize)
MPI_Allgatherv(s)     == DataCall(s, TypeSize)
MPI_Allreduce(s)      == DataCall(s, TypeSize)
MPI_Alltoall(s)       == DataCall(s, TypeSize)
MPI_Alltoallv(s)      == DataCall(s, TypeSize)
MPI_Scatter(s)        == DataCall(s, TypeSize)
MPI_Scatterv(s)       == DataCall(s, TypeSize)
MPI_Reduce_scatter(s) == DataCall(s, TypeSize)
MPI_Scan(s)           == DataCall(s, TypeSize)

\* The replay asks for as many elements of the size of the handle of the type.
MPI_Allgather(s)      == DataCall(s, HandleSize)

\* At the root of the collective the result is logged, elsewhere the event.
MPI_Gather(s, root)  == IF root THEN DataCall(s, TypeSize) ELSE EventCall(s)
MPI_Gatherv(s, root) == IF root THEN DataCall(s, TypeSize) ELSE EventCall(s)
MPI_Reduce(s, root)  == IF root THEN DataCall(s, TypeSize) ELSE EventCall(s)

MPI_Sendrecv(s)         == ExchangeCall(s)
MPI_Sendrecv_replace(s) == ExchangeCall(s)

----------------------------------------------------------------------------
(* Nonblocking calls                                                        *)

\* A request of a strict CD is only remembered.
Remember(s, r, isrecv) ==
  SetCur(s, [Cur(s) EXCEPT !.incomplete =
               Append(@, [flag |-> r, length |-> TypeSize, isrecv |-> isrecv])])

\* The entry of a request is not complete yet.
LogRequest(s, r, length, isrecv) ==
  SetCur(s, LogData(Cur(s), Entry(length, NoData, FALSE, r, FALSE), isrecv))

MPI_Isend(s, r) ==
  LET p == ProbeFirst(s)
  IN  Switch(s, p, LAMBDA t : PMPI_Start(t, r, "send"), LAMBDA t : Remember(t, r, FALSE),
             LAMBDA t : LogRequest(t, r, 0, FALSE),
             LAMBDA t : IF p.ret = kCommLogError THEN Fail(t) ELSE t)

\* The replay has the message at once; kCommLogMissing is not looked at.
MPI_Irecv(s, r) ==
  LET p == ReadFirst(s, TypeSize)
  IN  Switch(s, p, LAMBDA t : PMPI_Start(t, r, "recv"), LAMBDA t : Remember(t, r, TRUE),
             LAMBDA t : LogRequest(t, r, TypeSize, TRUE),
             LAMBDA t : IF p.ret = kCommLogError THEN Fail(t)
                        ELSE IF p.ret = kCommLogOK THEN [t EXCEPT !.mpi.buf[r] = p.data] ELSE t)

----------------------------------------------------------------------------
(* Calls that complete requests.  `ready' are the ones MPI reports.          *)

\* Mutant: the flag is logged as an event.
NothingYetEvent == Entry(0, 0, TRUE, NoFlag, TRUE)

\* A flag or a count that says that nothing is complete is an entry that repeats.
NothingYet ==
  Entry(1, 0, TRUE, NoFlag, TRUE)

\* The flag says that all of rs are complete.
GiveAll(s, rs) == IF Head(s.out) = 1 THEN FoldLeft(Give, s, rs) ELSE s

TestCall(s, rs, ready) ==
  LET p    == ReadFirst(s, 1)
      flag == IF ToSet(rs) \subseteq ready THEN 1 ELSE 0
  IN  GiveAll(Switch(s, p,
        LAMBDA u : Return(IF flag = 1 THEN PMPI_Waitall(u, rs) ELSE Called(u), flag),
        LAMBDA u : IF flag = 1 THEN FoldLeft(Finish, u, rs) ELSE u,
        LAMBDA u : IF flag = 1 THEN FoldLeft(Finish, Log(u, Data(1, 1)), rs)
                   ELSE Log(u, NothingYet),
        LAMBDA u : IF p.ret = kCommLogOK /\ p.data = 1
                   THEN FoldLeft(Skip, Return(u, 1), rs) ELSE Return(u, p.data)), rs)

MPI_Test(s, r, ready)     == TestCall(s, <<r>>, ready)
MPI_Testall(s, rs, ready) == TestCall(s, rs, ready)

\* The flag says that the request of the index is complete.
GiveAny(s) == IF Head(s.out) = 1 THEN Give(s, s.out[2]) ELSE s

MPI_Testany(s, rs, ready) ==
  LET p    == ReadFirst(s, 1)
      i    == Min(ready)
      none == ready = {}
  IN  GiveAny(Switch(s, p,
        LAMBDA u : IF none THEN Return(Called(u), 0)
                   ELSE Return(Return(PMPI_Waitall(u, <<i>>), 1), i),
        LAMBDA u : IF none THEN u ELSE Finish(u, i),
        LAMBDA u : IF none THEN Log(u, NothingYet)
                   ELSE Finish(Log(Log(u, Data(1, 1)), Data(1, i)), i),
        LAMBDA u : IF p.ret = kCommLogOK /\ p.data = 1
                   THEN Skip(Read(Return(u, 1), 1), i) ELSE Return(u, p.data)))

\* The application reads outcount elements of array_of_indices.
GiveSome(s) ==
  LET is == SubSeq(s.mpi.indices, 1, Head(s.out))
  IN  FoldLeft(Give, [s EXCEPT !.out = @ \o is], SelectSeq(is, LAMBDA r : r \in DOMAIN live))

\* array_of_indices is not part of the log of MPI_Testsome.
MPI_Testsome(s, rs, ready) ==
  LET p  == ReadFirst(s, 1)
      is == SetToSortSeq(ready, <)
      n  == Len(is)
  IN  GiveSome(Switch(s, p,
        LAMBDA u : Return([PMPI_Waitall(u, is) EXCEPT !.mpi.indices = is], n),
        LAMBDA u : FoldLeft(Finish, u, is),
        LAMBDA u : IF n > 0 THEN FoldLeft(Finish, Log(u, Data(1, n)), is) ELSE Log(u, NothingYet),
        LAMBDA u : IF p.ret = kCommLogOK
                   THEN FoldLeft(Skip, Return(u, p.data), [k \in 1 .. p.data |-> k])
                   ELSE Return(u, 0)))

\* BlockUntilValid, for a message that comes: only the current CD forgets the request.
BlockUntilValid(s, r) ==
  LET t == PMPI_Waitall(s, <<r>>) IN SetCur(t, DeleteIncompleteLog(Cur(t), r))

\* BlockUntilValid is called in strict CDs and in relaxed ones that log, PMPI_Wait in the
\* ones whose log ends here.
MPI_Wait(s, r) ==
  LET p == ProbeFirst(s)
      t == IF Cur(s).logging # kRelaxedCDRead
           THEN Switch(s, p, LAMBDA u : BlockUntilValid(u, r), Same, LAMBDA u : Finish(u, r), Same)
           ELSE Switch(s, p, LAMBDA u : PMPI_Waitall(u, <<r>>), Same, LAMBDA u : Finish(u, r),
                       LAMBDA u : IF p.ret = kCommLogError THEN Fail(u) ELSE u)
  IN  Give(t, r)

\* The replay of MPI_Waitall: one event per request, until the log ends.
ProbeAll(s, rs) ==
  FoldLeft(LAMBDA p, r : IF p.ret = kCommLogFlip THEN p ELSE ProbeData(p.cd, 0),
           [cd |-> Cur(s), ret |-> kCommLogOK, data |-> NoData], rs)

\* BlockallUntilValid: one PMPI_Test for each request.  The loop that follows tests only the
\* requests that were complete; all of them are forgotten by the current CD.
BlockallUntilValid(s, rs, ready) ==
  LET t == PMPI_Waitall(s, SelectSeq(rs, LAMBDA r : r \in ready))
  IN  SetCur(t, FoldLeft(DeleteIncompleteLog, Cur(t), rs))

MPI_Waitall(s, rs, ready) ==
  LET p == IF Cur(s).relaxed THEN ProbeAll(s, rs) ELSE Cur(s)
  IN  FoldLeft(Give,
        IF Cur(s).logging = kStrictCD THEN BlockallUntilValid(s, rs, ready)
        ELSE Switch(s, p, LAMBDA u : PMPI_Waitall(u, rs), Same,
                    LAMBDA u : FoldLeft(Finish, u, rs),
                    LAMBDA u : IF p.ret = kCommLogError THEN Fail(u) ELSE u), rs)

GiveIndex(s) == IF Head(s.out) \in DOMAIN live THEN Give(s, Head(s.out)) ELSE s

MPI_Waitany(s, rs, ready) ==
  LET p == ReadFirst(s, 1)
      i == Min(ready)
  IN  GiveIndex(Switch(s, p,
        LAMBDA u : Return(PMPI_Waitall(u, <<i>>), i),
        LAMBDA u : Finish(u, i),
        LAMBDA u : Finish(Log(u, Data(1, i)), i),
        LAMBDA u : IF p.ret = kCommLogOK THEN Skip(Return(u, p.data), p.data)
                   ELSE Return(u, p.data)))

MPI_Waitsome(s, rs, ready) ==
  LET p  == ReadFirst(s, 1)
      is == SetToSortSeq(ready, <)
      n  == Len(is)
      Replay(u) ==
        LET q == ReadData(Cur(u), p.data)
            v == [SetCur(u, q.cd) EXCEPT !.mpi.indices = q.data]
        IN  IF p.ret = kCommLogOK THEN FoldLeft(Skip, Return(v, p.data), q.data) ELSE Return(u, 0)
  IN  GiveSome(Switch(s, p,
        LAMBDA u : Return([PMPI_Waitall(u, is) EXCEPT !.mpi.indices = is], n),
        LAMBDA u : FoldLeft(Finish, u, is),
        LAMBDA u : FoldLeft(Finish, Log(Log(u, Data(1, n)), Data(n, is)), is),
        Replay))

----------------------------------------------------------------------------
(* The application                                                          *)

\* Every call so far has returned what it returned at first, and nothing has stopped the
\* task: only then does the application take the same path again.
Faithful == \A i \in DOMAIN prog : prog[i].last = prog[i].first
Running  == Faithful /\ \A k \in DOMAIN path : path[k].bad = "none"

\* The application makes call c, which returns s.out: for the first time, or again.
Made(c, s) ==
  /\ ip' = ip + 1
  /\ IF ip <= Len(prog)
     THEN prog' = [prog EXCEPT ![ip].last = s.out, ![ip].done = @ + s.done]
     ELSE prog' = Append(prog, [call |-> c, first |-> s.out, last |-> s.out, done |-> s.done])

\* The calls it may make at this point.
Next1(calls) ==
  IF ip <= Len(prog) THEN {prog[ip].call} \cap calls
  ELSE IF Len(prog) < MaxCalls THEN calls ELSE {}

Call(op, rs, root) == [op |-> op, rs |-> rs, root |-> root]
Structural(op, label) == [op |-> op, label |-> label]

\* The calls of the current instance of the innermost begun CD.
Since == IF begun = 0 THEN {} ELSE {prog[i].call : i \in context[begun].ip .. ip - 1}

\* Request variables that are free: not in use, and never used unless allowed.
Free == {r \in Requests \ DOMAIN live :
           "again" \in Allow \/ \A i \in 1 .. ip - 1 : prog[i].call.op \in {"Isend", "Irecv"}
                                             => prog[i].call.rs # <<r>>}

All == SetToSortSeq(DOMAIN live, <)

Calls ==
  LET blocking == {"Send", "Ssend", "Rsend", "Bsend", "Barrier", "Recv", "Bcast", "Allgather",
                   "Allgatherv", "Allreduce", "Alltoall", "Alltoallv", "Scatter", "Scatterv",
                   "Reduce_scatter", "Scan", "Sendrecv", "Sendrecv_replace"}
      rooted   == {"Gather", "Gatherv", "Reduce"}
      one      == {"Test", "Wait"}
      many     == {"Testall", "Testany", "Testsome", "Waitall", "Waitany", "Waitsome"}
  IN  {Call(op, <<>>, FALSE) : op \in Ops \cap blocking}
        \cup {Call(op, <<>>, root) : op \in Ops \cap rooted, root \in BOOLEAN}
        \cup {Call(op, <<r>>, FALSE) : op \in Ops \cap {"Isend", "Irecv"}, r \in Free}
        \cup {Call(op, <<r>>, FALSE) : op \in Ops \cap one, r \in DOMAIN live}
        \cup (IF live = <<>> THEN {} ELSE {Call(op, All, FALSE) : op \in Ops \cap many})

\* What MPI may report as complete to a call.
Reports(c) ==
  CASE c.op \in {"Test", "Testall"} -> {{}, ToSet(c.rs)}
    [] c.op = "Testany"  -> {{}} \cup {{r} : r \in ToSet(c.rs)}
    [] c.op = "Testsome" -> SUBSET ToSet(c.rs)
    [] c.op = "Waitall" /\ ~path[begun].relaxed -> SUBSET ToSet(c.rs)
    [] c.op = "Waitany"  -> {{r} : r \in ToSet(c.rs)}
    [] c.op = "Waitsome" -> SUBSET ToSet(c.rs) \ {{}}
    [] OTHER -> {ToSet(c.rs)}

Ready(c) ==
  IF c.rs # <<>> /\ path[begun].relaxed /\ path[begun].log.table = <<>> /\ "earlytest" \notin Allow
  THEN Reports(c) \ {{}} ELSE Reports(c)

Wrapper(c, ready) ==
  CASE c.op = "Send"           -> MPI_Send(Here)
    [] c.op = "Ssend"          -> MPI_Ssend(Here)
    [] c.op = "Rsend"          -> MPI_Rsend(Here)
    [] c.op = "Bsend"          -> MPI_Bsend(Here)
    [] c.op = "Barrier"        -> MPI_Barrier(Here)
    [] c.op = "Recv"           -> MPI_Recv(Here)
    [] c.op = "Bcast"          -> MPI_Bcast(Here)
    [] c.op = "Allgather"      -> MPI_Allgather(Here)
    [] c.op = "Allgatherv"     -> MPI_Allgatherv(Here)
    [] c.op = "Allreduce"      -> MPI_Allreduce(Here)
    [] c.op = "Alltoall"       -> MPI_Alltoall(Here)
    [] c.op = "Alltoallv"      -> MPI_Alltoallv(Here)
    [] c.op = "Scatter"        -> MPI_Scatter(Here)
    [] c.op = "Scatterv"       -> MPI_Scatterv(Here)
    [] c.op = "Reduce_scatter" -> MPI_Reduce_scatter(Here)
    [] c.op = "Scan"           -> MPI_Scan(Here)
    [] c.op = "Gather"         -> MPI_Gather(Here, c.root)
    [] c.op = "Gatherv"        -> MPI_Gatherv(Here, c.root)
    [] c.op = "Reduce"         -> MPI_Reduce(Here, c.root)
    [] c.op = "Sendrecv"       -> MPI_Sendrecv(Here)
    [] c.op = "Sendrecv_replace" -> MPI_Sendrecv_replace(Here)
    [] c.op = "Isend"          -> MPI_Isend(Here, c.rs[1])
    [] c.op = "Irecv"          -> MPI_Irecv(Here, c.rs[1])
    [] c.op = "Test"           -> MPI_Test(Here, c.rs[1], ready)
    [] c.op = "Testall"        -> MPI_Testall(Here, c.rs, ready)
    [] c.op = "Testany"        -> MPI_Testany(Here, c.rs, ready)
    [] c.op = "Testsome"       -> MPI_Testsome(Here, c.rs, ready)
    [] c.op = "Wait"           -> MPI_Wait(Here, c.rs[1])
    [] c.op = "Waitall"        -> MPI_Waitall(Here, c.rs, ready)
    [] c.op = "Waitany"        -> MPI_Waitany(Here, c.rs, ready)
    [] c.op = "Waitsome"       -> MPI_Waitsome(Here, c.rs, ready)

\* live after the call: a request that was started, or the ones that are completed.
LiveAfter(c, s) ==
  IF c.op = "Isend" THEN [r \in DOMAIN live \cup {c.rs[1]} |-> IF r = c.rs[1] THEN "send" ELSE live[r]]
  ELSE IF c.op = "Irecv" THEN [r \in DOMAIN live \cup {c.rs[1]} |-> IF r = c.rs[1] THEN "recv" ELSE live[r]]
  ELSE [r \in DOMAIN live \ s.fin |-> live[r]]

MPICall ==
  /\ Running /\ begun > 0 /\ ("between" \in Allow \/ begun = Len(path))
  /\ \E c \in Next1(Calls) : \E s \in {Wrapper(c, ready) : ready \in Ready(c)} :
       /\ Made(c, s)
       /\ path' = s.path /\ mpi' = s.mpi
       /\ live' = LiveAfter(c, s)
  /\ UNCHANGED <<begun, context, fails>>

----------------------------------------------------------------------------
(* The CD calls                                                             *)

\* Mutant: only receives are cancelled.
InvalidatedReceives(t) ==
  {r \in Requests : \E k \in t .. Len(path) :
     k > 1 /\ ~path[k].relaxed
       /\ \E i \in DOMAIN path[k].incomplete :
            path[k].incomplete[i].flag = r /\ path[k].incomplete[i].isrecv}

\* The requests of path[t] and of the CDs below it that InvalidateIncompleteLogs looks at.
Invalidated(t) ==
  {r \in Requests : \E k \in t .. Len(path) :
                      k > 1 /\ ~path[k].relaxed /\ FirstOf(path[k].incomplete, r) # 0}

\* What InvalidateIncompleteLogs makes of the requests that MPI works on: a test completes
\* some, a cancel takes some back.  Its rounds are bounded and no wait follows a cancel: the
\* others stay with MPI, and the application can still complete those it waits for.  CompleteLogs
\* erases the records of all.
InvalidateIncompleteLogs(t, waited) ==
  LET rs == Invalidated(t) \cap DOMAIN mpi.open
      After(completed, cancelled) ==
        LET rest == rs \ (completed \cup cancelled)
            kept == (DOMAIN mpi.open \ rs) \cup (rest \cap waited)
        IN  [PMPI_Waitall(Here, SetToSeq(completed)).mpi EXCEPT
               !.open = [r \in kept |-> mpi.open[r]],
               !.left = @ \cup {r \in rest \ waited : mpi.open[r] = "recv"}]
  IN  {After(completed, cancelled) : completed \in SUBSET rs, cancelled \in SUBSET rs}

Create ==
  /\ Running /\ begun = Len(path) /\ begun \in 1 .. MaxLevel
  /\ \E label \in Labels :
       LET c == Structural("Create", label)
       IN  /\ c \in Next1({c}) /\ ("again" \in Allow \/ c \notin Since)
           /\ Made(c, Here)
           /\ path' = Append(path, NewCD(path, label, begun \in Relaxed))
  /\ UNCHANGED <<begun, mpi, context, live, fails>>

\* Begin of the innermost CD; the root is begun once.
Begin ==
  LET c == Structural("Begin", "")
      n == Len(path)
      p == UnpackLogsToChildCD(path)
  IN  /\ Running /\ begun = n - 1 /\ (n = 1 => ip = 1)
      /\ c \in Next1({c}) /\ Made(c, Here)
      /\ path' = [p EXCEPT ![n].exec = IF @ = kSuspension THEN kExecution ELSE @]
      /\ begun' = n
      /\ context' = Append(context, [ip |-> ip, live |-> live])
      /\ UNCHANGED <<mpi, live, fails>>

Complete ==
  LET c == Structural("Complete", "")
      n == Len(path)
      p == CompleteLogs(path, FALSE)
  IN  /\ Running /\ begun = n /\ n > 1
      /\ c \in Next1({c}) /\ Made(c, Here)
      /\ path' = [p EXCEPT ![n] = [@ EXCEPT !.seq = @ + 1, !.exec = kSuspension]]
      /\ mpi' \in IF path[n].exec = kReexecution
                  THEN InvalidateIncompleteLogs(n, DOMAIN live) ELSE {mpi}
      /\ begun' = n - 1 /\ context' = Front(context)
      /\ UNCHANGED <<live, fails>>

Destroy ==
  LET c == Structural("Destroy", "")
  IN  /\ Running /\ begun = Len(path) - 1 /\ begun > 0
      /\ c \in Next1({c}) /\ Made(c, Here)
      /\ path' = Front(path)
      /\ UNCHANGED <<begun, mpi, context, live, fails>>

\* GetCDToRecover from the innermost CD to path[t]: every CD on the way completes its logs
\* and all but the last are destroyed.
Climbed(t) ==
  FoldLeft(LAMBDA p, k : LET q == CompleteLogs(p, TRUE) IN IF k = t THEN q ELSE Front(q),
           path, [i \in 1 .. Len(path) - t + 1 |-> Len(path) - i + 1])

\* An error rolls the task back to path[t], which is executed again from its Begin.  What
\* follows the Begin of a strict CD may take another course.
Rollback ==
  /\ Running /\ begun = Len(path) /\ fails < MaxFails
  /\ live = <<>> \/ "open" \in Allow \/ ("midreplay" \in Allow /\ mpi.open = <<>>)
  /\ \E t \in {l + 1 : l \in Targets} \cap 1 .. begun :
       /\ "inside" \in Allow \/ t = begun
       /\ path' = InternalReexecute(Climbed(t))
       /\ begun' = t - 1
       /\ context' = SubSeq(context, 1, t - 1)
       /\ ip' = context[t].ip /\ live' = context[t].live
       /\ prog' = IF path[t].relaxed THEN prog ELSE SubSeq(prog, 1, context[t].ip - 1)
       /\ mpi' \in InvalidateIncompleteLogs(t, DOMAIN context[t].live)
  /\ fails' = fails + 1

\* A message comes for a receive that was cancelled in vain and fills its buffer.
LateMessage ==
  /\ \E r \in mpi.left :
       mpi' = [mpi EXCEPT !.left = @ \ {r}, !.buf[r] = mpi.next, !.next = @ + 1]
  /\ UNCHANGED <<path, begun, context, live, prog, ip, fails>>

Next ==
  /\ MPICall \/ Create \/ Begin \/ Complete \/ Destroy \/ Rollback \/ LateMessage
  /\ UNCHANGED app

Spec == Init /\ [][Next]_vars

----------------------------------------------------------------------------
(* Properties                                                               *)

\* Types, and the bounds of every log on the path: the table holds what its size allows,
\* and the position of the replay (log_table_reexec_pos_) is within what was written.
TypeOK ==
  /\ begun \in {Len(path) - 1, Len(path)} /\ Len(context) = begun
  /\ ip \in 1 .. Len(prog) + 1 /\ fails \in 0 .. MaxFails
  /\ DOMAIN live \subseteq Requests /\ DOMAIN mpi.open \cup mpi.left \subseteq Requests
  /\ \A k \in DOMAIN path :
       /\ path[k].log.reexec \in 0 .. Len(path[k].log.table)
       /\ Len(path[k].log.table) <= path[k].log.size

\* A call that a relaxed CD replays returns what it returned when it was performed: the
\* same bytes, the same flag, the same index, the same requests (ReadData, ProbeData).
ReplayFaithful == Faithful

\* Relaxed CDs "may not repeat" communication: between them, the first execution and all
\* replays call MPI once for each call of the application (the wrappers' switch, the flip
\* of NextEntry, the logs that children hand up and get back).
PerformedOnce ==
  \A i \in DOMAIN prog : prog[i].done = (IF prog[i].call.op \in Ops THEN 1 ELSE 0)

\* A request that MPI still works on is one that the application will complete, or one that
\* InvalidateIncompleteLogs has tested, cancelled and left behind (mpi.left): no wait and
\* no rollback forgets a request (BlockUntilValid, BlockallUntilValid, CompleteLogs).
NoForgottenRequest == DOMAIN mpi.open \subseteq DOMAIN live

\* No wrapper stops the task: no ERROR_MESSAGE, no failing assert, no access outside of the
\* log table (LogData, ReadData, ProbeData, ProbeAndLogData).
NoStop == \A k \in DOMAIN path : path[k].bad = "none"
=============================================================================
