------------------------------ MODULE CommLog ------------------------------
(***************************************************************************)
(* The communication log of a relaxed CD: class CommLog (cd_comm_log.cc)   *)
(* and the functions of CD that use it (cd_internal.cc).  Everything here  *)
(* is a function of the record of a CD, or of the CD path, a sequence of   *)
(* such records that starts with the root; MPIWrapper.tla calls them in    *)
(* the order in which the MPI wrappers and the CD calls do.                *)
(*                                                                         *)
(* The bytes of an entry, which the code keeps in log_queue_, are a value  *)
(* here, and the packed logs in child_log_ are a sequence of records.      *)
(***************************************************************************)
EXTENDS Integers, Sequences, SequencesExt

CONSTANT TableUnit   \* table_size_unit_, DEFAULT_TABLE_SIZE_UNIT

ASSUME TableAssumption == TableUnit \in Nat \ {0}

kGenerateLog == "kGenerateLog"
kReplayLog   == "kReplayLog"

kStrictCD      == "kStrictCD"
kRelaxedCDGen  == "kRelaxedCDGen"
kRelaxedCDRead == "kRelaxedCDRead"

kCommLogOK      == "kCommLogOK"
kCommLogError   == "kCommLogError"
kCommLogMissing == "kCommLogMissing"
kCommLogFlip    == "kCommLogCommLogModeFlip"

kSuspension  == "kSuspension"
kExecution   == "kExecution"
kReexecution == "kReexecution"

NoFlag == 0    \* the flag_ of an entry that belongs to no request
NoData == 0    \* what an entry without bytes holds

----------------------------------------------------------------------------
(* One log                                                                  *)

\* An element of the log table, with its bytes (WriteLogTable, WriteLogQueue).
Entry(length, data, completed, flag, isrepeated) ==
  [length |-> length, data |-> IF completed THEN data ELSE NoData,
   completed |-> completed, flag |-> flag, isrepeated |-> isrepeated,
   counter |-> 1, reexec_counter |-> 0]

\* A completed entry of `length' bytes, and one that only records an event.
Data(length, data) == Entry(length, data, TRUE, NoFlag, FALSE)
Event              == Data(0, NoData)

\* The constructor and InitInternal: only a log that is to be generated gets a table.
NewLog(mode) ==
  [mode   |-> mode, table |-> <<>>,
   size   |-> IF mode = kGenerateLog THEN TableUnit ELSE 0,
   reexec |-> 0,      \* log_table_reexec_pos_
   newlog |-> FALSE,  \* new_log_generated_
   child  |-> <<>>]   \* child_log_

\* ReInit: the log is read again from its beginning.
ReInit(log) == [log EXCEPT !.mode = kReplayLog, !.reexec = 0]

\* Realloc: an empty log with a table; the mode stays.
Realloc(log) == [NewLog(kGenerateLog) EXCEPT !.mode = log.mode]

\* Mutant: the position of the replay stays.
ResetKeepsPosition(log) == [NewLog(kGenerateLog) EXCEPT !.size = log.size, !.reexec = log.reexec]

\* Reset: everything is forgotten but the size of the table.
Reset(log) == [NewLog(kGenerateLog) EXCEPT !.size = log.size]

\* FoundRepeatedEntry, for a table that is not empty: the last entry repeats e.  The bytes
\* are not compared.
FoundRepeatedEntry(log, e) ==
  LET last == Last(log.table)
  IN  /\ last.isrepeated
      /\ last.length = e.length /\ last.completed = e.completed /\ last.flag = e.flag

\* The place of the first entry of request `flag' in a table, or 0.
FirstOf(table, flag) == SelectInSeq(table, LAMBDA e : e.flag = flag)

\* The end of ProbeAndLogData and ProbeAndLogDataPacked: entry i is complete, and the bytes
\* of a message that has some are copied into the place that was kept for them.
FinishEntry(table, i, data) ==
  [table EXCEPT ![i].completed = TRUE,
                ![i].data = IF table[i].length = 0 THEN @ ELSE data]

\* The end of ReadData and ProbeData: on to the next entry, unless this one repeats.
Advance(log) ==
  LET i == log.reexec + 1
      e == log.table[i]
  IN  IF e.isrepeated /\ e.reexec_counter + 1 # e.counter
      THEN [log EXCEPT !.table[i].reexec_counter = @ + 1]
      ELSE [log EXCEPT !.table[i].reexec_counter = 0, !.reexec = @ + 1]

\* What PackLogs writes for a CD.
Packed(cd) == [id |-> <<cd.label, cd.seq>>, table |-> cd.log.table, size |-> cd.log.size,
               child |-> cd.log.child]

\* FindChildLogs: the first packed log of the CD with this id, or 0.
FindChildLogs(log, id) == SelectInSeq(log.child, LAMBDA p : p.id = id)

\* UnpackLogs: the mode, the position and new_log_generated_ stay.
UnpackLogs(log, packed) ==
  [log EXCEPT !.table = packed.table, !.size = packed.size, !.child = packed.child]

----------------------------------------------------------------------------
(* The log of a CD                                                          *)

\* What stops the task: ERROR_MESSAGE or a failing assert ("abort"), a write outside of
\* the table ("write"), a read outside of it ("read").
Stop(cd, why) == [cd EXCEPT !.bad = IF @ = "none" THEN why ELSE @]

\* WriteLogTable and IncreaseLogTableSize: a full table doubles, so that a table without
\* room for any entry stays one.
WriteLogTable(cd, e) ==
  LET size == IF Len(cd.log.table) < cd.log.size THEN cd.log.size ELSE 2 * cd.log.size
  IN  IF Len(cd.log.table) >= size THEN Stop(cd, "write")
      ELSE [cd EXCEPT !.log.table = Append(@, e), !.log.size = size]

\* LogData of a CD with a log.  The lookup for a repeated entry reads base_ptr_[-1] when the
\* table is empty.
LogData(cd, e, isrecv) ==
  LET last    == Len(cd.log.table)
      written == [WriteLogTable(cd, e) EXCEPT !.log.newlog = TRUE]
  IN  IF e.isrepeated /\ last = 0 THEN Stop(cd, "read")
      ELSE IF e.isrepeated /\ FoundRepeatedEntry(cd.log, e)
      THEN [cd EXCEPT !.log.table[last].counter = @ + 1]
      ELSE IF e.completed THEN written
      ELSE [written EXCEPT !.incomplete =
              Append(@, [flag |-> e.flag, length |-> e.length, isrecv |-> isrecv])]

\* ReadData and ProbeData: the next entry of the log, with the bytes ReadData copies.  The
\* end of the log turns the CD to logging.  An entry that never completed is not passed.
NextEntry(cd, length, unfinished) ==
  LET e == cd.log.table[cd.log.reexec + 1]
  IN  IF cd.log.reexec = Len(cd.log.table)
      THEN [cd |-> [cd EXCEPT !.log.mode = kGenerateLog, !.logging = kRelaxedCDGen],
            ret |-> kCommLogFlip, data |-> NoData]
      ELSE IF length # e.length
      THEN [cd |-> Stop(cd, "abort"), ret |-> kCommLogError, data |-> NoData]
      ELSE IF ~e.completed THEN [cd |-> cd, ret |-> unfinished, data |-> NoData]
      ELSE [cd |-> [cd EXCEPT !.log = Advance(@)], ret |-> kCommLogOK, data |-> e.data]

ReadData(cd, length)  == NextEntry(cd, length, kCommLogMissing)
ProbeData(cd, length) == NextEntry(cd, length, kCommLogError)

----------------------------------------------------------------------------
(* Requests: incomplete_log_                                                *)

\* DeleteIncompleteLog: the first entry of the request in the CD itself.
DeleteIncompleteLog(cd, flag) ==
  LET i == FirstOf(cd.incomplete, flag)
  IN  IF i = 0 THEN cd ELSE [cd EXCEPT !.incomplete = RemoveAt(@, i)]

\* The innermost of the CDs path[1] .. path[l] that knows of the request, or 0.
Holder(path, l, flag) ==
  SelectLastInSubSeq(path, 1, l, LAMBDA cd : FirstOf(cd.incomplete, flag) # 0)

\* The first packed log of a relaxed CD that has an entry of the request, or 0.
PackedOf(cd, flag) == SelectInSeq(cd.log.child, LAMBDA p : FirstOf(p.table, flag) # 0)

\* The CDs above path[l] that are searched for a packed entry: the relaxed ones below the
\* innermost strict one.
Searched(path, l) == {k \in 1 .. l - 1 : \A j \in k .. l - 1 : path[j].relaxed}

\* The entry of a finished request, in the log of path[l] or in one that a completed child
\* has handed to a relaxed ancestor, gets its bytes; a length that differs fails the assert.
FinishRequest(path, l, req, data) ==
  LET i  == FirstOf(path[l].log.table, req.flag)
      up == {k \in Searched(path, l) : PackedOf(path[k], req.flag) # 0}
      k  == Max(up)
      p  == PackedOf(path[k], req.flag)
      j  == FirstOf(path[k].log.child[p].table, req.flag)
  IN  IF i # 0
      THEN IF path[l].log.table[i].length # req.length
           THEN [path EXCEPT ![l] = Stop(@, "abort")]
           ELSE [path EXCEPT ![l].log.table = FinishEntry(@, i, data)]
      ELSE IF up = {} THEN path
      ELSE IF path[k].log.child[p].table[j].length # req.length
      THEN [path EXCEPT ![l] = Stop(@, "abort")]
      ELSE [path EXCEPT ![k].log.child[p].table = FinishEntry(@, j, data)]

\* ProbeAndLogData of path[l], the current CD, for a request that MPI has completed.
ProbeAndLogData(path, l, flag, data) ==
  LET h    == Holder(path, l, flag)
      req  == path[h].incomplete[FirstOf(path[h].incomplete, flag)]
      done == FinishRequest(path, l, req, data)
      log  == [done EXCEPT ![l] = LogData(@, Event, FALSE)]
      left(p) == IF h = 0 THEN p ELSE [p EXCEPT ![h] = DeleteIncompleteLog(@, flag)]
  IN  IF ~path[l].relaxed THEN left(path)
      ELSE IF h = 0 THEN [path EXCEPT ![l] = Stop(@, "abort")]
      ELSE left(log)

----------------------------------------------------------------------------
(* Create, Begin, Complete and rollback                                     *)

\* InternalInitialize, for a new CD object and for one that is used again: a relaxed child
\* of a relaxed CD starts in the mode of the log of its parent.
NewCD(path, label, relaxed) ==
  LET mode == IF path # <<>> /\ Last(path).relaxed THEN Last(path).log.mode ELSE kGenerateLog
  IN  [relaxed |-> relaxed, label |-> label, seq |-> 0, exec |-> kSuspension,
       log |-> NewLog(mode),
       logging |-> IF ~relaxed THEN kStrictCD
                   ELSE IF mode = kGenerateLog THEN kRelaxedCDGen ELSE kRelaxedCDRead,
       incomplete |-> <<>>, bad |-> "none"]

\* The part of Begin that gives a relaxed child of a relaxed CD in replay its log back.
UnpackLogsToChildCD(path) ==
  LET n      == Len(path)
      parent == path[n - 1].log
      found  == FindChildLogs(parent, <<path[n].label, path[n].seq>>)
      replay == [path[n].log EXCEPT !.mode = kReplayLog]
  IN  IF n > 1 /\ path[n].relaxed /\ path[n - 1].relaxed /\ parent.mode = kReplayLog
      THEN [path EXCEPT ![n].log = IF found = 0 THEN Realloc(replay)
                                   ELSE UnpackLogs(replay, parent.child[found])]
      ELSE path

\* Mutant: the log of the child is dropped.
PushLogsNever(path) == path

\* PackAndPushLogs to a relaxed parent, when the CD has anything new; a CD that has turned
\* to logging takes the log of its parent with it.
PushLogs(path) ==
  LET n  == Len(path)
      cd == path[n]
  IN  IF cd.log.newlog /\ path[n - 1].relaxed
      THEN [path EXCEPT ![n - 1].log =
              [@ EXCEPT !.child = Append(@, Packed(cd)), !.newlog = TRUE,
                        !.mode = IF cd.log.mode = kGenerateLog THEN kGenerateLog ELSE @]]
      ELSE path

\* Mutant: a CD that is rolled back drops its log.
CompleteLogsDrops(path, is_rollback) ==
  LET n == Len(path)
      p == IF is_rollback THEN path ELSE PushLogs(path)
  IN  IF n = 1 THEN path ELSE [p EXCEPT ![n].log = Reset(@)]

\* CompleteLogs of the innermost CD, at its completion or on the way of a rollback.  A
\* relaxed CD that executes for the first time hands its open requests to its parent; a
\* strict one that rolls back tests and cancels them (InvalidateIncompleteLogs).
\* ProbeIncompleteLogs only waits for the messages.
CompleteLogs(path, is_rollback) ==
  LET n      == Len(path)
      cd     == path[n]
      pushed == PushLogs(path)
      first  == cd.exec = kExecution
      parent == pushed[n - 1]
  IN  IF n = 1 THEN path
      ELSE IF cd.relaxed
      THEN [pushed EXCEPT
              ![n] = [cd EXCEPT !.log = Reset(@), !.incomplete = IF first THEN <<>> ELSE @],
              ![n - 1] = [parent EXCEPT !.incomplete = IF first THEN @ \o cd.incomplete ELSE @]]
      ELSE IF is_rollback \/ cd.exec = kReexecution THEN [path EXCEPT ![n].incomplete = <<>>]
      ELSE path

\* InternalReexecute of the innermost CD, the one the task has rolled back to.
InternalReexecute(path) ==
  LET n == Len(path)
  IN  IF path[n].relaxed
      THEN [path EXCEPT ![n] = [@ EXCEPT !.log = ReInit(@), !.logging = kRelaxedCDRead,
                                         !.exec = kReexecution]]
      ELSE [path EXCEPT ![n].exec = kReexecution]
=============================================================================
