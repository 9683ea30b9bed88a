------------------------------ MODULE Preserve ------------------------------
(***************************************************************************)
(* CD::Preserve of one task on a path of CDs: the first execution of a CD  *)
(* copies data into its store or refers to an entry of a CD above it, and  *)
(* a re-execution restores the data call by call.  The stores of the path  *)
(* share one file handle and the list of the buffer consumer.              *)
(*                                                                         *)
(* The application is a sequence of calls, the same in every execution, in *)
(* which an error may be found at any computation.  The error destroys the *)
(* data the CD has touched and rolls the task back to the Begin of a CD of *)
(* the path.  Which CD that is, is decided elsewhere (Rollback); here it is*)
(* any of them.                                                            *)
(***************************************************************************)
EXTENDS DataStore, SequencesExt, FiniteSetsExt

CONSTANTS Apps,       \* the applications
          EntrySize   \* sizeof(CDEntry)

ASSUME EntrySizeAssumption == EntrySize \in Nat

VARIABLES app,        \* calls, size (of a new buffer), medium of each level, errors, len of data
          pc,         \* the call the task is at
          mem,        \* the application's data: a sequence of bytes for each variable
          cur,        \* level of the current CD
          cd,         \* the CD objects, by level
          st,         \* their stores (entry_directory_.data_)
          fh,         \* the file handle
          bufs,       \* buf_list_ of the buffer consumer
          errors,     \* errors found
          stopped     \* "no", or why the task does not go on

vars == <<app, pc, mem, cur, cd, st, fh, bufs, errors, stopped>>

Levels == 0 .. Len(app.medium) - 1
Modes == {"kSuspension", "kExecution", "kReexecution"}
Data == DOMAIN app.len
Running == stopped = "no" /\ pc <= Len(app.calls)
Here == app.calls[pc]
OnDisk(l) == app.medium[l + 1] # "kDRAM"

\* The bytes of variable v after k computations, and after an error.
Value(v, k) == [i \in 1 .. app.len[v] |-> <<v, k, i>>]
Lost(v) == [i \in 1 .. app.len[v] |-> <<"lost", 0, 0>>]

NewCD == [made |-> FALSE, begin |-> FALSE, mode |-> "kSuspension", prv |-> 0, rst |-> 0,
          table |-> <<>>]

Initialized(o) == [NewCD EXCEPT !.made = TRUE]

Init ==
  /\ app \in Apps
  /\ pc = 1
  /\ mem = [v \in Data |-> Value(v, 0)]
  /\ cur = 0
  /\ cd = [l \in Levels |-> IF l = 0 THEN Initialized(NewCD) ELSE NewCD]
  /\ st = [l \in Levels |-> NewStore(~OnDisk(l), app.size, NoFile)]
  /\ fh = IF OnDisk(0) THEN InitFile(NoFile) ELSE NoFile
  /\ bufs = <<>>
  /\ errors = 0
  /\ stopped = "no"

Stop(why) ==
  /\ stopped' = why
  /\ UNCHANGED <<app, pc, mem, cur, cd, st, fh, bufs, errors>>

Advance == pc' = pc + 1 /\ UNCHANGED <<app, errors, stopped>>

----------------------------------------------------------------------------
(* Entries                                                                  *)

Latest(l, tag) ==
  LET matches == {i \in DOMAIN cd[l].table : cd[l].table[i].id = tag}
  IN IF matches = {} THEN 0 ELSE Max(matches)

\* InternalGetEntry: the latest entry of the name, unless it is itself a reference.
InternalGetEntry(l, tag) ==
  Latest(l, tag) # 0 /\ ~cd[l].table[Latest(l, tag)].refer

\* The levels at which SearchEntry can stop; it climbs from the current CD.
FoundAt(tag) == {l \in 0 .. cur : InternalGetEntry(l, tag)}

\* Mutant: the search starts at the root.
SearchEntryFromRoot(tag) == Min(FoundAt(tag))

SearchEntry(tag) ==
  Max(FoundAt(tag))

PreserveCopy(c, id, count) ==
  LET s == st[c.lv]
      written == DataWrite(s, mem[c.data])
      entry == [id |-> id, refer |-> FALSE, data |-> c.data, off |-> used(s), val |-> mem[c.data]]
  IN IF DataWaits(s, Len(mem[c.data])) THEN Stop("waits")
     ELSE /\ st' = [st EXCEPT ![c.lv] = IF s.volatile THEN written ELSE Flushed(written)]
          /\ fh' = IF s.volatile THEN fh ELSE FlushedFile(written, fh)
          /\ cd' = [cd EXCEPT ![c.lv].table = Append(@, entry), ![c.lv].prv = @ + count]
          /\ Advance /\ UNCHANGED <<mem, cur, bufs>>

PreserveRef(c) ==
  LET entry == [id |-> c.name, refer |-> TRUE, data |-> c.data, off |-> 0, val |-> <<>>]
  IN /\ cd' = [cd EXCEPT ![c.lv].table = Append(@, entry), ![c.lv].prv = @ + 1]
     /\ Advance /\ UNCHANGED <<mem, cur, st, fh, bufs>>

InternalPreserve(c) ==
  \/ c.how = "kCopy" /\ PreserveCopy(c, c.name, 1)
  \/ c.how = "kOutput" /\ PreserveCopy(c, c.name, 0)
  \/ c.how = "kRef" /\ FoundAt(c.ref) # {} /\ PreserveRef(c)
  \/ c.how = "kRef" /\ FoundAt(c.ref) = {} /\ PreserveCopy(c, c.ref, 1)

\* Mutant: the first restore ends them.
CountRestoreEarly(o) == [o EXCEPT !.rst = 0, !.mode = "kExecution"]

\* The last restore of what was preserved ends the re-execution of the CD's preserves.
CountRestore(o) ==
  IF o.rst + 1 = o.prv THEN [o EXCEPT !.rst = 0, !.mode = "kExecution"]
  ELSE [o EXCEPT !.rst = @ + 1]

Restore(c) ==
  LET tag == IF c.how = "kRef" THEN c.ref ELSE c.name
      l == SearchEntry(tag)
      e == cd[l].table[Latest(l, tag)]
  IN IF FoundAt(tag) = {} THEN Stop("assert")
     ELSE IF e.data # c.data THEN Stop("assert")
     ELSE /\ mem' = [mem EXCEPT ![c.data] = GetData(st[l], fh, e.off, Len(e.val))]
          /\ st' = [st EXCEPT ![l] = AfterRead(st[l], fh, e.off, Len(e.val))]
          /\ cd' = [cd EXCEPT ![c.lv] = CountRestore(@)]
          /\ Advance /\ UNCHANGED <<cur, fh, bufs>>

\* Two assertions of a re-execution are left out: preservation is switched on (dont_preserve is
\* an environment variable), and a failure point is set, which is the matter of PhaseTree.
Preserve ==
  /\ Running /\ Here.op = "preserve"
  /\ LET o == cd[Here.lv]
     IN \/ o.mode = "kExecution" /\ InternalPreserve(Here)
        \/ /\ o.mode = "kReexecution" /\ Here.how = "kOutput"
           /\ Advance /\ UNCHANGED <<mem, cur, cd, st, fh, bufs>>
        \/ /\ o.mode = "kReexecution" /\ Here.how # "kOutput"
           /\ IF o.rst < o.prv THEN Restore(Here) ELSE Stop("assert")

----------------------------------------------------------------------------
(* The life of a CD                                                         *)

\* ReInit with InsertBuffer: the last buffer of the list is padded to a chunk, and the shared
\* offset is put behind it.
ReInit(l) ==
  IF ~OnDisk(l) THEN st' = [st EXCEPT ![l] = Emptied(@)] /\ UNCHANGED <<fh, bufs>>
  ELSE LET emptied == [st EXCEPT ![l] = Emptied(@)]
       IN /\ bufs' = Append(bufs, l)
          /\ IF bufs = <<>> THEN st' = emptied /\ UNCHANGED fh
             ELSE LET b == Last(bufs)
                  IN /\ fh' = SetOffset(fh, align_up(emptied[b].tail) + emptied[b].wl)
                     /\ st' = [emptied EXCEPT ![b].tail = align_up(@)]

Begin ==
  /\ Running /\ Here.op = "begin"
  /\ LET l == Here.lv
         mode == IF cd[l].mode = "kSuspension" THEN "kExecution" ELSE cd[l].mode
     IN /\ cd' = [cd EXCEPT ![l].begin = TRUE, ![l].mode = mode]
        /\ IF mode = "kReexecution" THEN UNCHANGED <<st, fh, bufs>> ELSE ReInit(l)
  /\ Advance /\ UNCHANGED <<mem, cur>>

\* CD::Create: the table follows the data into the file before the child is made; a CD that was
\* made before is used again, with the store it has.
Create ==
  /\ Running /\ Here.op = "create"
  /\ LET s == st[cur]
         child == cur + 1
         table == [i \in 1 .. EntrySize * Len(cd[cur].table) |-> <<"table", 0, 0>>]
         written == IF table = <<>> THEN s ELSE DataWrite(s, table)
         file == IF OnDisk(cur) THEN FlushedFile(written, fh) ELSE fh
     IN IF OnDisk(cur) /\ table # <<>> /\ DataWaits(s, Len(table)) THEN Stop("waits")
        ELSE /\ st' = [l \in Levels |->
                         IF l = cur /\ OnDisk(cur) THEN Flushed(written)
                         ELSE IF l = child /\ ~cd[child].made
                              THEN NewStore(~OnDisk(child), app.size, file)
                         ELSE st[l]]
             /\ fh' = IF OnDisk(child) /\ ~cd[child].made THEN InitFile(file) ELSE file
             /\ cd' = [cd EXCEPT ![child] = Initialized(@)]
             /\ cur' = child
             /\ Advance /\ UNCHANGED <<mem, bufs>>

\* Mutant: preserve_count_ is not reset.
DeletedEntriesUncounted(o) == [o EXCEPT !.rst = 0, !.table = <<>>]

\* DeleteEntryDirectory of the CDs of a set of levels, from the lowest CD up.
DeletedEntries(o) ==
  [o EXCEPT !.prv = 0, !.rst = 0, !.table = <<>>]

DeletedStores(levels) == [l \in Levels |-> IF l \in levels THEN Emptied(st[l]) ELSE st[l]]

\* RemoveBuffer stops the task at a buffer that is not in the list.
NotInList(levels) == {l \in levels : OnDisk(l)} \ Range(bufs)

RemoveBuffers(levels) ==
  LET disk == {l \in levels : OnDisk(l)}
  IN /\ fh' = IF disk = {} THEN fh ELSE SetOffset(fh, st[Min(disk)].wl)
     /\ bufs' = SelectSeq(bufs, LAMBDA l : l \notin levels)

Complete ==
  /\ Running /\ Here.op = "complete"
  /\ IF NotInList({cur}) # {} THEN Stop("assert")
     ELSE /\ cd' = [cd EXCEPT ![cur] = [DeletedEntries(@) EXCEPT !.mode = "kSuspension", !.begin = FALSE]]
          /\ st' = DeletedStores({cur}) /\ RemoveBuffers({cur})
          /\ Advance /\ UNCHANGED <<mem, cur>>

Destroy ==
  /\ Running /\ Here.op = "destroy"
  /\ cur' = cur - 1
  /\ Advance /\ UNCHANGED <<mem, cd, st, fh, bufs>>

----------------------------------------------------------------------------
(* The application                                                          *)

Computed(v, bytes) ==
  IF \E k \in 0 .. Len(app.calls) : bytes = Value(v, k)
  THEN Value(v, 1 + CHOOSE k \in 0 .. Len(app.calls) : bytes = Value(v, k))
  ELSE Lost(v)

Compute ==
  /\ Running /\ Here.op = "compute"
  /\ mem' = [mem EXCEPT ![Here.data] = Computed(Here.data, @)]
  /\ Advance /\ UNCHANGED <<cur, cd, st, fh, bufs>>

\* RestoreAll reads every copied entry into an object it drops, through the store's buffer.
RestoreAll(s, table) ==
  FoldLeft(LAMBDA r, e : IF e.refer THEN r ELSE AfterRead(r, fh, e.off, Len(e.val)), s, table)

BeginOf(l) == Max({i \in 1 .. pc - 1 : app.calls[i].op = "begin" /\ app.calls[i].lv = l})

\* What the task has preserved or computed in the CD of level l and below it; the error
\* destroys it.
Touched(l) ==
  {v \in Data : \E i \in BeginOf(l) .. pc :
                  app.calls[i].op \in {"preserve", "compute"} /\ app.calls[i].data = v}

\* GetCDToRecover from the current CD up to level l, and RecoverObject::Recover there.
Recover ==
  /\ Running /\ Here.op = "compute" /\ errors < app.errors
  /\ \E l \in 0 .. cur :
       LET above == l + 1 .. cur
       IN IF NotInList(above) # {} THEN Stop("assert") ELSE
          /\ st' = [DeletedStores(above) EXCEPT ![l] = RestoreAll(@, cd[l].table)]
          /\ RemoveBuffers(above)
          /\ cd' = [i \in Levels |->
                      IF i \in above THEN [DeletedEntries(cd[i]) EXCEPT !.begin = FALSE]
                      ELSE IF i = l THEN [cd[i] EXCEPT !.mode = "kReexecution", !.rst = 0,
                                                       !.begin = FALSE]
                      ELSE cd[i]]
          /\ cur' = l
          /\ pc' = BeginOf(l)
          /\ mem' = [v \in Data |-> IF v \in Touched(l) THEN Lost(v) ELSE mem[v]]
          /\ errors' = errors + 1
          /\ UNCHANGED <<app, stopped>>

\* The application has ended.
Ended == pc > Len(app.calls) /\ UNCHANGED vars

Next == Begin \/ Preserve \/ Create \/ Complete \/ Destroy \/ Compute \/ Recover \/ Ended

Spec == Init /\ [][Next]_vars

----------------------------------------------------------------------------
(* Properties                                                               *)

\* The state keeps its shape: counts and offsets are in range, a store's buffer holds what is
\* between head_ and tail_, and a begun CD's file store is in the consumer's list once.
TypeOK ==
  /\ pc \in 1 .. Len(app.calls) + 1 /\ cur \in Levels /\ errors \in 0 .. app.errors
  /\ stopped \in {"no", "waits", "assert"}
  /\ DOMAIN mem = Data /\ \A v \in Data : DOMAIN mem[v] = 1 .. app.len[v]
  /\ fh.offset % Chunk = 0 /\ fh.offset >= 0
  /\ \A l \in Levels :
       /\ cd[l].mode \in Modes /\ cd[l].rst <= cd[l].prv /\ cd[l].prv <= Len(cd[l].table)
       /\ st[l].head % Chunk = 0 /\ st[l].wl % Chunk = 0 /\ st[l].wl >= Chunk
       /\ buf_used(st[l]) \in 0 .. st[l].size /\ DOMAIN st[l].buf = 0 .. st[l].size - 1
       /\ Cardinality({i \in DOMAIN bufs : bufs[i] = l}) =
            IF OnDisk(l) /\ l <= cur /\ (cd[l].begin \/ cd[l].mode = "kReexecution") THEN 1 ELSE 0

\* Whatever a CD of the path has copied can be read back from its store exactly as it was, at
\* any time until the CD completes: the writes, flushes, tables, paddings and reads of the CD
\* itself and of the CDs below it, which write the same file, never touch it.
PreservedIsIntact ==
  \A l \in 0 .. cur : \A i \in DOMAIN cd[l].table :
    LET e == cd[l].table[i]
    IN ~e.refer => GetData(st[l], fh, e.off, Len(e.val)) = e.val

Computations(v) == Cardinality({i \in 1 .. pc - 1 : app.calls[i].op = "compute" /\ app.calls[i].data = v})

\* The application never sees that it was rolled back: whenever it computes on a variable, and
\* when it ends, the variable has the value it has in an execution without errors, whether it
\* was restored by copy or by reference, from its own CD or from one above it.
AsIfUndisturbed ==
  /\ (Running /\ Here.op = "compute") => mem[Here.data] = Value(Here.data, Computations(Here.data))
  /\ pc > Len(app.calls) => \A v \in Data : mem[v] = Value(v, Computations(v))

Preserves(l) ==
  Cardinality({i \in BeginOf(l) .. pc - 1 : /\ app.calls[i].op = "preserve"
                                           /\ app.calls[i].lv = l /\ app.calls[i].how # "kOutput"})

\* Preserve() counts its calls "to track which point of program is the last point before
\* rollback": while a CD re-executes, restore_count_ is the number of calls it has made since its
\* Begin, and once it executes, preserve_count_ is.
CountsTrackProgram ==
  \A l \in 0 .. cur : cd[l].begin =>
    /\ cd[l].mode = "kExecution" => cd[l].prv = Preserves(l)
    /\ cd[l].mode = "kReexecution" => cd[l].rst = Preserves(l)

\* Every call of the application returns, in the first execution and in every re-execution: none
\* meets an assertion or an error exit of the runtime, and no Preserve waits forever for space in
\* its buffer.
CallsReturn == stopped = "no"
=============================================================================
