----------------------------- MODULE DataStore -----------------------------
(***************************************************************************)
(* packer::DataStore (persistence/data_store.cc): the ring buffer in which *)
(* a CD keeps the data it preserves, and the file behind it.               *)
(*                                                                         *)
(* A store is a record: volatile (ftype_ = kVolatile), size (size_), head  *)
(* and tail (head_, tail_: bytes ever taken out of and put into the        *)
(* buffer), wl (written_len_: where in the file the store begins) and buf  *)
(* (the cells ptr_[0 .. size_ - 1]).  The file handle is one singleton for *)
(* all stores of a task: offset (offset_, what GetFileSize answers) and    *)
(* bytes.  A byte names its data, their version and its place in them;     *)
(* Blank is a cell nothing was written to.                                 *)
(***************************************************************************)
EXTENDS Integers, Sequences, TLC

CONSTANT Chunk    \* CHUNK_ALIGNMENT, also sizeof(MagicStore)

ASSUME ChunkAssumption == Chunk \in Nat \ {0}

Blank == <<"blank", 0, 0>>
Magic == <<"magic", 0, 0>>

align_down(n) == n - (n % Chunk)

align_up(n) == align_down(n + Chunk - 1)

buf_used(s) == s.tail - s.head

used(s) == s.tail + s.wl

\* The cells of the ring that hold the bytes [from, from + n) of the stream.
Cells(size, from, n) == {p \in 0 .. size - 1 : ((p - from) % size) < n}

CopyToBuffer(buf, size, at, src) ==
  [p \in Cells(size, at, Len(src)) |-> src[((p - at) % size) + 1]] @@ buf

CopyFromBuffer(buf, size, at, len) == [i \in 1 .. len |-> buf[(at + i - 1) % size]]

----------------------------------------------------------------------------
(* The file handle                                                          *)

NoFile == [offset |-> 0, bytes |-> <<>>]

\* FileHandle::Write; inc is how far the shared offset moves.
FileWrite(fh, at, src, inc) ==
  [offset |-> fh.offset + inc,
   bytes |-> [p \in at .. at + Len(src) - 1 |-> src[p - at + 1]] @@ fh.bytes]

FileRead(fh, at, len) ==
  [i \in 1 .. len |-> IF at + i - 1 \in DOMAIN fh.bytes THEN fh.bytes[at + i - 1] ELSE Blank]

SetOffset(fh, offset) == [fh EXCEPT !.offset = offset]

----------------------------------------------------------------------------
(* Construction                                                             *)

\* InitFile: the first store of the file writes the magic chunk; the store begins at the
\* offset the handle has now.
InitFile(fh) ==
  IF fh.offset < Chunk THEN FileWrite(fh, 0, [i \in 1 .. Chunk |-> Magic], Chunk) ELSE fh

NewStore(volatile, size, fh) ==
  [volatile |-> volatile, size |-> size, head |-> 0, tail |-> 0,
   wl |-> IF volatile THEN Chunk ELSE InitFile(fh).offset,
   buf |-> [p \in 0 .. size - 1 |-> Blank]]

Emptied(s) == [s EXCEPT !.head = 0, !.tail = 0]

----------------------------------------------------------------------------
(* Writing                                                                  *)

\* The buffer is made four times larger until it is large enough (at most MaxGrowth times).
MaxGrowth == 8

Grown(size, needed) ==
  LET sizes == {size * 4 ^ k : k \in 0 .. MaxGrowth}
  IN CHOOSE n \in sizes : n >= needed /\ \A m \in sizes : m >= needed => n <= m

\* Reallocate: the occupied cells keep their indexes in the larger buffer.
Reallocate(s, len) ==
  LET size == Grown(s.size, len + buf_used(s))
      kept == Cells(s.size, s.head, buf_used(s))
  IN [s EXCEPT !.size = size,
               !.buf = [p \in 0 .. size - 1 |-> IF p \in kept THEN s.buf[p] ELSE Blank]]

\* WriteMem, and WriteBuffer when it does not wait.
Append2(s, src) ==
  [s EXCEPT !.buf = CopyToBuffer(s.buf, s.size, s.tail, src), !.tail = @ + Len(src)]

WriteCacheMode(s, src) ==
  Append2(IF Len(src) + buf_used(s) > s.size THEN Reallocate(s, Len(src)) ELSE s, src)

WriteBufferMode(s, src) == Append2(IF Len(src) > s.size THEN Reallocate(s, Len(src)) ELSE s, src)

\* Mutant: full one byte too early.
IsFullAtLast(s, tail) == tail - s.head >= s.size - Chunk

IsFull(s, tail) ==
  tail - s.head > s.size - Chunk

\* WriteBuffer fills the chunk at the tail without a check; every later piece starts at a
\* chunk and waits while the buffer is full.  The consumer never empties it: GetBuffer only
\* takes a buffer in kEagerWriting mode, which nothing sets.
Waits(s, len) ==
  LET grown == IF len > s.size THEN Reallocate(s, len) ELSE s
      last == align_down(s.tail + len - 1)
  IN last > s.tail /\ IsFull(grown, last)

DataWrite(s, src) == IF s.volatile THEN WriteCacheMode(s, src) ELSE WriteBufferMode(s, src)

DataWaits(s, len) == ~s.volatile /\ Waits(s, len)

FlushedFile(s, fh) ==
  FileWrite(fh, s.head + s.wl,
            CopyFromBuffer(s.buf, s.size, s.head, align_up(buf_used(s))),
            align_down(buf_used(s)))

Flushed(s) == [s EXCEPT !.head = @ + align_down(buf_used(s))]

----------------------------------------------------------------------------
(* Reading                                                                  *)

\* FetchInternal with CalcOffset: GetData always starts with an empty read window before the
\* data, so the whole of its chunks is read into the ring, as far as the ring goes.
Fetched(s, fh, pos, len) ==
  LET low == align_down(pos)
      total == align_up(pos + len) - low
      n == IF total > s.size THEN s.size ELSE total
  IN CopyToBuffer(s.buf, s.size, low + s.head, FileRead(fh, low, n))

\* Mutant: what the read displaced is not put back.
FinReadModeNone(s, buf) == buf

\* InitReadMode saves [head, tail) and FinReadMode puts it back.
FinReadMode(s, buf) ==
  CopyToBuffer(buf, s.size, s.head, CopyFromBuffer(s.buf, s.size, s.head, buf_used(s)))

\* What GetData copies out, and the store after it.
GetData(s, fh, pos, len) ==
  IF s.volatile THEN CopyFromBuffer(s.buf, s.size, pos - s.wl, len)
  ELSE CopyFromBuffer(Fetched(s, fh, pos, len), s.size, pos + s.head, len)

AfterRead(s, fh, pos, len) ==
  IF s.volatile THEN s ELSE [s EXCEPT !.buf = FinReadMode(s, Fetched(s, fh, pos, len))]
=============================================================================
