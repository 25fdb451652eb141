---------------------------- MODULE DynamicBuffer ----------------------------
(***************************************************************************)
(* DynamicBuffer: one allocation with a read and a write index, capacity_  *)
(* as the object believes it to be, and the append, consume,               *)
(* move_forward and expand_capacity that keep them.                        *)
(*                                                                         *)
(* Bytes are numbered in the order in which they are appended, so that the *)
(* content says which bytes are where.  An access outside the allocation   *)
(* is undefined behaviour: the buffer is then broken and the model follows *)
(* it no further.                                                          *)
(***************************************************************************)
EXTENDS Integers

CONSTANTS
  InitCapacity,   \* FLAGS_initial_dynamic_buffer_size
  MaxCapacity,    \* FLAGS_max_dynamic_buffer_size
  Threshold,      \* FLAGS_move_forward_threshold
  MaxChunk,       \* bound: the length of one append or consume
  MaxBytes,       \* bound: how many bytes are appended in all
  SizeRange       \* size_t arithmetic is modulo this

ASSUME SizeAssumption ==
  /\ InitCapacity \in Nat /\ MaxCapacity \in Nat /\ Threshold \in Nat
  /\ MaxChunk \in Nat /\ MaxBytes \in Nat
  /\ InitCapacity <= MaxCapacity
  /\ SizeRange \in Nat /\ SizeRange > 3 * MaxCapacity

VARIABLES
  buf,            \* the DynamicBuffer: alloc is the size of what buffer_ points
                  \* to, mem its bytes, cap, rd and wr the fields, broken tells
                  \* that an access went outside the allocation
  appended,       \* how many bytes append has accepted
  consumed        \* how many bytes consume has handed out

vars == <<buf, appended, consumed>>

Blank == 0  \* a byte nobody has written

Init ==
  /\ buf = [alloc |-> InitCapacity, cap |-> InitCapacity, rd |-> 0, wr |-> 0,
            mem |-> [i \in 0 .. InitCapacity - 1 |-> Blank], broken |-> FALSE]
  /\ appended = 0
  /\ consumed = 0

Readable(b) == (b.wr - b.rd) % SizeRange
Writable(b) == (b.cap - b.wr) % SizeRange
Prependable(b) == b.rd

\* max_writable_bytes
MaxWritable(b) ==
  LET reusable == IF Prependable(b) >= Threshold THEN Prependable(b) ELSE 0
  IN  (MaxCapacity - b.cap + Writable(b) + reusable) % SizeRange

\* Mutant of MoveForward: the indexes move, the bytes stay.
BugMoveForwardIndexesOnly(b) ==
  [b EXCEPT !.wr = b.wr - b.rd,
            !.rd = 0,
            !.cap = b.cap + b.rd,
            !.broken = @ \/ b.cap > b.alloc]

\* move_forward: memmove of everything up to capacity_, then the fields.
MoveForward(b) ==
  [b EXCEPT !.mem = [i \in DOMAIN b.mem |->
                       IF i < b.cap - b.rd /\ i + b.rd \in DOMAIN b.mem
                       THEN b.mem[i + b.rd] ELSE b.mem[i]],
            !.wr = b.wr - b.rd,
            !.rd = 0,
            !.cap = b.cap + b.rd,
            !.broken = @ \/ b.cap > b.alloc]

\* expand_capacity
ExpandCapacity(b) ==
  LET doubled == (b.cap * 2) % SizeRange
      size == IF doubled > MaxCapacity THEN MaxCapacity ELSE doubled
  IN  [b EXCEPT !.alloc = size,
                !.cap = size,
                !.mem = [i \in 0 .. size - 1 |->
                           IF i \in DOMAIN b.mem THEN b.mem[i] ELSE Blank],
                !.broken = @ \/ b.cap > size \/ b.cap > b.alloc]

\* memcpy of the next n bytes of the stream to the write section.
Write(b, n) ==
  [b EXCEPT !.mem = [i \in DOMAIN b.mem |->
                       IF i \in b.wr .. b.wr + n - 1
                       THEN appended + 1 + i - b.wr ELSE b.mem[i]],
            !.wr = b.wr + n,
            !.broken = @ \/ b.wr + n > b.alloc]

\* append refuses n bytes.
Refused(b, n) == n > Writable(b) /\ n > MaxWritable(b)

\* Mutant of MakeRoom: what max_writable_bytes allows is not shifted for.
BugMakeRoomTrusts(b, n) ==
  IF n <= MaxWritable(b) THEN b ELSE ExpandCapacity(MoveForward(b))

\* What append does to the buffer before the memcpy.
MakeRoom(b, n) ==
  LET moved == MoveForward(b)
  IN  IF n <= Writable(b) THEN b
      ELSE IF n > MaxWritable(moved) THEN ExpandCapacity(moved) ELSE moved

AppendBytes(n) ==
  /\ ~buf.broken
  /\ appended + n <= MaxBytes
  /\ ~Refused(buf, n)
  /\ buf' = Write(MakeRoom(buf, n), n)
  /\ appended' = appended + n
  /\ consumed' = consumed

\* append with ec = ExceedBufferBound.
AppendRefused(n) ==
  /\ ~buf.broken
  /\ Refused(buf, n)
  /\ UNCHANGED vars

\* Mutant of Consume: the test takes the writable bytes for the readable ones.
BugConsumeTestsWritable(n) ==
  /\ ~buf.broken
  /\ n <= Writable(buf)
  /\ buf' = [buf EXCEPT !.rd = @ + n]
  /\ consumed' = consumed + n
  /\ appended' = appended

\* consume with ec left alone.
Consume(n) ==
  /\ ~buf.broken
  /\ n <= Readable(buf)
  /\ buf' = [buf EXCEPT !.rd = @ + n]
  /\ consumed' = consumed + n
  /\ appended' = appended

\* consume with ec = ExceedBufferBound.
ConsumeRefused(n) ==
  /\ ~buf.broken
  /\ n > Readable(buf)
  /\ UNCHANGED vars

Next ==
  \E n \in 1 .. MaxChunk :
    AppendBytes(n) \/ AppendRefused(n) \/ Consume(n) \/ ConsumeRefused(n)

Spec == Init /\ [][Next]_vars

-----------------------------------------------------------------------------
(* Properties                                                              *)

\* The fields are naturals and the indexes in order.
TypeOK ==
  /\ buf.alloc \in Nat /\ buf.cap \in Nat /\ buf.rd \in Nat /\ buf.wr \in Nat
  /\ buf.rd <= buf.wr
  /\ DOMAIN buf.mem = 0 .. buf.alloc - 1
  /\ buf.broken \in BOOLEAN
  /\ appended \in 0 .. MaxBytes
  /\ consumed \in 0 .. appended

\* As long as every access stays in the allocation, the read section holds
\* exactly the bytes that were accepted and not yet consumed, in order, however
\* often move_forward has shifted them.
ContentIsStream ==
  ~buf.broken =>
    /\ Readable(buf) = appended - consumed
    /\ \A i \in buf.rd .. buf.wr - 1 : buf.mem[i] = consumed + 1 + i - buf.rd

\* An access leaves the allocation for one of two reasons only: append has taken
\* more unread bytes than the allocation holds, or an earlier move_forward has
\* added to capacity_ what it only shifted.  A buffer that was never shifted and
\* whose content fits is safe, wherever its indexes are.
OverflowCauses ==
  buf.broken => appended - consumed > InitCapacity \/ buf.cap > InitCapacity

=============================================================================
