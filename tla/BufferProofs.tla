---------------------------- MODULE BufferProofs -----------------------------
(***************************************************************************)
(* Proofs about DynamicBuffer, for any sizes, thresholds and chunks.       *)
(***************************************************************************)
EXTENDS DynamicBuffer, TLAPS

-----------------------------------------------------------------------------
(* The sizes and the operations on the buffer                              *)

\* size_t arithmetic that stays in range is exact.
LEMMA ModSmall ==
  ASSUME NEW x \in Nat, x < SizeRange
  PROVE  x % SizeRange = x
BY SizeAssumption

Buffers ==
  [alloc : Nat, cap : Nat, rd : Nat, wr : Nat,
   mem : [0 .. InitCapacity - 1 -> Nat], broken : BOOLEAN]

\* A buffer in its first allocation whose indexes are inside.  capacity_ is at
\* least what is allocated: move_forward may have added to it once.
Sound(b) ==
  /\ b \in Buffers
  /\ b.alloc = InitCapacity
  /\ b.rd <= b.wr /\ b.wr <= InitCapacity
  /\ InitCapacity <= b.cap /\ b.cap <= 2 * InitCapacity

\* The sizes such a buffer reports do not wrap.  max_writable_bytes counts what
\* is in front of the read index at most once.
LEMMA Sizes ==
  ASSUME NEW b, Sound(b)
  PROVE  /\ Readable(b) = b.wr - b.rd
         /\ Writable(b) = b.cap - b.wr
         /\ MaxWritable(b) \in Nat
         /\ MaxWritable(b) <= MaxCapacity - b.wr + b.rd
<1>1. /\ b.cap \in Nat /\ b.rd \in Nat /\ b.wr \in Nat
      /\ b.rd <= b.wr /\ b.wr <= InitCapacity
      /\ InitCapacity <= b.cap /\ b.cap <= 2 * InitCapacity
  BY DEF Sound, Buffers
<1>2. Readable(b) = b.wr - b.rd
  <2>1. b.wr - b.rd \in Nat /\ b.wr - b.rd < SizeRange
    BY <1>1, SizeAssumption
  <2> QED
    BY <2>1, ModSmall DEF Readable
<1>3. Writable(b) = b.cap - b.wr
  <2>1. b.cap - b.wr \in Nat /\ b.cap - b.wr < SizeRange
    BY <1>1, SizeAssumption
  <2> QED
    BY <2>1, ModSmall DEF Writable
<1> DEFINE reusable == IF b.rd >= Threshold THEN b.rd ELSE 0
           total == MaxCapacity - b.cap + (b.cap - b.wr) + reusable
<1>4. /\ reusable \in Nat /\ reusable <= b.rd
      /\ total \in Nat /\ total < SizeRange
      /\ total = MaxCapacity - b.wr + reusable
  BY <1>1, SizeAssumption
<1>5. MaxWritable(b) = total % SizeRange
  BY <1>3 DEF MaxWritable, Prependable
<1> HIDE DEF total, reusable
<1>6. MaxWritable(b) = total
  BY <1>4, <1>5, ModSmall
<1> QED
  BY <1>1, <1>2, <1>3, <1>4, <1>6, SizeAssumption

\* move_forward brings the read section to the front.
LEMMA MoveFacts ==
  ASSUME NEW b, Sound(b), ~b.broken
  PROVE  LET m == MoveForward(b)
         IN  /\ m \in Buffers
             /\ m.alloc = InitCapacity
             /\ m.wr = b.wr - b.rd /\ m.rd = 0 /\ m.cap = b.cap + b.rd
             /\ m.broken <=> b.cap > InitCapacity
             /\ \A i \in 0 .. b.wr - b.rd - 1 : m.mem[i] = b.mem[i + b.rd]
<1>1. /\ b \in Buffers
      /\ b.cap \in Nat /\ b.rd \in Nat /\ b.wr \in Nat
      /\ b.mem \in [0 .. InitCapacity - 1 -> Nat]
      /\ b.rd <= b.wr /\ b.wr <= InitCapacity /\ InitCapacity <= b.cap
      /\ b.alloc = InitCapacity
  BY DEF Sound, Buffers
<1> DEFINE m == MoveForward(b)
           mem == [i \in DOMAIN b.mem |->
                     IF i < b.cap - b.rd /\ i + b.rd \in DOMAIN b.mem
                     THEN b.mem[i + b.rd] ELSE b.mem[i]]
           broken == b.broken \/ b.cap > b.alloc
<1>2. mem \in [0 .. InitCapacity - 1 -> Nat]
  BY <1>1
<1>3. ASSUME NEW i \in 0 .. b.wr - b.rd - 1 PROVE mem[i] = b.mem[i + b.rd]
  <2>1. /\ i \in 0 .. InitCapacity - 1 /\ i + b.rd \in 0 .. InitCapacity - 1
        /\ i < b.cap - b.rd
    BY <1>1, SizeAssumption
  <2> QED
    BY <1>1, <2>1
<1>4. broken \in BOOLEAN /\ (broken <=> b.cap > InitCapacity)
  BY <1>1
<1>5. m = [b EXCEPT !.mem = mem, !.wr = b.wr - b.rd, !.rd = 0,
                    !.cap = b.cap + b.rd, !.broken = broken]
  BY Zenon DEF MoveForward
<1>6. b.wr - b.rd \in Nat /\ b.cap + b.rd \in Nat /\ 0 \in Nat
  BY <1>1
<1> HIDE DEF m, mem, broken
<1>7. m \in Buffers
  BY <1>1, <1>2, <1>4, <1>5, <1>6 DEF Buffers
<1>8. /\ m.alloc = InitCapacity
      /\ m.wr = b.wr - b.rd /\ m.rd = 0 /\ m.cap = b.cap + b.rd
      /\ m.mem = mem /\ m.broken = broken
  BY <1>1, <1>5 DEF Buffers
<1> QED
  BY <1>3, <1>4, <1>7, <1>8 DEF m

\* memcpy puts the next n bytes of the stream behind the write index.
LEMMA WriteFacts ==
  ASSUME NEW b \in Buffers, b.alloc = InitCapacity, NEW n \in Nat, appended \in Nat
  PROVE  LET r == Write(b, n)
         IN  /\ r \in Buffers
             /\ r.alloc = InitCapacity
             /\ r.wr = b.wr + n /\ r.rd = b.rd /\ r.cap = b.cap
             /\ r.broken <=> (b.broken \/ b.wr + n > InitCapacity)
             /\ \A i \in 0 .. InitCapacity - 1 :
                  r.mem[i] = IF i \in b.wr .. b.wr + n - 1
                             THEN appended + 1 + i - b.wr ELSE b.mem[i]
<1>1. /\ b.cap \in Nat /\ b.rd \in Nat /\ b.wr \in Nat
      /\ b.mem \in [0 .. InitCapacity - 1 -> Nat]
  BY DEF Buffers
<1> DEFINE r == Write(b, n)
           mem == [i \in DOMAIN b.mem |->
                     IF i \in b.wr .. b.wr + n - 1
                     THEN appended + 1 + i - b.wr ELSE b.mem[i]]
           broken == b.broken \/ b.wr + n > b.alloc
<1>2. mem \in [0 .. InitCapacity - 1 -> Nat]
  <2> SUFFICES ASSUME NEW i \in 0 .. InitCapacity - 1
               PROVE  (IF i \in b.wr .. b.wr + n - 1
                       THEN appended + 1 + i - b.wr ELSE b.mem[i]) \in Nat
    BY <1>1
  <2> QED
    BY <1>1, SizeAssumption
<1>3. broken \in BOOLEAN /\ (broken <=> (b.broken \/ b.wr + n > InitCapacity))
  OBVIOUS
<1>4. r = [b EXCEPT !.mem = mem, !.wr = b.wr + n, !.broken = broken]
  BY Zenon DEF Write
<1>5. b.wr + n \in Nat
  BY <1>1
<1>6. \A i \in 0 .. InitCapacity - 1 :
        mem[i] = IF i \in b.wr .. b.wr + n - 1 THEN appended + 1 + i - b.wr ELSE b.mem[i]
  BY <1>1
<1> HIDE DEF r, mem, broken
<1>7. r \in Buffers
  BY <1>2, <1>3, <1>4, <1>5 DEF Buffers
<1>8. /\ r.alloc = InitCapacity
      /\ r.wr = b.wr + n /\ r.rd = b.rd /\ r.cap = b.cap
      /\ r.mem = mem /\ r.broken = broken
  BY <1>4 DEF Buffers
<1> QED
  BY <1>3, <1>6, <1>7, <1>8 DEF r

\* What append accepts either fits behind the write index or is within
\* max_writable_bytes after move_forward: expand_capacity is not called.
LEMMA RoomFacts ==
  ASSUME NEW b, Sound(b), ~b.broken, NEW n \in Nat, ~Refused(b, n)
  PROVE  \/ MakeRoom(b, n) = b /\ n <= b.cap - b.wr
         \/ MakeRoom(b, n) = MoveForward(b)
<1> DEFINE m == MoveForward(b)
<1>1. /\ b.cap \in Nat /\ b.rd \in Nat /\ b.wr \in Nat
      /\ b.rd <= b.wr /\ b.wr <= InitCapacity
      /\ InitCapacity <= b.cap /\ b.cap <= 2 * InitCapacity
  BY DEF Sound, Buffers
<1>2. /\ Writable(b) = b.cap - b.wr
      /\ MaxWritable(b) \in Nat /\ MaxWritable(b) <= MaxCapacity - b.wr + b.rd
  BY Sizes
<1>3. CASE n <= Writable(b)
  BY <1>2, <1>3 DEF MakeRoom
<1>4. CASE ~(n <= Writable(b))
  <2>1. n <= MaxCapacity - b.wr + b.rd
    BY <1>1, <1>2, <1>4, SizeAssumption DEF Refused
  <2>2. m.wr = b.wr - b.rd /\ m.rd = 0 /\ m.cap = b.cap + b.rd
    BY MoveFacts
  <2> HIDE DEF m
  <2>3. Writable(m) = b.cap + b.rd - (b.wr - b.rd)
    <3> DEFINE room == b.cap + b.rd - (b.wr - b.rd)
    <3>1. room \in Nat /\ room < SizeRange
      BY <1>1, SizeAssumption
    <3>2. Writable(m) = room % SizeRange
      <4>1. Writable(m) = (m.cap - m.wr) % SizeRange
        BY Zenon DEF Writable
      <4>2. m.cap - m.wr = room
        BY <1>1, <2>2
      <4> HIDE DEF room
      <4> QED
        BY Zenon, <4>1, <4>2
    <3> HIDE DEF room
    <3>3. Writable(m) = room
      BY <3>1, <3>2, ModSmall
    <3> QED
      BY <3>3 DEF room
  <2>4. MaxWritable(m) = MaxCapacity - (b.wr - b.rd)
    <3> DEFINE total == MaxCapacity - (b.cap + b.rd) + (b.cap + b.rd - (b.wr - b.rd)) + 0
    <3>1. /\ total \in Nat /\ total < SizeRange
          /\ total = MaxCapacity - (b.wr - b.rd)
      BY <1>1, SizeAssumption
    <3>2. MaxWritable(m) = total % SizeRange
      BY <2>2, <2>3 DEF MaxWritable, Prependable
    <3> HIDE DEF total
    <3> QED
      BY <3>1, <3>2, ModSmall
  <2>5. ~(n > MaxWritable(m))
    BY <1>1, <2>1, <2>4, SizeAssumption
  <2> QED
    BY <1>4, <2>5 DEF MakeRoom, m
<1> QED
  BY <1>3, <1>4

-----------------------------------------------------------------------------
(* The inductive invariant                                                 *)

\* The read section holds the bytes consumed + 1, consumed + 2, ...
Content(b) ==
  \A i \in b.rd .. b.wr - 1 : b.mem[i] = consumed + 1 + i - b.rd

\* The buffer has its first allocation, holds as many bytes as were accepted and
\* not consumed and, until an access goes outside, has them in order.
BufferInv ==
  /\ buf \in Buffers
  /\ buf.alloc = InitCapacity
  /\ buf.rd <= buf.wr
  /\ appended \in 0 .. MaxBytes
  /\ consumed \in 0 .. appended
  /\ buf.wr - buf.rd = appended - consumed
  /\ ~buf.broken => Sound(buf) /\ Content(buf)
  /\ OverflowCauses

\* A new buffer is empty.
LEMMA InitBuffer == Init => BufferInv
<1> SUFFICES ASSUME Init PROVE BufferInv
  OBVIOUS
<1>1. /\ buf.alloc = InitCapacity /\ buf.cap = InitCapacity
      /\ buf.rd = 0 /\ buf.wr = 0 /\ appended = 0 /\ consumed = 0
      /\ buf.broken = FALSE
  BY DEF Init
<1>2. buf \in Buffers
  BY SizeAssumption DEF Init, Buffers, Blank
<1>3. Sound(buf)
  BY <1>1, <1>2, SizeAssumption DEF Sound
<1>4. Content(buf)
  BY <1>1 DEF Content
<1> QED
  BY <1>1, <1>2, <1>3, <1>4, SizeAssumption DEF BufferInv, OverflowCauses

\* append of bytes it accepts.
LEMMA AppendBuffer ==
  ASSUME BufferInv, NEW n \in 1 .. MaxChunk, AppendBytes(n)
  PROVE  BufferInv'
<1> DEFINE b == buf
           m == MoveForward(b)
           r == buf'
<1>1. /\ ~b.broken /\ appended + n <= MaxBytes /\ ~Refused(b, n)
      /\ r = Write(MakeRoom(b, n), n)
      /\ appended' = appended + n /\ consumed' = consumed
  BY DEF AppendBytes
<1>2. /\ b \in Buffers /\ Sound(b) /\ Content(b)
      /\ b.wr - b.rd = appended - consumed
      /\ b.alloc = InitCapacity
      /\ appended \in Nat /\ consumed \in Nat /\ consumed <= appended /\ n \in Nat
      /\ b.cap \in Nat /\ b.rd \in Nat /\ b.wr \in Nat
      /\ b.rd <= b.wr /\ b.wr <= InitCapacity
      /\ InitCapacity <= b.cap /\ b.cap <= 2 * InitCapacity
      /\ InitCapacity \in Nat /\ MaxBytes \in Nat
  BY <1>1, SizeAssumption DEF BufferInv, Sound, Buffers
<1>3. appended' \in 0 .. MaxBytes /\ consumed' \in 0 .. appended'
  BY <1>1, <1>2
<1>4. CASE MakeRoom(b, n) = b /\ n <= b.cap - b.wr
  <2>1. /\ r \in Buffers /\ r.alloc = InitCapacity
        /\ r.wr = b.wr + n /\ r.rd = b.rd /\ r.cap = b.cap
        /\ r.broken <=> b.wr + n > InitCapacity
        /\ \A i \in 0 .. InitCapacity - 1 :
             r.mem[i] = IF i \in b.wr .. b.wr + n - 1
                        THEN appended + 1 + i - b.wr ELSE b.mem[i]
    <3> HIDE DEF b, r
    <3>1. r = Write(b, n)
      BY Zenon, <1>1, <1>4
    <3>2. LET w == Write(b, n)
          IN  /\ w \in Buffers
              /\ w.alloc = InitCapacity
              /\ w.wr = b.wr + n /\ w.rd = b.rd /\ w.cap = b.cap
              /\ w.broken <=> (b.broken \/ b.wr + n > InitCapacity)
              /\ \A i \in 0 .. InitCapacity - 1 :
                   w.mem[i] = IF i \in b.wr .. b.wr + n - 1
                              THEN appended + 1 + i - b.wr ELSE b.mem[i]
      BY Zenon, <1>2, WriteFacts
    <3> QED
      BY Zenon, <1>1, <3>1, <3>2
  <2> HIDE DEF r, b
  <2>2. r.rd <= r.wr /\ r.wr - r.rd = appended' - consumed'
    BY <1>1, <1>2, <2>1
  <2>3. r.broken => r.cap > InitCapacity
    BY <1>2, <1>4, <2>1
  <2>4. ASSUME ~r.broken PROVE Sound(r)
    BY <1>2, <2>1, <2>2, <2>4 DEF Sound
  <2>5. ASSUME ~r.broken, NEW i \in r.rd .. r.wr - 1
        PROVE  r.mem[i] = consumed' + 1 + i - r.rd
    <3>1. i \in 0 .. InitCapacity - 1 /\ i \in Int
      BY <1>2, <2>1, <2>5
    <3>2. CASE i \in b.wr .. b.wr + n - 1
      <4>1. r.mem[i] = appended + 1 + i - b.wr
        BY <2>1, <3>1, <3>2
      <4> QED
        BY <1>1, <1>2, <2>1, <3>1, <4>1
    <3>3. CASE i \notin b.wr .. b.wr + n - 1
      <4>1. i \in b.rd .. b.wr - 1
        BY <1>2, <2>1, <2>5, <3>1, <3>3
      <4>2. r.mem[i] = b.mem[i]
        BY <2>1, <3>1, <3>3
      <4> QED
        BY <1>1, <1>2, <2>1, <4>1, <4>2 DEF Content
    <3> QED
      BY <3>2, <3>3
  <2> QED
    BY <1>3, <2>1, <2>2, <2>3, <2>4, <2>5 DEF BufferInv, OverflowCauses, Content, r
<1>5. CASE MakeRoom(b, n) = m
  <2>1. /\ m \in Buffers /\ m.alloc = InitCapacity
        /\ m.wr = b.wr - b.rd /\ m.rd = 0 /\ m.cap = b.cap + b.rd
        /\ m.broken <=> b.cap > InitCapacity
        /\ \A i \in 0 .. b.wr - b.rd - 1 : m.mem[i] = b.mem[i + b.rd]
    BY <1>1, <1>2, MoveFacts
  <2> HIDE DEF m
  <2>2. /\ r \in Buffers /\ r.alloc = InitCapacity
        /\ r.wr = m.wr + n /\ r.rd = m.rd /\ r.cap = m.cap
        /\ r.broken <=> (m.broken \/ m.wr + n > InitCapacity)
        /\ \A i \in 0 .. InitCapacity - 1 :
             r.mem[i] = IF i \in m.wr .. m.wr + n - 1
                        THEN appended + 1 + i - m.wr ELSE m.mem[i]
    <3> HIDE DEF b, r
    <3>1. r = Write(m, n)
      BY Zenon, <1>1, <1>5
    <3>2. LET w == Write(m, n)
          IN  /\ w \in Buffers
              /\ w.alloc = InitCapacity
              /\ w.wr = m.wr + n /\ w.rd = m.rd /\ w.cap = m.cap
              /\ w.broken <=> (m.broken \/ m.wr + n > InitCapacity)
              /\ \A i \in 0 .. InitCapacity - 1 :
                   w.mem[i] = IF i \in m.wr .. m.wr + n - 1
                              THEN appended + 1 + i - m.wr ELSE m.mem[i]
      <4>1. m \in Buffers /\ m.alloc = InitCapacity /\ n \in Nat /\ appended \in Nat
        BY <1>2, <2>1
      <4> QED
        BY Zenon, <4>1, WriteFacts
    <3> QED
      BY Zenon, <3>1, <3>2
  <2> HIDE DEF r, b
  <2>3. /\ r.rd = 0 /\ r.wr = b.wr - b.rd + n /\ r.cap = b.cap + b.rd
        /\ r.rd <= r.wr /\ r.wr - r.rd = appended' - consumed'
    BY <1>1, <1>2, <2>1, <2>2
  <2>4. ASSUME r.broken
        PROVE  r.cap > InitCapacity \/ appended' - consumed' > InitCapacity
    <3>1. CASE m.broken
      BY <1>2, <2>1, <2>3, <3>1
    <3>2. CASE m.wr + n > InitCapacity
      BY <2>1, <2>3, <3>2, <1>2
    <3> QED
      BY <2>2, <2>4, <3>1, <3>2
  <2>5. ASSUME ~r.broken PROVE Sound(r)
    <3>1. ~(b.cap > InitCapacity) /\ ~(m.wr + n > InitCapacity)
      BY <2>1, <2>2, <2>5
    <3>2. r.wr <= InitCapacity /\ InitCapacity <= r.cap /\ r.cap <= 2 * InitCapacity
      BY <1>2, <2>1, <2>3, <3>1
    <3> QED
      BY <2>2, <2>3, <3>2 DEF Sound
  <2>6. ASSUME ~r.broken, NEW i \in r.rd .. r.wr - 1
        PROVE  r.mem[i] = consumed' + 1 + i - r.rd
    <3>1. i \in 0 .. InitCapacity - 1 /\ i \in Int
      <4>1. ~(m.wr + n > InitCapacity)
        BY <2>2, <2>6
      <4> QED
        BY <1>2, <2>1, <2>3, <2>6, <4>1
    <3>2. CASE i \in m.wr .. m.wr + n - 1
      <4>1. r.mem[i] = appended + 1 + i - m.wr
        BY <2>2, <3>1, <3>2
      <4> QED
        BY <1>1, <1>2, <2>1, <2>3, <3>1, <4>1
    <3>3. CASE i \notin m.wr .. m.wr + n - 1
      <4>1. i \in 0 .. b.wr - b.rd - 1 /\ i + b.rd \in b.rd .. b.wr - 1
        BY <1>2, <2>1, <2>3, <3>1, <3>3
      <4>2. r.mem[i] = b.mem[i + b.rd]
        BY <2>1, <2>2, <3>1, <3>3, <4>1
      <4>3. b.mem[i + b.rd] = consumed + 1 + (i + b.rd) - b.rd
        BY <1>2, <4>1 DEF Content
      <4> QED
        BY <1>1, <1>2, <2>3, <3>1, <4>2, <4>3
    <3> QED
      BY <3>2, <3>3
  <2> QED
    BY <1>3, <2>2, <2>3, <2>4, <2>5, <2>6 DEF BufferInv, OverflowCauses, Content, r
<1> QED
  BY <1>1, <1>2, <1>4, <1>5, RoomFacts

\* consume of bytes that are there.
LEMMA ConsumeBuffer ==
  ASSUME BufferInv, NEW n \in 1 .. MaxChunk, Consume(n)
  PROVE  BufferInv'
<1> DEFINE b == buf
           r == buf'
<1>1. /\ ~b.broken /\ n <= Readable(b)
      /\ r = [b EXCEPT !.rd = @ + n]
      /\ consumed' = consumed + n /\ appended' = appended
  BY DEF Consume
<1>2. /\ b \in Buffers /\ Sound(b) /\ Content(b)
      /\ b.wr - b.rd = appended - consumed
      /\ b.alloc = InitCapacity
      /\ appended \in 0 .. MaxBytes /\ consumed \in 0 .. appended /\ n \in Nat
      /\ b.cap \in Nat /\ b.rd \in Nat /\ b.wr \in Nat
      /\ b.wr <= InitCapacity
      /\ InitCapacity <= b.cap /\ b.cap <= 2 * InitCapacity
      /\ InitCapacity \in Nat /\ MaxBytes \in Nat
  <2>1. /\ b \in Buffers /\ Sound(b) /\ Content(b)
        /\ b.wr - b.rd = appended - consumed
        /\ b.alloc = InitCapacity
        /\ appended \in 0 .. MaxBytes /\ consumed \in 0 .. appended
    BY Zenon, <1>1 DEF BufferInv
  <2>2. n \in Nat /\ InitCapacity \in Nat /\ MaxBytes \in Nat
    BY SizeAssumption
  <2>3. /\ b.cap \in Nat /\ b.rd \in Nat /\ b.wr \in Nat
        /\ b.wr <= InitCapacity
        /\ InitCapacity <= b.cap /\ b.cap <= 2 * InitCapacity
    <3> HIDE DEF b
    <3> QED
      BY <2>1 DEF Sound, Buffers
  <2> QED
    BY <2>1, <2>2, <2>3
<1>3. n <= b.wr - b.rd
  BY <1>1, <1>2, Sizes
<1>4. /\ r.alloc = b.alloc /\ r.cap = b.cap /\ r.wr = b.wr /\ r.rd = b.rd + n
      /\ r.mem = b.mem /\ r.broken = b.broken
      /\ r \in Buffers
  <2>1. b.rd + n \in Nat
    BY <1>2
  <2> QED
    BY <1>1, <1>2, <2>1 DEF Buffers
<1> HIDE DEF r, b
<1>5. /\ r.rd <= r.wr /\ r.wr - r.rd = appended' - consumed'
      /\ appended' \in 0 .. MaxBytes /\ consumed' \in 0 .. appended'
  BY <1>1, <1>2, <1>3, <1>4
<1>6. Sound(r)
  BY <1>2, <1>4, <1>5 DEF Sound
<1>7. ASSUME NEW i \in r.rd .. r.wr - 1
      PROVE  r.mem[i] = consumed' + 1 + i - r.rd
  <2>1. i \in b.rd .. b.wr - 1 /\ i \in Int
    BY <1>2, <1>4
  <2>2. b.mem[i] = consumed + 1 + i - b.rd
    BY <1>2, <2>1 DEF Content
  <2> QED
    BY <1>1, <1>2, <1>4, <2>1, <2>2
<1> QED
  BY <1>1, <1>2, <1>4, <1>5, <1>6, <1>7 DEF BufferInv, OverflowCauses, Content, r

\* Every step keeps the inductive invariant.
LEMMA NextBuffer == BufferInv /\ [Next]_vars => BufferInv'
<1> SUFFICES ASSUME BufferInv, [Next]_vars PROVE BufferInv'
  OBVIOUS
<1>1. CASE UNCHANGED vars
  BY <1>1 DEF vars, BufferInv, OverflowCauses, Content
<1>2. ASSUME NEW n \in 1 .. MaxChunk, AppendRefused(n) \/ ConsumeRefused(n)
      PROVE  UNCHANGED vars
  BY <1>2 DEF AppendRefused, ConsumeRefused
<1> QED
  BY <1>1, <1>2, AppendBuffer, ConsumeBuffer DEF Next

-----------------------------------------------------------------------------
(* Theorems                                                                *)

\* Type correctness of the buffer.
THEOREM BufferTypeCorrect == Spec => []TypeOK
<1>1. BufferInv => TypeOK
  BY SizeAssumption DEF BufferInv, TypeOK, Buffers
<1> QED
  BY <1>1, InitBuffer, NextBuffer, PTL DEF Spec

\* Up to the first access outside the allocation the buffer gives back the
\* stream it was given, whatever append and consume have shifted.
THEOREM ContentTheorem == Spec => []ContentIsStream
<1>1. BufferInv => ContentIsStream
  BY Sizes DEF BufferInv, ContentIsStream, Content
<1> QED
  BY <1>1, InitBuffer, NextBuffer, PTL DEF Spec

\* An access leaves the allocation only after a move_forward has added to
\* capacity_, or when the unread bytes do not fit.
THEOREM OverflowTheorem == Spec => []OverflowCauses
<1>1. BufferInv => OverflowCauses
  BY DEF BufferInv
<1> QED
  BY <1>1, InitBuffer, NextBuffer, PTL DEF Spec

=============================================================================
