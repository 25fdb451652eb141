--------------------------- MODULE TaskQueueProofs ---------------------------
(***************************************************************************)
(* Proofs about TaskQueue: the ring of BoundedQueue implements the bounded *)
(* sequence of TaskFifo, for any capacity and any batch that fits it.      *)
(***************************************************************************)
EXTENDS TaskQueue, SequenceTheorems, TLAPS

-----------------------------------------------------------------------------
(* The ring                                                                *)

Cells == Values \cup {Garbage}

\* A ring whose is_empty_ is set has its indexes together.
Sound(r) == r \in Rings /\ (Empty(r) => r.head = r.tail)

\* An index that has gone round once comes back modulo capacity_.
LEMMA Wrapped ==
  ASSUME NEW x \in Nat, NEW y \in Nat, y < Capacity, x = y \/ x = y + Capacity
  PROVE  x % Capacity = y
<1>1. Capacity \in Nat \ {0}
  BY CapacityAssumption
<1>2. /\ x % Capacity \in 0 .. Capacity - 1 /\ x \div Capacity \in Nat
      /\ x = Capacity * (x \div Capacity) + (x % Capacity)
  BY <1>1
<1> QED
  BY <1>1, <1>2

\* The fields of a ring.
LEMMA RingFields ==
  ASSUME NEW r, Sound(r)
  PROVE  /\ Capacity \in Nat \ {0}
         /\ r.head \in 0 .. Capacity - 1 /\ r.tail \in 0 .. Capacity - 1
         /\ r.data \in [0 .. Capacity - 1 -> Cells] /\ r.isEmpty \in BOOLEAN
         /\ r.isEmpty => r.head = r.tail
  BY CapacityAssumption DEF Sound, Rings, Cells, Empty

\* Count tells an empty ring, a full one and the place of the next push.
LEMMA Counts ==
  ASSUME NEW r, Sound(r)
  PROVE  /\ Count(r) \in 0 .. Capacity
         /\ Empty(r) <=> Count(r) = 0
         /\ Full(r) <=> Count(r) = Capacity
         /\ r.tail = (r.head + Count(r)) % Capacity
<1>1. Count(r) \in 0 .. Capacity
  BY RingFields DEF Count
<1>2. Empty(r) <=> Count(r) = 0
  BY RingFields DEF Count, Empty
<1>3. Full(r) <=> Count(r) = Capacity
  BY RingFields DEF Count, Full
<1>4. r.tail = (r.head + Count(r)) % Capacity
  <2> DEFINE x == r.head + Count(r)
  <2>1. x \in Nat /\ (x = r.tail \/ x = r.tail + Capacity)
    BY RingFields DEF Count
  <2> HIDE DEF x
  <2>2. x % Capacity = r.tail
    BY <2>1, RingFields, Wrapped
  <2> QED
    BY <2>2 DEF x
<1> QED
  BY <1>1, <1>2, <1>3, <1>4

\* What the ring holds, as a sequence.
LEMMA ItemsFacts ==
  ASSUME NEW r, Sound(r)
  PROVE  /\ Items(r) \in Seq(Cells) /\ Len(Items(r)) = Count(r)
         /\ \A i \in 1 .. Count(r) :
              /\ (r.head + i - 1) % Capacity \in 0 .. Capacity - 1
              /\ Items(r)[i] = r.data[(r.head + i - 1) % Capacity]
<1> DEFINE n == Count(r)
<1>1. n \in Nat
  BY Counts
<1>2. ASSUME NEW i \in 1 .. n
      PROVE  /\ (r.head + i - 1) % Capacity \in 0 .. Capacity - 1
             /\ r.data[(r.head + i - 1) % Capacity] \in Cells
  <2>1. r.head + i - 1 \in Nat
    BY <1>1, RingFields
  <2>2. (r.head + i - 1) % Capacity \in 0 .. Capacity - 1
    BY <2>1, RingFields
  <2> QED
    BY <2>2, RingFields
<1>3. Items(r) = [i \in 1 .. n |-> r.data[(r.head + i - 1) % Capacity]]
  BY DEF Items
<1> HIDE DEF n
<1>4. Items(r) \in [1 .. n -> Cells] /\ \A i \in 1 .. n : Items(r)[i] = r.data[(r.head + i - 1) % Capacity]
  BY <1>2, <1>3
<1>5. Items(r) \in Seq(Cells) /\ Len(Items(r)) = n
  BY <1>1, <1>4
<1> QED
  BY <1>2, <1>4, <1>5 DEF n

\* push appends, unless the ring is full.
LEMMA PushFacts ==
  ASSUME NEW r, Sound(r), NEW v \in Values
  PROVE  /\ Sound(Push(r, v))
         /\ Items(Push(r, v)) = IF Count(r) = Capacity THEN Items(r) ELSE Append(Items(r), v)
<1>1. CASE Full(r)
  BY <1>1, Counts DEF Push
<1>2. CASE ~Full(r)
  <2> DEFINE p == Push(r, v)
             next == (r.tail + 1) % Capacity
             data == [r.data EXCEPT ![r.tail] = v]
  <2>1. next = IF r.tail + 1 < Capacity THEN r.tail + 1 ELSE 0
    <3> DEFINE x == r.tail + 1
               y == IF r.tail + 1 < Capacity THEN r.tail + 1 ELSE 0
    <3>1. x \in Nat /\ y \in Nat /\ y < Capacity /\ (x = y \/ x = y + Capacity)
      BY RingFields
    <3> HIDE DEF x, y
    <3>2. x % Capacity = y
      BY <3>1, Wrapped
    <3> QED
      BY <3>2 DEF x, y
  <2>2. p = [data |-> data, head |-> r.head, tail |-> next, isEmpty |-> FALSE]
    BY <1>2 DEF Push, Sound, Rings
  <2>3. data \in [0 .. Capacity - 1 -> Cells] /\ next \in 0 .. Capacity - 1
    BY <2>1, RingFields DEF Cells
  <2>4. /\ p.data = data /\ p.head = r.head /\ p.tail = next /\ p.isEmpty = FALSE
    BY <2>2
  <2>5. Sound(p)
    BY <2>2, <2>3, <2>4, RingFields DEF Sound, Rings, Empty, Cells
  <2>6. Count(r) \in 0 .. Capacity /\ Count(r) # Capacity
    BY <1>2, Counts
  <2> HIDE DEF next, data, p
  <2>7. Count(p) = Count(r) + 1
    BY <2>1, <2>4, <2>6, RingFields DEF Count
  <2>8. ASSUME NEW i \in 1 .. Count(r) + 1
        PROVE  Items(p)[i] = Append(Items(r), v)[i]
    <3> DEFINE at == (r.head + i - 1) % Capacity
    <3>1. Items(p)[i] = data[at] /\ at \in 0 .. Capacity - 1
      BY <2>4, <2>5, <2>6, <2>7, ItemsFacts
    <3>2. /\ Items(r) \in Seq(Cells) /\ Len(Items(r)) = Count(r)
      BY ItemsFacts
    <3>3. CASE i = Count(r) + 1
      <4>1. at = r.tail
        BY <2>6, <3>3, Counts, RingFields
      <4>2. Append(Items(r), v)[i] = v
        BY <3>2, <3>3, AppendProperties DEF Cells
      <4> QED
        BY <3>1, <4>1, <4>2, RingFields DEF data
    <3>4. CASE i # Count(r) + 1
      <4>1. i \in 1 .. Count(r)
        BY <2>6, <3>4
      <4>2. Append(Items(r), v)[i] = Items(r)[i] /\ Items(r)[i] = r.data[at]
        BY <3>2, <4>1, AppendProperties, ItemsFacts DEF Cells
      <4>3. at # r.tail
        <5> DEFINE x == r.head + i - 1
                   y == IF r.head + i - 1 < Capacity THEN r.head + i - 1
                        ELSE r.head + i - 1 - Capacity
        <5>1. x \in Nat /\ y \in Nat /\ y < Capacity /\ (x = y \/ x = y + Capacity)
          BY <2>6, <4>1, RingFields
        <5>2. y # r.tail
          BY <2>6, <4>1, RingFields DEF Count
        <5> HIDE DEF x, y
        <5>3. x % Capacity = y
          BY <5>1, Wrapped
        <5> QED
          BY <5>2, <5>3 DEF x
      <4> HIDE DEF at
      <4> QED
        BY <3>1, <4>2, <4>3, RingFields DEF data
    <3> QED
      BY <3>3, <3>4
  <2>9. /\ Append(Items(r), v) \in Seq(Cells) /\ Len(Append(Items(r), v)) = Count(r) + 1
        /\ Items(p) \in Seq(Cells) /\ Len(Items(p)) = Count(r) + 1
    BY <2>5, <2>7, ItemsFacts, AppendProperties DEF Cells
  <2>10. Items(p) = Append(Items(r), v)
    BY <2>8, <2>9, SeqEqual
  <2> QED
    BY <2>5, <2>6, <2>10 DEF p
<1> QED
  BY <1>1, <1>2

\* pop takes the oldest away, which front has returned.
LEMMA PopFacts ==
  ASSUME NEW r, Sound(r), ~Empty(r)
  PROVE  /\ Sound(Pop(r))
         /\ Items(Pop(r)) = Tail(Items(r))
         /\ Front(r) = Items(r)[1] /\ Items(r) # <<>>
<1> DEFINE p == Pop(r)
           next == (r.head + 1) % Capacity
           empty == (r.tail = next)
<1>1. next = IF r.head + 1 < Capacity THEN r.head + 1 ELSE 0
  <2> DEFINE x == r.head + 1
             y == IF r.head + 1 < Capacity THEN r.head + 1 ELSE 0
  <2>1. x \in Nat /\ y \in Nat /\ y < Capacity /\ (x = y \/ x = y + Capacity)
    BY RingFields
  <2> HIDE DEF x, y
  <2>2. x % Capacity = y
    BY <2>1, Wrapped
  <2> QED
    BY <2>2 DEF x, y
<1>2. Count(r) \in 1 .. Capacity
  BY Counts
<1>3. /\ Items(r) \in Seq(Cells) /\ Len(Items(r)) = Count(r)
  BY ItemsFacts
<1>4. Items(r) # <<>>
  BY <1>2, <1>3
<1>5. Front(r) = Items(r)[1]
  <2>1. 1 \in 1 .. Count(r)
    BY <1>2
  <2>2. Items(r)[1] = r.data[(r.head + 1 - 1) % Capacity]
    BY <2>1, ItemsFacts
  <2>3. (r.head + 1 - 1) % Capacity = r.head
    BY RingFields, Wrapped
  <2> QED
    BY <2>2, <2>3 DEF Front
<1>6. p.data = r.data /\ p.head = next /\ p.tail = r.tail /\ p.isEmpty = empty /\ p \in Rings
  <2>1. next \in 0 .. Capacity - 1
    BY <1>1, RingFields
  <2> DEFINE mid == [r EXCEPT !.head = next]
  <2>2. /\ mid \in Rings /\ mid.data = r.data /\ mid.head = next /\ mid.tail = r.tail
        /\ mid.isEmpty = r.isEmpty
    BY <2>1 DEF Sound, Rings
  <2>3. p = [mid EXCEPT !.isEmpty = r.isEmpty \/ r.tail = next]
    BY DEF Pop
  <2>4. (r.isEmpty \/ r.tail = next) = empty
    BY RingFields DEF Empty
  <2> HIDE DEF mid, p, next
  <2>5. p = [mid EXCEPT !.isEmpty = empty]
    BY <2>3, <2>4
  <2>6. empty \in BOOLEAN
    OBVIOUS
  <2> HIDE DEF empty
  <2> QED
    BY <2>2, <2>5, <2>6 DEF Rings
<1>a. (r.tail = next => p.isEmpty = TRUE) /\ (r.tail # next => p.isEmpty = FALSE)
  BY <1>6, Zenon
<1> HIDE DEF p, next, empty
<1>7. Sound(p)
  BY <1>6, <1>a DEF Sound, Empty
<1>8. Count(p) = Count(r) - 1
  <2>1. CASE r.tail = next
    BY <1>1, <1>2, <1>6, <2>1, <1>a, RingFields DEF Count, Empty
  <2>2. CASE r.tail # next
    <3>1. Count(p) = IF r.tail > next THEN r.tail - next ELSE Capacity + r.tail - next
      BY <1>6, <1>a, <2>2 DEF Count
    <3>2. Count(r) = IF r.tail > r.head THEN r.tail - r.head ELSE Capacity + r.tail - r.head
      BY DEF Count, Empty
    <3>3. /\ r.head \in Nat /\ r.tail \in Nat /\ Capacity \in Nat
          /\ r.head < Capacity /\ r.tail < Capacity
      BY RingFields
    <3>4. CASE next = r.head + 1
      BY <2>2, <3>1, <3>2, <3>3, <3>4
    <3>5. CASE next = 0 /\ r.head = Capacity - 1
      BY <2>2, <3>1, <3>2, <3>3, <3>5
    <3> QED
      BY <1>1, <3>3, <3>4, <3>5
  <2> QED
    BY <2>1, <2>2
<1>9. ASSUME NEW i \in 1 .. Count(r) - 1
      PROVE  Items(p)[i] = Tail(Items(r))[i]
  <2>1. Items(p)[i] = r.data[(next + i - 1) % Capacity]
    BY <1>6, <1>7, <1>8, ItemsFacts
  <2>2. Tail(Items(r))[i] = Items(r)[i + 1]
    BY <1>2, <1>3, <1>4, HeadTailProperties
  <2>3. Items(r)[i + 1] = r.data[(r.head + (i + 1) - 1) % Capacity]
    <3>1. i + 1 \in 1 .. Count(r)
      BY <1>2
    <3> QED
      BY <3>1, ItemsFacts
  <2>4. (next + i - 1) % Capacity = (r.head + (i + 1) - 1) % Capacity
    <3> DEFINE m == next + i - 1
               n == r.head + (i + 1) - 1
               y == IF r.head + i < Capacity THEN r.head + i ELSE r.head + i - Capacity
    <3>1. /\ m \in Nat /\ n \in Nat /\ y \in Nat /\ y < Capacity
          /\ (m = y \/ m = y + Capacity) /\ (n = y \/ n = y + Capacity)
      <4>1. i \in Nat /\ 1 <= i /\ i < Capacity /\ Capacity \in Nat
        BY <1>2, RingFields
      <4>2. r.head \in Nat /\ r.head < Capacity
        BY RingFields
      <4>3. CASE next = r.head + 1 /\ r.head + 1 < Capacity
        BY <4>1, <4>2, <4>3
      <4>4. CASE next = 0 /\ r.head = Capacity - 1
        BY <4>1, <4>2, <4>4
      <4> QED
        BY <1>1, <4>2, <4>3, <4>4, <4>1
    <3> HIDE DEF m, n, y
    <3>2. m % Capacity = y /\ n % Capacity = y
      BY <3>1, Wrapped
    <3> QED
      BY <3>2 DEF m, n
  <2> QED
    BY <2>1, <2>2, <2>3, <2>4
<1>10. /\ Tail(Items(r)) \in Seq(Cells) /\ Len(Tail(Items(r))) = Count(r) - 1
       /\ Items(p) \in Seq(Cells) /\ Len(Items(p)) = Count(r) - 1
  BY <1>3, <1>4, <1>7, <1>8, ItemsFacts, HeadTailProperties
<1>11. Items(p) = Tail(Items(r))
  BY <1>9, <1>10, SeqEqual
<1> QED
  BY <1>4, <1>5, <1>7, <1>11 DEF p

-----------------------------------------------------------------------------
(* Sequences of tasks                                                      *)

Smaller(m, n) == IF m < n THEN m ELSE n

\* A part of a sequence.
LEMMA PartFacts ==
  ASSUME NEW s \in Seq(Values), NEW m \in 1 .. Len(s) + 1, NEW n \in 0 .. Len(s)
  PROVE  /\ SubSeq(s, m, n) \in Seq(Values)
         /\ Len(SubSeq(s, m, n)) = IF m <= n THEN n - m + 1 ELSE 0
         /\ \A i \in 1 .. n - m + 1 : SubSeq(s, m, n)[i] = s[m + i - 1]
<1>1. Len(s) \in Nat /\ \A i \in 1 .. Len(s) : s[i] \in Values
  BY ElementOfSeq, LenProperties
<1>2. m \in Int /\ n \in Int /\ \A i \in m .. n : s[i] \in Values
  BY <1>1
<1> QED
  BY <1>2, SubSeqProperties

\* A part grows by the next element.
LEMMA PartGrows ==
  ASSUME NEW s \in Seq(Values), NEW n \in 0 .. Len(s) - 1
  PROVE  Append(SubSeq(s, 1, n), s[n + 1]) = SubSeq(s, 1, n + 1)
<1> DEFINE a == SubSeq(s, 1, n)
           b == SubSeq(s, 1, n + 1)
           v == s[n + 1]
<1>1. Len(s) \in Nat /\ n \in Nat /\ n + 1 \in 1 .. Len(s) /\ n \in 0 .. Len(s)
      /\ n + 1 \in 0 .. Len(s) /\ 1 \in 1 .. Len(s) + 1
  BY LenProperties
<1>2. v \in Values
  BY <1>1, ElementOfSeq
<1>3. a \in Seq(Values) /\ Len(a) = n /\ \A i \in 1 .. n : a[i] = s[i]
  <2>1. /\ a \in Seq(Values)
        /\ Len(a) = IF 1 <= n THEN n - 1 + 1 ELSE 0
        /\ \A i \in 1 .. n - 1 + 1 : a[i] = s[1 + i - 1]
    BY <1>1, PartFacts
  <2> QED
    BY <1>1, <2>1
<1>4. b \in Seq(Values) /\ Len(b) = n + 1 /\ \A i \in 1 .. n + 1 : b[i] = s[i]
  <2>1. /\ b \in Seq(Values)
        /\ Len(b) = IF 1 <= n + 1 THEN n + 1 - 1 + 1 ELSE 0
        /\ \A i \in 1 .. n + 1 - 1 + 1 : b[i] = s[1 + i - 1]
    BY <1>1, PartFacts
  <2> QED
    BY <1>1, <2>1
<1> HIDE DEF a, b, v
<1>5. /\ Append(a, v) \in Seq(Values) /\ Len(Append(a, v)) = n + 1
      /\ \A i \in 1 .. n : Append(a, v)[i] = a[i]
      /\ Append(a, v)[n + 1] = v
  BY <1>2, <1>3, AppendProperties
<1>6. \A i \in 1 .. n + 1 : Append(a, v)[i] = b[i]
  BY <1>1, <1>3, <1>4, <1>5 DEF v
<1>7. Append(a, v) = b
  BY <1>4, <1>5, <1>6, SeqEqual
<1> QED
  BY <1>7 DEF a, b, v

\* A part without its first element.
LEMMA PartTail ==
  ASSUME NEW s \in Seq(Values), NEW n \in 1 .. Len(s)
  PROVE  /\ Tail(SubSeq(s, 1, n)) = SubSeq(s, 2, n)
         /\ SubSeq(s, 1, n)[1] = s[1]
         /\ SubSeq(s, 1, n) # <<>>
<1>1. Len(s) \in Nat /\ 1 \in 1 .. Len(s) /\ n \in 1 .. Len(s) /\ 1 \in 1 .. Len(s) + 1
      /\ n \in 0 .. Len(s)
  BY LenProperties
<1>2. Tail(SubSeq(s, 1, n)) = SubSeq(s, 1 + 1, n)
  BY <1>1, HeadTailOfSubSeq
<1>3. /\ Len(SubSeq(s, 1, n)) = IF 1 <= n THEN n - 1 + 1 ELSE 0
      /\ \A i \in 1 .. n - 1 + 1 : SubSeq(s, 1, n)[i] = s[1 + i - 1]
  BY <1>1, PartFacts
<1>4. 1 + 1 = 2 /\ 1 \in 1 .. n - 1 + 1 /\ 1 + 1 - 1 = 1
  BY <1>1
<1>5. Len(SubSeq(s, 1, n)) # 0
  BY <1>1, <1>3
<1>6. SubSeq(s, 1, n) # <<>>
  BY <1>5, EmptySeq
<1> QED
  BY <1>2, <1>3, <1>4, <1>6

-----------------------------------------------------------------------------
(* The inductive invariant                                                 *)

\* While the loop of get_task runs, the ring holds the beginning of tmp_list, as
\* far as the loop has come and the ring is large; it holds tasks only.
RingFilled ==
  /\ Items(ring) \in Seq(Values)
  /\ IF tmpList = <<>> THEN pushed = 0
     ELSE Items(ring) = SubSeq(tmpList, 1, Smaller(pushed, Capacity))

\* get_tasks has spliced off no more than a batch.
BatchKept == Len(tmpList) <= BatchSize

QueueInv == TypeOK /\ RingFilled /\ BatchKept

\* The queue is empty at the beginning.
LEMMA InitQueue == Init => QueueInv
<1> SUFFICES ASSUME Init PROVE QueueInv
  OBVIOUS
<1>1. EmptyRing \in Rings /\ EmptyRing.head = EmptyRing.tail /\ EmptyRing.isEmpty = TRUE
  BY CapacityAssumption DEF EmptyRing, Rings
<1>2. Count(EmptyRing) = 0
  BY <1>1 DEF Count
<1>3. Items(EmptyRing) = <<>>
  <2>1. Sound(EmptyRing)
    BY <1>1 DEF Sound
  <2>2. Items(EmptyRing) \in Seq(Cells) /\ Len(Items(EmptyRing)) = 0
    BY <1>2, <2>1, ItemsFacts
  <2> QED
    BY <2>2, EmptySeq
<1>4. TypeOK
  BY <1>1, EmptySeq DEF Init, TypeOK
<1>5. RingFilled
  BY <1>3 DEF Init, RingFilled
<1>6. BatchKept
  BY EmptySeq, BatchAssumption DEF Init, BatchKept
<1> QED
  BY <1>4, <1>5, <1>6 DEF QueueInv

\* What the type invariant says of the variables.
LEMMA QueueTypes ==
  ASSUME TypeOK
  PROVE  /\ Sound(ring) /\ taskList \in Seq(Values) /\ tmpList \in Seq(Values)
         /\ Len(taskList) \in Nat /\ Len(tmpList) \in Nat /\ pushed \in 0 .. Len(tmpList)
         /\ Capacity \in Nat \ {0} /\ BatchSize \in Nat \ {0}
         /\ got \in Values \cup {NoTask}
  BY CapacityAssumption, BatchAssumption DEF TypeOK, Sound

\* A push keeps tasks in the ring.
LEMMA PushKeeps ==
  ASSUME QueueInv, NEW v \in Values, ring' = Push(ring, v)
  PROVE  /\ Sound(ring)' /\ Items(ring)' \in Seq(Values)
         /\ Items(ring)' = IF Len(Items(ring)) = Capacity THEN Items(ring)
                           ELSE Append(Items(ring), v)
<1> DEFINE p == Push(ring, v)
<1>1. Sound(ring) /\ Items(ring) \in Seq(Values) /\ ring' = p
  BY QueueTypes DEF QueueInv, RingFilled
<1>2. Sound(p) /\ Items(p) = IF Count(ring) = Capacity THEN Items(ring) ELSE Append(Items(ring), v)
  BY <1>1, PushFacts
<1>3. Len(Items(ring)) = Count(ring)
  BY <1>1, ItemsFacts
<1>4. Append(Items(ring), v) \in Seq(Values)
  BY <1>1, AppendProperties
<1> HIDE DEF p
<1>5. Sound(ring)' /\ Items(ring)' = Items(p)
  BY <1>1, <1>2 DEF Sound, Empty, Items, Count
<1> QED
  BY <1>1, <1>2, <1>3, <1>4, <1>5

\* front and pop take the oldest task.
LEMMA TakeKeeps ==
  ASSUME QueueInv, ~Empty(ring), TakeFront
  PROVE  /\ Sound(ring)' /\ Items(ring)' \in Seq(Values)
         /\ Items(ring)' = Tail(Items(ring)) /\ got' = Items(ring)[1] /\ got' \in Values
         /\ Items(ring) # <<>>
<1> DEFINE p == Pop(ring)
<1>1. Sound(ring) /\ Items(ring) \in Seq(Values) /\ ring' = p /\ got' = Front(ring)
  BY QueueTypes DEF QueueInv, RingFilled, TakeFront
<1>2. Sound(p) /\ Items(p) = Tail(Items(ring)) /\ Front(ring) = Items(ring)[1] /\ Items(ring) # <<>>
  BY <1>1, PopFacts
<1>3. Tail(Items(ring)) \in Seq(Values) /\ Items(ring)[1] \in Values
  <2>1. 1 \in 1 .. Len(Items(ring))
    BY <1>1, <1>2, EmptySeq
  <2> QED
    BY <1>1, <1>2, <2>1, HeadTailProperties, ElementOfSeq
<1> HIDE DEF p
<1>5. Sound(ring)' /\ Items(ring)' = Items(p)
  BY <1>1, <1>2 DEF Sound, Empty, Items, Count
<1> QED
  BY <1>1, <1>2, <1>3, <1>5

\* The ring is empty exactly when it holds nothing.
LEMMA EmptyItems ==
  ASSUME TypeOK
  PROVE  Empty(ring) <=> Items(ring) = <<>>
<1>1. Sound(ring)
  BY QueueTypes
<1>2. Items(ring) \in Seq(Cells) /\ Len(Items(ring)) = Count(ring)
  BY <1>1, ItemsFacts
<1>3. Empty(ring) <=> Count(ring) = 0
  BY <1>1, Counts
<1> QED
  BY <1>2, <1>3, EmptySeq

\* The splice of get_tasks.
LEMMA SpliceFacts ==
  ASSUME TypeOK
  PROVE  /\ BatchLength \in 0 .. Len(taskList) /\ (BatchLength = 0 <=> taskList = <<>>)
         /\ SubSeq(taskList, 1, BatchLength) \in Seq(Values)
         /\ Len(SubSeq(taskList, 1, BatchLength)) = BatchLength
         /\ \A i \in 1 .. BatchLength : SubSeq(taskList, 1, BatchLength)[i] = taskList[i]
         /\ SubSeq(taskList, BatchLength + 1, Len(taskList)) \in Seq(Values)
<1>1. /\ taskList \in Seq(Values) /\ Len(taskList) \in Nat /\ BatchSize \in Nat \ {0}
  BY QueueTypes
<1>2. BatchLength \in 0 .. Len(taskList) /\ (BatchLength = 0 <=> taskList = <<>>)
  <2>1. Len(taskList) = 0 <=> taskList = <<>>
    BY <1>1, EmptySeq
  <2> QED
    BY <1>1, <2>1 DEF BatchLength
<1> DEFINE b == BatchLength
<1> HIDE DEF b
<1>3. b \in 0 .. Len(taskList) /\ b + 1 \in 1 .. Len(taskList) + 1 /\ 1 \in 1 .. Len(taskList) + 1
      /\ Len(taskList) \in 0 .. Len(taskList)
  BY <1>1, <1>2 DEF b
<1>4. /\ SubSeq(taskList, 1, b) \in Seq(Values)
      /\ Len(SubSeq(taskList, 1, b)) = IF 1 <= b THEN b - 1 + 1 ELSE 0
      /\ \A i \in 1 .. b - 1 + 1 : SubSeq(taskList, 1, b)[i] = taskList[1 + i - 1]
  BY <1>1, <1>3, PartFacts
<1>5. SubSeq(taskList, b + 1, Len(taskList)) \in Seq(Values)
  BY <1>1, <1>3, PartFacts
<1>6. /\ Len(SubSeq(taskList, 1, b)) = b
      /\ \A i \in 1 .. b : SubSeq(taskList, 1, b)[i] = taskList[i]
  BY <1>3, <1>4
<1> QED
  BY <1>2, <1>4, <1>5, <1>6 DEF b

\* The end of get_task after a refill.
LEMMA RefillDone ==
  ASSUME QueueInv, tmpList # <<>>, pushed = Len(tmpList)
  PROVE  /\ ~Empty(ring)
         /\ BatchSize <= Capacity => Tail(Items(ring)) = Held
         /\ Items(ring)[1] = tmpList[1]
<1> DEFINE n == Smaller(Len(tmpList), Capacity)
<1>1. /\ tmpList \in Seq(Values) /\ Len(tmpList) \in Nat \ {0} /\ Capacity \in Nat \ {0}
      /\ TypeOK
  BY QueueTypes, EmptySeq DEF QueueInv
<1>2. n \in 1 .. Len(tmpList)
  BY <1>1 DEF Smaller
<1>3. Items(ring) = SubSeq(tmpList, 1, n)
  BY DEF QueueInv, RingFilled
<1>4. BatchSize <= Capacity => Held = SubSeq(tmpList, 2, n)
  BY <1>1, BatchAssumption DEF Held, Smaller, QueueInv, BatchKept
<1> HIDE DEF n
<1>5. /\ Tail(SubSeq(tmpList, 1, n)) = SubSeq(tmpList, 2, n)
      /\ SubSeq(tmpList, 1, n)[1] = tmpList[1]
      /\ SubSeq(tmpList, 1, n) # <<>>
  BY <1>1, <1>2, PartTail
<1> QED
  BY <1>1, <1>3, <1>4, <1>5, EmptyItems

\* Every step keeps the invariant.
LEMMA NextQueue == QueueInv /\ [Next]_vars => QueueInv'
<1> SUFFICES ASSUME QueueInv, [Next]_vars PROVE QueueInv'
  OBVIOUS
<1>a. /\ Sound(ring) /\ taskList \in Seq(Values) /\ tmpList \in Seq(Values)
      /\ Len(taskList) \in Nat /\ Len(tmpList) \in Nat /\ pushed \in 0 .. Len(tmpList)
      /\ Capacity \in Nat \ {0} /\ BatchSize \in Nat \ {0}
      /\ got \in Values \cup {NoTask} /\ TypeOK
      /\ Items(ring) \in Seq(Values)
  BY QueueTypes DEF QueueInv, RingFilled
<1>b. ASSUME Sound(ring)', taskList' \in Seq(Values), tmpList' \in Seq(Values),
             pushed' \in 0 .. Len(tmpList'), got' \in Values \cup {NoTask}
      PROVE  TypeOK'
  BY <1>b DEF Sound, TypeOK
<1>c. ASSUME ring' = ring PROVE Sound(ring)' /\ Items(ring)' = Items(ring)
  BY <1>a, <1>c DEF Sound, Empty, Items, Count
<1>1. ASSUME NEW v \in Values, RuntimePush(v) PROVE QueueInv'
  <2>1. Append(taskList, v) \in Seq(Values)
    BY <1>a, AppendProperties
  <2> QED
    BY <1>1, <1>a, <1>b, <1>c, <2>1 DEF RuntimePush, QueueInv, RingFilled, BatchKept
<1>2. ASSUME NEW v \in Values, PushTask(v) PROVE QueueInv'
  <2>1. Append(taskList, v) \in Seq(Values)
    BY <1>a, AppendProperties
  <2>2. Sound(ring)' /\ Items(ring)' \in Seq(Values)
    BY <1>2, PushKeeps DEF PushTask
  <2> QED
    BY <1>2, <1>a, <1>b, <2>1, <2>2 DEF PushTask, QueueInv, RingFilled, BatchKept
<1>3. ASSUME GetTask PROVE QueueInv'
  <2>0. tmpList = <<>> /\ pushed = 0 /\ pushed' = 0
    BY <1>3 DEF GetTask, QueueInv, RingFilled
  <2>1. CASE ~Empty(ring) /\ TakeFront /\ UNCHANGED <<taskList, tmpList>>
    <3>1. Sound(ring)' /\ Items(ring)' \in Seq(Values) /\ got' \in Values
      BY <2>1, TakeKeeps
    <3> QED
      BY <1>a, <1>b, <2>0, <2>1, <3>1 DEF QueueInv, RingFilled, BatchKept
  <2>2. CASE got' = NoTask /\ UNCHANGED <<ring, taskList, tmpList>>
    BY <1>a, <1>b, <1>c, <2>0, <2>2 DEF QueueInv, RingFilled, BatchKept
  <2>3. CASE /\ Empty(ring) /\ BatchLength # 0
             /\ tmpList' = SubSeq(taskList, 1, BatchLength)
             /\ taskList' = SubSeq(taskList, BatchLength + 1, Len(taskList))
             /\ UNCHANGED <<ring, got>>
    <3>1. /\ tmpList' \in Seq(Values) /\ taskList' \in Seq(Values)
          /\ Len(tmpList') \in Nat /\ Len(tmpList') # 0
      BY <1>a, <2>3, SpliceFacts
    <3>2. Items(ring)' = <<>> /\ Sound(ring)'
      BY <1>a, <1>c, <2>3, EmptyItems
    <3>3. SubSeq(tmpList', 1, 0) = <<>> /\ Smaller(0, Capacity) = 0
      BY <1>a, SubSeqEmpty DEF Smaller
    <3>4. TypeOK'
      BY <1>a, <1>b, <2>0, <2>3, <3>1, <3>2
    <3>5. tmpList' # <<>> /\ <<>> \in Seq(Values)
      BY <3>1, EmptySeq
    <3>6. Len(tmpList') = BatchLength /\ BatchLength <= BatchSize
      BY <1>a, <2>3, SpliceFacts DEF BatchLength
    <3> QED
      BY <2>0, <3>2, <3>3, <3>4, <3>5, <3>6 DEF QueueInv, RingFilled, BatchKept
  <2> QED
    BY <1>3, <2>1, <2>2, <2>3 DEF GetTask
<1>4. ASSUME Refill PROVE QueueInv'
  <2> DEFINE v == tmpList[pushed + 1]
             old == Items(ring)
  <2>1. pushed < Len(tmpList) /\ ring' = Push(ring, v) /\ pushed' = pushed + 1
        /\ UNCHANGED <<taskList, tmpList, got>>
    BY <1>4 DEF Refill
  <2>2. pushed \in Nat /\ pushed + 1 \in 1 .. Len(tmpList) /\ tmpList # <<>>
    BY <1>a, <2>1, EmptySeq
  <2>3. v \in Values
    BY <1>a, <2>2, ElementOfSeq
  <2>4. old = SubSeq(tmpList, 1, Smaller(pushed, Capacity))
    BY <2>2 DEF QueueInv, RingFilled
  <2>5. Len(old) = Smaller(pushed, Capacity)
    <3> DEFINE n == Smaller(pushed, Capacity)
    <3>1. n \in 0 .. Len(tmpList) /\ 1 \in 1 .. Len(tmpList) + 1
      BY <1>a, <2>2 DEF Smaller
    <3> HIDE DEF n
    <3>2. Len(SubSeq(tmpList, 1, n)) = IF 1 <= n THEN n - 1 + 1 ELSE 0
      BY <1>a, <3>1, PartFacts
    <3>3. Len(SubSeq(tmpList, 1, n)) = n
      BY <1>a, <3>1, <3>2
    <3> QED
      BY <2>4, <3>3 DEF n
  <2>6. /\ Sound(ring)' /\ Items(ring)' \in Seq(Values)
        /\ Items(ring)' = IF Len(old) = Capacity THEN old ELSE Append(old, v)
    BY <2>1, <2>3, PushKeeps
  <2> HIDE DEF v, old
  <2>7. Items(ring)' = SubSeq(tmpList, 1, Smaller(pushed + 1, Capacity))
    <3>1. CASE pushed < Capacity
      <4>1. Smaller(pushed, Capacity) = pushed /\ Smaller(pushed + 1, Capacity) = pushed + 1
        BY <1>a, <2>2, <3>1 DEF Smaller
      <4>2. Len(old) # Capacity /\ old = SubSeq(tmpList, 1, pushed)
        BY <1>a, <2>2, <2>4, <2>5, <3>1, <4>1
      <4>3. Append(SubSeq(tmpList, 1, pushed), v) = SubSeq(tmpList, 1, pushed + 1)
        BY <1>a, <2>2, PartGrows DEF v
      <4> QED
        BY <2>6, <4>1, <4>2, <4>3
    <3>2. CASE ~(pushed < Capacity)
      <4>1. Smaller(pushed, Capacity) = Capacity /\ Smaller(pushed + 1, Capacity) = Capacity
        BY <1>a, <2>2, <3>2 DEF Smaller
      <4> QED
        BY <2>4, <2>5, <2>6, <4>1
    <3> QED
      BY <3>1, <3>2
  <2>8. TypeOK'
    BY <1>a, <1>b, <2>1, <2>2, <2>6
  <2> QED
    BY <2>1, <2>2, <2>6, <2>7, <2>8 DEF QueueInv, RingFilled, BatchKept
<1>5. ASSUME EndRefill PROVE QueueInv'
  <2>1. ~Empty(ring)
    BY <1>5, RefillDone DEF EndRefill
  <2>2. Sound(ring)' /\ Items(ring)' \in Seq(Values) /\ got' \in Values
    BY <1>5, <2>1, TakeKeeps DEF EndRefill
  <2>3. <<>> \in Seq(Values) /\ Len(<<>>) = 0
    BY EmptySeq
  <2> QED
    BY <1>5, <1>a, <1>b, <2>2, <2>3 DEF EndRefill, QueueInv, RingFilled, BatchKept
<1>6. ASSUME UNCHANGED vars PROVE QueueInv'
  BY <1>6, <1>a, <1>b, <1>c DEF vars, QueueInv, RingFilled, BatchKept
<1> QED
  BY <1>1, <1>2, <1>3, <1>4, <1>5, <1>6 DEF Next

\* QueueInv is an invariant.
LEMMA QueueInvariance == Spec => []QueueInv
  BY InitQueue, NextQueue, PTL DEF Spec

-----------------------------------------------------------------------------
(* The theorems                                                            *)

\* The indexes of the ring never leave it, and get_task returns a task or
\* nullptr, never a cell that push has not written.
THEOREM QueueTypeCorrect == Spec => []TypeOK
<1>1. QueueInv => TypeOK
  BY DEF QueueInv
<1> QED
  BY <1>1, QueueInvariance, PTL

\* The empty ring is the empty queue.
LEMMA InitFifo == Init => Fifo!Init
<1> SUFFICES ASSUME Init PROVE Fifo!Init
  OBVIOUS
<1>1. QueueInv
  BY InitQueue
<1>2. Empty(ring)
  BY DEF Init, EmptyRing, Empty
<1>3. Items(ring) = <<>>
  BY <1>1, <1>2, EmptyItems DEF QueueInv
<1> QED
  BY <1>3 DEF Init, Fifo!Init, Held, Returned

\* Every step of the ring is one of the queue, or none: the turns of the loop do
\* nothing a caller could see.
LEMMA NextFifo ==
  ASSUME QueueInv, [Next]_vars, BatchSize <= Capacity
  PROVE  [Fifo!Next]_<<Held, taskList, Returned>>
<1>a. /\ Sound(ring) /\ taskList \in Seq(Values) /\ tmpList \in Seq(Values)
      /\ Len(taskList) \in Nat /\ Capacity \in Nat \ {0} /\ BatchSize \in Nat \ {0}
      /\ TypeOK /\ Items(ring) \in Seq(Values)
  BY QueueTypes DEF QueueInv, RingFilled
<1>c. ASSUME ring' = ring PROVE Items(ring)' = Items(ring)
  BY <1>c DEF Items, Count
<1>d. Len(Items(ring)) = Count(ring) /\ (Full(ring) <=> Count(ring) = Capacity)
      /\ Count(ring) \in 0 .. Capacity
  BY <1>a, ItemsFacts, Counts
<1>1. ASSUME NEW v \in Values, RuntimePush(v) PROVE Fifo!Next
  <2>1. Held' = Held /\ Returned' = Returned /\ taskList' = Append(taskList, v)
    BY <1>1, <1>c DEF RuntimePush, Held, Returned
  <2> QED
    BY <2>1 DEF Fifo!Next, Fifo!Submit
<1>2. ASSUME NEW v \in Values, PushTask(v) PROVE Fifo!Next
  <2>1. /\ Held = Items(ring) /\ Held' = Items(ring)' /\ Returned' = Returned
    BY <1>2 DEF PushTask, Held, Returned
  <2>2. Items(ring)' = IF Len(Items(ring)) = Capacity THEN Items(ring)
                       ELSE Append(Items(ring), v)
    BY <1>2, PushKeeps DEF PushTask
  <2>3. \/ Len(Held) < Capacity /\ Held' = Append(Held, v) /\ taskList' = taskList
        \/ Len(Held) = Capacity /\ taskList' = Append(taskList, v) /\ Held' = Held
    BY <1>2, <1>a, <1>d, <2>1, <2>2 DEF PushTask
  <2> QED
    BY <2>1, <2>3 DEF Fifo!Next, Fifo!Put
<1>3. ASSUME GetTask PROVE Fifo!Next
  <2>0. tmpList = <<>> /\ Held = Items(ring)
    BY <1>3 DEF GetTask, Held
  <2>1. CASE ~Empty(ring) /\ TakeFront /\ UNCHANGED <<taskList, tmpList>>
    <3>1. /\ Items(ring)' = Tail(Items(ring)) /\ got' = Items(ring)[1]
          /\ Items(ring) # <<>>
      BY <2>1, TakeKeeps
    <3>2. Held' = Tail(Held) /\ Returned' = Head(Held) /\ Held # <<>>
      BY <2>0, <2>1, <3>1 DEF Held, Returned
    <3> QED
      BY <2>1, <3>2 DEF Fifo!Next, Fifo!Take
  <2>2. CASE Empty(ring) /\ BatchLength = 0 /\ got' = NoTask /\ UNCHANGED <<ring, taskList, tmpList>>
    <3>1. taskList = <<>> /\ Items(ring) = <<>>
      BY <1>a, <2>2, SpliceFacts, EmptyItems
    <3>2. Held = <<>> /\ Held' = Held /\ Returned' = NoTask
      BY <1>c, <2>0, <2>2, <3>1 DEF Held, Returned
    <3> QED
      BY <2>2, <3>1, <3>2 DEF Fifo!Next, Fifo!TakeNothing
  <2>3. CASE /\ Empty(ring) /\ BatchLength # 0
             /\ tmpList' = SubSeq(taskList, 1, BatchLength)
             /\ taskList' = SubSeq(taskList, BatchLength + 1, Len(taskList))
             /\ UNCHANGED <<ring, got>>
    <3>1. /\ BatchLength \in 1 .. Len(taskList) /\ taskList # <<>>
          /\ tmpList' \in Seq(Values) /\ Len(tmpList') = BatchLength
          /\ \A i \in 1 .. BatchLength : tmpList'[i] = taskList[i]
      BY <1>a, <2>3, SpliceFacts
    <3>2. tmpList' # <<>> /\ Held = <<>>
      BY <1>a, <2>0, <2>3, <3>1, EmptySeq, EmptyItems
    <3>3. Returned' = Head(taskList)
      BY <3>1, <3>2 DEF Returned
    <3>4. Fifo!Batch = BatchLength
      BY <1>a DEF Fifo!Batch, Fifo!Least, BatchLength
    <3> DEFINE n == BatchLength
    <3>5. Fifo!Batch = n /\ n \in 1 .. BatchLength
      BY <1>a, <3>1, <3>4
    <3>6. Held' = SubSeq(tmpList', 2, n)
      BY <3>1, <3>2 DEF Held
    <3> HIDE DEF n
    <3>7. SubSeq(tmpList', 2, n) = SubSeq(taskList, 2, n)
      <4>1. PICK t : t = tmpList'
        OBVIOUS
      <4>2. /\ t \in Seq(Values) /\ Len(t) = BatchLength
            /\ \A i \in 1 .. BatchLength : t[i] = taskList[i]
            /\ n \in 0 .. Len(t) /\ n \in 0 .. Len(taskList)
            /\ 2 \in 1 .. Len(t) + 1 /\ 2 \in 1 .. Len(taskList) + 1
        BY <1>a, <3>1, <3>5, <4>1
      <4>3. /\ SubSeq(t, 2, n) \in Seq(Values)
            /\ Len(SubSeq(t, 2, n)) = IF 2 <= n THEN n - 2 + 1 ELSE 0
            /\ \A i \in 1 .. n - 2 + 1 : SubSeq(t, 2, n)[i] = t[2 + i - 1]
        BY <4>2, PartFacts
      <4>4. /\ SubSeq(taskList, 2, n) \in Seq(Values)
            /\ Len(SubSeq(taskList, 2, n)) = IF 2 <= n THEN n - 2 + 1 ELSE 0
            /\ \A i \in 1 .. n - 2 + 1 : SubSeq(taskList, 2, n)[i] = taskList[2 + i - 1]
        BY <1>a, <4>2, PartFacts
      <4>5. ASSUME NEW i \in 1 .. Len(SubSeq(t, 2, n))
            PROVE  SubSeq(t, 2, n)[i] = SubSeq(taskList, 2, n)[i]
        <5>1. i \in 1 .. n - 2 + 1 /\ 2 + i - 1 \in 1 .. BatchLength
          BY <3>1, <3>5, <4>2, <4>3
        <5> QED
          BY <4>2, <4>3, <4>4, <5>1
      <4>6. SubSeq(t, 2, n) = SubSeq(taskList, 2, n)
        BY <4>3, <4>4, <4>5, SeqEqual
      <4> QED
        BY <4>1, <4>6
    <3> QED
      BY <2>3, <3>1, <3>2, <3>3, <3>4, <3>5, <3>6, <3>7 DEF Fifo!Next, Fifo!TakeBatch
  <2> QED
    BY <1>3, <2>1, <2>2, <2>3 DEF GetTask
<1>4. ASSUME Refill PROVE UNCHANGED <<Held, taskList, Returned>>
  <2>1. tmpList # <<>>
    BY <1>4, <1>a, EmptySeq, QueueTypes DEF Refill
  <2> QED
    BY <1>4, <2>1 DEF Refill, Held, Returned
<1>5. ASSUME EndRefill PROVE UNCHANGED <<Held, taskList, Returned>>
  <2>1. ~Empty(ring) /\ Tail(Items(ring)) = Held /\ Items(ring)[1] = tmpList[1]
    BY <1>5, RefillDone DEF EndRefill
  <2>2. Items(ring)' = Tail(Items(ring)) /\ got' = Items(ring)[1]
    BY <1>5, <2>1, TakeKeeps DEF EndRefill
  <2>3. Held' = Items(ring)' /\ Returned' = got' /\ Returned = tmpList[1]
    BY <1>5 DEF EndRefill, Held, Returned
  <2> QED
    BY <1>5, <2>1, <2>2, <2>3 DEF EndRefill
<1>6. ASSUME UNCHANGED vars PROVE UNCHANGED <<Held, taskList, Returned>>
  BY <1>6, <1>c DEF vars, Held, Returned
<1> QED
  BY <1>1, <1>2, <1>3, <1>4, <1>5, <1>6 DEF Next

\* For every capacity and every batch that fits it, the ring with its indexes and
\* its flag, refilled push by push while other threads append to the runtime's
\* list, is the bounded sequence that Scheduler has in its place.
THEOREM FifoTheorem ==
  ASSUME BatchSize <= Capacity
  PROVE  Spec => RefinesFifo
<1>1. QueueInv /\ [Next]_vars => [Fifo!Next]_<<Held, taskList, Returned>>
  BY NextFifo
<1> QED
  BY <1>1, InitFifo, QueueInvariance, PTL DEF Spec, RefinesFifo, Fifo!Spec

=============================================================================
