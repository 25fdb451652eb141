--------------------------- MODULE ReadUntilProofs ---------------------------
(***************************************************************************)
(* smart_read_until overlooks no delimiter, for every alphabet, delimiter  *)
(* and way of cutting the stream into chunks.                              *)
(*                                                                         *)
(* NeverMissed is not inductive: after PartialMatch the next search starts *)
(* late, and nothing in NeverMissed says that no delimiter can begin       *)
(* before that point once more bytes are there.  SearchPointSafe says it.  *)
(***************************************************************************)
EXTENDS ReadUntil, TLAPS

SearchInv == TypeOK /\ SearchPointSafe /\ NeverMissed /\ MatchIsReal

\* The delimiter d cannot begin behind the first i bytes of t: a byte differs.
RuledOut(t, d, i) == \E j \in 1 .. Len(d) : i + j <= Len(t) /\ t[i + j] # d[j]

\* What a start is ruled out by is still there when bytes follow.
LEMMA RuledOutStays ==
  ASSUME NEW s \in Seq(Bytes), NEW c \in Seq(Bytes), NEW d \in Seq(Bytes),
         NEW i \in Nat, RuledOut(s, d, i)
  PROVE  RuledOut(s \o c, d, i)
<1>1. PICK j \in 1 .. Len(d) : i + j <= Len(s) /\ s[i + j] # d[j]
  BY DEF RuledOut
<1>2. i + j <= Len(s \o c) /\ (s \o c)[i + j] = s[i + j]
  BY <1>1
<1> QED
  BY <1>1, <1>2 DEF RuledOut

\* A start that is ruled out is no occurrence.
LEMMA RuledOutIsNone ==
  ASSUME NEW t \in Seq(Bytes), NEW d \in Seq(Bytes), NEW i \in Nat,
         RuledOut(t, d, i)
  PROVE  ~OccursAt(t, d, i)
  BY DEF RuledOut, OccursAt

\* A start that is not ruled out is a hit of the search, if the search gets there.
LEMMA NoHitIsRuledOut ==
  ASSUME NEW t \in Seq(Bytes), NEW d \in Seq(Bytes), d # <<>>,
         NEW from \in Nat, NEW i \in Nat, from <= i, i < Len(t),
         i \notin Hits(t, d, from)
  PROVE  RuledOut(t, d, i)
  BY DEF Hits, Agrees, RuledOut

\* What PartialMatch and NotMatch leave: the search point is in the text, every
\* start before it is ruled out, and none behind it is an occurrence.
LEMMA SearchGoesOnFacts ==
  ASSUME delim \in Seq(Bytes), lastSearchEnd \in Nat,
         NEW t \in Seq(Bytes), lastSearchEnd <= Len(t),
         delim # <<>> => \A i \in 0 .. lastSearchEnd - 1 : RuledOut(t, delim, i),
         NEW end \in Nat, SearchGoesOn(t, end)
  PROVE  /\ end <= Len(t)
         /\ delim # <<>> =>
              /\ \A i \in 0 .. end - 1 : RuledOut(t, delim, i)
              /\ \A i \in 0 .. Len(t) : ~OccursAt(t, delim, i)
<1> DEFINE hits == Hits(t, delim, lastSearchEnd)
<1>1. Len(t) \in Nat /\ Len(delim) \in Nat
  OBVIOUS
<1>2. \A i \in hits : i \in Nat /\ lastSearchEnd <= i /\ i < Len(t)
  BY <1>1 DEF Hits
<1>3. CASE hits = {} /\ end = Len(t)
  <2>1. SUFFICES ASSUME delim # <<>>
                 PROVE  /\ \A i \in 0 .. end - 1 : RuledOut(t, delim, i)
                        /\ \A i \in 0 .. Len(t) : ~OccursAt(t, delim, i)
    BY <1>1, <1>3
  <2>2. ASSUME NEW i \in 0 .. Len(t) - 1
        PROVE  RuledOut(t, delim, i)
    <3>1. CASE i < lastSearchEnd
      BY <1>1, <2>1, <3>1
    <3>2. CASE lastSearchEnd <= i
      BY <1>1, <1>3, <2>1, <3>2, NoHitIsRuledOut
    <3> QED
      BY <1>1, <3>1, <3>2
  <2>3. ~OccursAt(t, delim, Len(t))
    BY <1>1, <2>1 DEF OccursAt
  <2>4. ASSUME NEW i \in 0 .. Len(t)
        PROVE  ~OccursAt(t, delim, i)
    BY <1>1, <2>2, <2>3, RuledOutIsNone
  <2> QED
    BY <1>1, <1>3, <2>2, <2>4
<1>4. CASE IsFirst(end, hits) /\ end + Len(delim) > Len(t)
  <2>1. end < Len(t) /\ lastSearchEnd <= end /\ delim # <<>>
    BY <1>2, <1>4 DEF IsFirst, Hits
  <2>2. ASSUME NEW i \in 0 .. end - 1
        PROVE  RuledOut(t, delim, i)
    <3>1. CASE i < lastSearchEnd
      BY <1>1, <2>1, <3>1
    <3>2. CASE lastSearchEnd <= i
      <4>1. i \notin hits
        BY <1>1, <1>4, <2>1 DEF IsFirst
      <4> QED
        BY <1>1, <2>1, <3>2, <4>1, NoHitIsRuledOut
    <3> QED
      BY <1>1, <3>1, <3>2
  <2>3. ASSUME NEW i \in 0 .. Len(t)
        PROVE  ~OccursAt(t, delim, i)
    <3>1. CASE i < end
      BY <1>1, <2>2, <3>1, RuledOutIsNone
    <3>2. CASE end <= i
      BY <1>1, <1>4, <3>2 DEF OccursAt
    <3> QED
      BY <1>1, <3>1, <3>2
  <2> QED
    BY <1>1, <2>1, <2>2, <2>3
<1> QED
  BY <1>3, <1>4 DEF SearchGoesOn

\* What Match tells: the delimiter is in the text.
LEMMA SearchMatchesFacts ==
  ASSUME delim \in Seq(Bytes), lastSearchEnd \in Nat,
         NEW t \in Seq(Bytes), SearchMatches(t)
  PROVE  \E i \in 0 .. Len(t) : OccursAt(t, delim, i)
<1>1. PICK i \in Hits(t, delim, lastSearchEnd) : i + Len(delim) <= Len(t)
  BY DEF SearchMatches
<1>2. i \in 0 .. Len(t) /\ Agrees(t, delim, i)
  BY <1>1 DEF Hits
<1>3. OccursAt(t, delim, i)
  BY <1>1, <1>2 DEF Agrees, OccursAt
<1> QED
  BY <1>2, <1>3

\* A chunk that append takes.
LEMMA ReadChunkSafety ==
  ASSUME SearchInv, NEW chunk \in Chunks, ReadChunk(chunk)
  PROVE  SearchInv'
<1> USE ReadUntilAssumption
<1>1. chunk \in Seq(Bytes)
  BY DEF Chunks
<1>2. /\ content \in Seq(Bytes) /\ delim \in Seq(Bytes) /\ delim \in Delims
      /\ lastSearchEnd \in Nat /\ lastSearchEnd <= Len(content)
      /\ ret \in Int /\ call = "waiting" /\ delim' = delim
      /\ content' = content \o chunk /\ ret' = ret + Len(chunk)
      /\ outcome \in {"none", "match", "full", "error", "eof"}
  BY DEF SearchInv, TypeOK, ReadChunk
<1>3. /\ content' \in Seq(Bytes) /\ Len(content') = Len(content) + Len(chunk)
      /\ Len(content') <= MaxContent /\ ret' \in Int
      /\ lastSearchEnd <= Len(content')
  BY <1>1, <1>2 DEF ReadChunk
<1>4. delim # <<>> => \A i \in 0 .. lastSearchEnd - 1 : RuledOut(content', delim, i)
  <2>1. SUFFICES ASSUME delim # <<>>, NEW i \in 0 .. lastSearchEnd - 1
                 PROVE  RuledOut(content', delim, i)
    OBVIOUS
  <2>2. RuledOut(content, delim, i)
    BY <1>2, <2>1 DEF SearchInv, SearchPointSafe, RuledOut
  <2> QED
    BY <1>1, <1>2, <2>1, <2>2, RuledOutStays
<1>5. CASE SearchMatches(content') /\ Resume("match") /\ lastSearchEnd' = lastSearchEnd
  <2>1. \E i \in 0 .. Len(content') : OccursAt(content', delim, i)
    BY <1>2, <1>3, <1>5, SearchMatchesFacts
  <2>2. call' = "resumed" /\ outcome' = "match"
    BY <1>5 DEF Resume
  <2> QED
    BY <1>2, <1>3, <1>5, <2>1, <2>2
       DEF SearchInv, TypeOK, SearchPointSafe, NeverMissed, MatchIsReal
<1>6. ASSUME NEW end \in 0 .. MaxContent, SearchGoesOn(content', end),
             lastSearchEnd' = end, UNCHANGED <<call, outcome>>
      PROVE  SearchInv'
  <2>1. /\ end <= Len(content')
        /\ delim # <<>> =>
             /\ \A i \in 0 .. end - 1 : RuledOut(content', delim, i)
             /\ \A i \in 0 .. Len(content') : ~OccursAt(content', delim, i)
    <3>1. end \in Nat
      BY <1>6
    <3> QED
      BY <1>2, <1>3, <1>4, <1>6, <3>1, SearchGoesOnFacts
  <2>2. TypeOK'
    BY <1>2, <1>3, <1>6, <2>1 DEF TypeOK
  <2>3. SearchPointSafe'
    BY <1>2, <1>6, <2>1 DEF SearchPointSafe, RuledOut
  <2>4. NeverMissed'
    BY <1>2, <1>6, <2>1 DEF NeverMissed
  <2>5. MatchIsReal'
    BY <1>2, <1>6 DEF MatchIsReal
  <2> QED
    BY <2>2, <2>3, <2>4, <2>5 DEF SearchInv
<1> QED
  BY <1>5, <1>6 DEF ReadChunk

\* Every step keeps the invariant.
LEMMA NextSearch ==
  ASSUME SearchInv, [Next]_vars
  PROVE  SearchInv'
<1> USE ReadUntilAssumption
<1> USE DEF SearchInv, TypeOK, SearchPointSafe, NeverMissed, MatchIsReal
<1>1. ASSUME NEW d \in Delims, Call(d)
      PROVE  SearchInv'
  BY <1>1 DEF Call
<1>2. ASSUME NEW chunk \in Chunks, ReadChunk(chunk)
      PROVE  SearchInv'
  BY <1>2, ReadChunkSafety
<1>3. CASE ReadRefused
  BY <1>3 DEF ReadRefused, Resume
<1>4. CASE ReadError
  BY <1>4 DEF ReadError, Resume
<1>5. CASE ReadEof
  BY <1>5 DEF ReadEof, Resume
<1>6. CASE ReadWouldBlock
  BY <1>6 DEF ReadWouldBlock, vars
<1>7. CASE Return
  BY <1>7 DEF Return
<1>8. ASSUME NEW n \in 1 .. MaxContent, Consume(n)
      PROVE  SearchInv'
  <2>1. /\ content' \in Seq(Bytes) /\ Len(content') <= Len(content)
    BY <1>8 DEF Consume
  <2> QED
    BY <1>8, <2>1 DEF Consume
<1>9. CASE UNCHANGED vars
  BY <1>9 DEF vars
<1> QED
  BY <1>1, <1>2, <1>3, <1>4, <1>5, <1>6, <1>7, <1>8, <1>9 DEF Next

LEMMA InitSearch == Init => SearchInv
  BY ReadUntilAssumption
     DEF Init, SearchInv, TypeOK, SearchPointSafe, NeverMissed, MatchIsReal

\* smart_read_until never goes on waiting with a delimiter it has been given in
\* its buffer, however read cuts the stream into chunks.
THEOREM NeverMissedTheorem == Spec => []NeverMissed
<1>1. SearchInv => NeverMissed
  BY DEF SearchInv
<1> QED
  BY <1>1, InitSearch, NextSearch, PTL DEF Spec

\* No delimiter begins before last_search_end_, whatever is still to be read.
THEOREM SearchPointTheorem == Spec => []SearchPointSafe
<1>1. SearchInv => SearchPointSafe
  BY DEF SearchInv
<1> QED
  BY <1>1, InitSearch, NextSearch, PTL DEF Spec

\* smart_read_until reports a match only if the delimiter is in the buffer.
THEOREM MatchIsRealTheorem == Spec => []MatchIsReal
<1>1. SearchInv => MatchIsReal
  BY DEF SearchInv
<1> QED
  BY <1>1, InitSearch, NextSearch, PTL DEF Spec

\* Neither last_search_end_ nor the content leave their bounds while a call
\* waits, and every variable keeps its type.
THEOREM ReadUntilTypeCorrect == Spec => []TypeOK
<1>1. SearchInv => TypeOK
  BY DEF SearchInv
<1> QED
  BY <1>1, InitSearch, NextSearch, PTL DEF Spec

=============================================================================
