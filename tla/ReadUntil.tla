------------------------------ MODULE ReadUntil ------------------------------
(***************************************************************************)
(* smart_read_until: the calls a coroutine makes on one DynamicBuffer, the *)
(* chunks smart_read_until_impl reads into it on the epoller thread, and   *)
(* the search for the delimiter, which goes on from last_search_end_ with  *)
(* every chunk.                                                            *)
(*                                                                         *)
(* The buffer is its read section.  Whether append has room is left open   *)
(* here (DynamicBuffer tells), and the callback runs only while the call   *)
(* waits (Reactor tells when it does not).                                 *)
(***************************************************************************)
EXTENDS Integers, Sequences

CONSTANTS
  Bytes,          \* the values of a byte
  Delims,         \* the delimiters callers pass
  BufferSize,     \* BUFFER_SIZE
  MaxContent      \* bound: bytes in the buffer

ASSUME ReadUntilAssumption ==
  /\ Delims \subseteq Seq(Bytes)
  /\ BufferSize \in Nat
  /\ MaxContent \in Nat

VARIABLES
  content,        \* the read section of the buffer
  call,           \* the coroutine is "idle", "waiting" in the call or "resumed"
  delim,          \* delim_ of the context
  lastSearchEnd,  \* last_search_end_
  ret,            \* ret_
  outcome         \* why the call was resumed: "none", "match", "full", "error", "eof"

vars == <<content, call, delim, lastSearchEnd, ret, outcome>>

Init ==
  /\ content = <<>>
  /\ call = "idle"
  /\ delim \in Delims
  /\ lastSearchEnd = 0
  /\ ret = 0
  /\ outcome = "none"

-----------------------------------------------------------------------------
(* partial_search                                                          *)

\* The delimiter d agrees with the text t behind its first i bytes, as far as t
\* goes.
Agrees(t, d, i) == \A j \in 1 .. Len(d) : i + j <= Len(t) => t[i + j] = d[j]

\* The starting points, from `from' on, at which the inner loop gets to the end
\* of the delimiter or of the text.
Hits(t, d, from) == {i \in from .. Len(t) - 1 : d # <<>> /\ Agrees(t, d, i)}

IsFirst(i, S) == i \in S /\ \A k \in S : i <= k

\* Mutant of SearchGoesOn: the search point is set behind a partial match.
BugSearchSkipsPartial(t, end) ==
  /\ \A i \in Hits(t, delim, lastSearchEnd) : i + Len(delim) > Len(t)
  /\ end = Len(t)

\* Mutant of SearchGoesOn: the inner loop tests for the end of the text first.
BugSearchTestsTextFirst(t, end) ==
  LET hits == Hits(t, delim, lastSearchEnd)
  IN  \/ IsFirst(end, hits) /\ end + Len(delim) >= Len(t)
      \/ hits = {} /\ end = Len(t)

\* Mutant of SearchGoesOn: NotMatch adds the size to the search point.
BugSearchAddsSize(t, end) ==
  LET hits == Hits(t, delim, lastSearchEnd)
  IN  \/ IsFirst(end, hits) /\ end + Len(delim) > Len(t)
      \/ hits = {} /\ end = lastSearchEnd + Len(t)

\* PartialMatch or NotMatch: the next search of t starts at end.
SearchGoesOn(t, end) ==
  LET hits == Hits(t, delim, lastSearchEnd)
  IN  \/ IsFirst(end, hits) /\ end + Len(delim) > Len(t)
      \/ hits = {} /\ end = Len(t)

\* Mutant of SearchMatches: a partial match is taken for a match.
BugSearchMatchesPart(t) ==
  Hits(t, delim, lastSearchEnd) # {}

\* Match.
SearchMatches(t) ==
  LET hits == Hits(t, delim, lastSearchEnd)
  IN  \E i \in hits : IsFirst(i, hits) /\ i + Len(delim) <= Len(t)

-----------------------------------------------------------------------------
\* smart_read_until up to the switch, with a new context.
Call(d) ==
  /\ call = "idle"
  /\ call' = "waiting"
  /\ delim' = d
  /\ lastSearchEnd' = 0
  /\ ret' = 0
  /\ outcome' = "none"
  /\ content' = content

\* resume_read_coro
Resume(why) ==
  /\ call' = "resumed"
  /\ outcome' = why

\* The callback reads a chunk and append takes it.
ReadChunk(chunk) ==
  /\ call = "waiting"
  /\ Len(content) + Len(chunk) <= MaxContent
  /\ content' = content \o chunk
  /\ ret' = ret + Len(chunk)
  /\ \/ /\ SearchMatches(content')
        /\ Resume("match")
        /\ lastSearchEnd' = lastSearchEnd
     \/ /\ \E end \in 0 .. MaxContent :
             SearchGoesOn(content', end) /\ lastSearchEnd' = end
        /\ UNCHANGED <<call, outcome>>
  /\ delim' = delim

\* append refuses the chunk, which is lost; the search is made all the same.
ReadRefused ==
  /\ call = "waiting"
  /\ ret' = -1
  /\ Resume("full")
  /\ \/ SearchMatches(content) /\ lastSearchEnd' = lastSearchEnd
     \/ \E end \in 0 .. MaxContent :
          SearchGoesOn(content, end) /\ lastSearchEnd' = end
  /\ UNCHANGED <<content, delim>>

ReadError ==
  /\ call = "waiting"
  /\ ret' = -1
  /\ Resume("error")
  /\ UNCHANGED <<content, delim, lastSearchEnd>>

ReadEof ==
  /\ call = "waiting"
  /\ Resume("eof")
  /\ UNCHANGED <<content, delim, lastSearchEnd, ret>>

ReadWouldBlock ==
  /\ call = "waiting"
  /\ UNCHANGED vars

\* The call returns to the coroutine.
Return ==
  /\ call = "resumed"
  /\ call' = "idle"
  /\ UNCHANGED <<content, delim, lastSearchEnd, ret, outcome>>

\* DynamicBuffer::consume of n bytes, between two calls.
Consume(n) ==
  /\ call = "idle"
  /\ n <= Len(content)
  /\ content' = SubSeq(content, n + 1, Len(content))
  /\ UNCHANGED <<call, delim, lastSearchEnd, ret, outcome>>

Chunks == UNION {[1 .. n -> Bytes] : n \in 1 .. BufferSize}

Next ==
  \/ \E d \in Delims : Call(d)
  \/ \E chunk \in Chunks : ReadChunk(chunk)
  \/ ReadRefused \/ ReadError \/ ReadEof \/ ReadWouldBlock \/ Return
  \/ \E n \in 1 .. MaxContent : Consume(n)

Spec == Init /\ [][Next]_vars

-----------------------------------------------------------------------------
(* Properties                                                              *)

\* The type of every variable; a waiting call searches within its buffer.
TypeOK ==
  /\ content \in Seq(Bytes)
  /\ Len(content) <= MaxContent
  /\ call \in {"idle", "waiting", "resumed"}
  /\ delim \in Delims
  /\ lastSearchEnd \in Nat
  /\ call = "waiting" => lastSearchEnd <= Len(content)
  /\ ret \in Int
  /\ outcome \in {"none", "match", "full", "error", "eof"}

\* The delimiter d is in the text t behind its first i bytes.
OccursAt(t, d, i) == i + Len(d) <= Len(t) /\ \A j \in 1 .. Len(d) : t[i + j] = d[j]

\* However the bytes of the delimiter are spread over chunks, and whatever an
\* earlier call has left in the buffer, a call that goes on waiting after a chunk
\* has not overlooked a delimiter.
NeverMissed ==
  call = "waiting" /\ ret > 0 /\ delim # <<>> =>
    \A i \in 0 .. Len(content) : ~OccursAt(content, delim, i)

\* A call is resumed with a match only if the delimiter is in the buffer.
MatchIsReal ==
  call = "resumed" /\ outcome = "match" =>
    \E i \in 0 .. Len(content) : OccursAt(content, delim, i)

\* No delimiter starts before the search point, whatever is read behind it: each
\* earlier start has already met a byte that differs.
SearchPointSafe ==
  call = "waiting" /\ delim # <<>> =>
    \A i \in 0 .. lastSearchEnd - 1 :
      \E j \in 1 .. Len(delim) : i + j <= Len(content) /\ content[i + j] # delim[j]

=============================================================================
