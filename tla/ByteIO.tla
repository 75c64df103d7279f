------------------------------- MODULE ByteIO -------------------------------
(***************************************************************************)
(* class ByteIO of lib/io-engine.js: a list of ByteStrings, each a window  *)
(* (_offset, _length) on the memory of a Bytes object, and a count of the  *)
(* bytes in them that is kept apart.  read() copies windows together with  *)
(* B_COPY (binary-engine.cc), a turn of its loop per step; a window that   *)
(* it uses in part is replaced by a narrower one on the same memory.       *)
(***************************************************************************)
EXTENDS Integers, SequencesExt

CONSTANTS
  MaxBytes,      \* bound on the bytes that are ever written
  MaxSegment,    \* bound on the bytes of one write
  MaxOffset,     \* bound on the _offset of a ByteString that is written
  MaxSegments    \* bound on the segments in the list when one is written

ASSUME BoundsAssumption == {MaxBytes, MaxSegment, MaxOffset, MaxSegments} \subseteq Nat

VARIABLES
  buffer,      \* this.buffer
  length,      \* this.length
  pc,          \* "idle", or "loop" while a call is under way
  want,        \* the argument of the read() under way
  peek,        \* is it the read() of a toByteString()?
  bytes,       \* what it has allocated
  position,    \* how much of that it has filled
  result,      \* what the last read() or toByteString() has returned
  written      \* how many bytes have been written; names the next one

vars == <<buffer, length, pc, want, peek, bytes, position, result, written>>

ByteString(b, offset, len) == [_bytes |-> b, _offset |-> offset, _length |-> len]

Content(s) == SubSeq(s._bytes, s._offset + 1, s._offset + s._length)

\* Memory that is not the byte of any write: it must never be returned.
Zeros(n) == [i \in 1 .. n |-> 0]

-----------------------------------------------------------------------------
(* Mutants *)
BugSlice(s, len)          == [s EXCEPT !._offset = @ + len]
BugPush(s)                == <<s>> \o buffer
BugMore                   == position <= want /\ length > 0

\* ByteString.slice(len), of binary.js (external): a window on the same memory.
Slice(s, len) == ByteString(s._bytes, s._offset + len, s._length - len)

\* Math.min(segment._length, length - position)
TurnLength(s) == IF s._length < want - position THEN s._length ELSE want - position

\* The condition of the loop of read().
More == position < want /\ length > 0

\* What toByteString() sets this.length to.
CollapsedLength == position

\* Where write() puts a segment.
Push(s) == Append(buffer, s)

\* B_COPY (Bytes) between two memories: its check, and what memcpy() makes of dst.
CopyInBounds(src, srcOffset, dst, dstOffset, len) ==
  srcOffset + len <= Len(src) /\ dstOffset + len <= Len(dst)

Copied(src, srcOffset, dst, dstOffset, len) ==
  [i \in 1 .. Len(dst) |->
     IF i \in dstOffset + 1 .. dstOffset + len
     THEN src[srcOffset + i - dstOffset] ELSE dst[i]]

-----------------------------------------------------------------------------
Init ==
  /\ buffer = <<>> /\ length = 0
  /\ pc = "idle"
  /\ want = 0 /\ peek = FALSE /\ bytes = <<>> /\ position = 0
  /\ result = <<>>
  /\ written = 0

\* write(object), where object.toByteString() is a window of k new bytes
\* behind `offset' others.
Write(k, offset) ==
  /\ pc = "idle"
  /\ written + k <= MaxBytes /\ Len(buffer) < MaxSegments
  /\ LET fresh == [i \in 1 .. k |-> written + i]
     IN  buffer' = Push(ByteString(Zeros(offset) \o fresh \o Zeros(1), offset, k))
  /\ length' = length + k
  /\ written' = written + k
  /\ UNCHANGED <<pc, want, peek, bytes, position, result>>

\* read(n) and, when p, the read() that toByteString() begins with.  With
\* n = 0 the loop makes no turn, just like the early return in the code.
Begin(n, p) ==
  /\ pc = "idle"
  /\ pc' = "loop"
  /\ want' = n /\ peek' = p
  /\ bytes' = Zeros(n)
  /\ position' = 0
  /\ UNCHANGED <<buffer, length, result, written>>

Read(n)      == Begin(n, FALSE)
ReadAll      == Begin(length, FALSE)
ToByteString == Begin(length, TRUE)

\* A turn.  Without a this.buffer[0], or when B_COPY finds a window beyond its
\* memory, the code throws out of read() with its work half done; there is no
\* step for that here, so a state where it happens is one that never leaves
\* "loop", a deadlock.
Turn ==
  /\ pc = "loop" /\ More
  /\ buffer # <<>>
  /\ LET segment == Head(buffer)
         len     == TurnLength(segment)
     IN  /\ CopyInBounds(segment._bytes, segment._offset, bytes, position, len)
         /\ bytes' = Copied(segment._bytes, segment._offset, bytes, position, len)
         /\ position' = position + len
         /\ length' = length - len
         /\ buffer' = IF len < segment._length
                      THEN <<Slice(segment, len)>> \o Tail(buffer)
                      ELSE Tail(buffer)
  /\ UNCHANGED <<pc, want, peek, result, written>>

\* read() returns; toByteString() puts the result in the place of the list.
Return ==
  /\ pc = "loop" /\ ~More
  /\ pc' = "idle"
  /\ result' = SubSeq(bytes, 1, position)
  /\ IF peek
     THEN buffer' = <<ByteString(bytes, 0, position)>> /\ length' = CollapsedLength
     ELSE UNCHANGED <<buffer, length>>
  /\ want' = 0 /\ peek' = FALSE /\ bytes' = <<>> /\ position' = 0
  /\ UNCHANGED written

Loop == Turn \/ Return

Next ==
  \/ \E k \in 0 .. MaxSegment, offset \in 0 .. MaxOffset : Write(k, offset)
  \/ \E n \in 0 .. MaxBytes + 1 : Read(n)
  \/ ReadAll
  \/ ToByteString
  \/ Loop

\* A call that has begun runs on by itself: JavaScript is single-threaded.
Spec == Init /\ [][Next]_vars /\ WF_vars(Loop)

-----------------------------------------------------------------------------
Flat(segments) == FlattenSeq([i \in DOMAIN segments |-> Content(segments[i])])

TypeOK ==
  /\ written \in 0 .. MaxBytes
  /\ length \in Nat /\ want \in Nat /\ position \in Nat
  /\ peek \in BOOLEAN
  /\ pc \in {"idle", "loop"}
  /\ \A s \in {bytes, result} : s \in Seq(0 .. MaxBytes)
  /\ \A i \in DOMAIN buffer :
       /\ {buffer[i]._offset, buffer[i]._length} \subseteq Nat
       /\ buffer[i]._offset + buffer[i]._length <= Len(buffer[i]._bytes)
  /\ length = Len(Flat(buffer))

\* The bytes in the ByteIO: those of the list, behind those that a call has taken
\* from it already.
Held == SubSeq(bytes, 1, position) \o Flat(buffer)

Wanted == IF pc # "loop" THEN -1 ELSE IF peek THEN -2 ELSE want

Queue == INSTANCE ByteQueue WITH queue <- Held, want <- Wanted

\* Its callers see a queue: what was written comes out once and in order,
\* read(n) returns n bytes unless there are fewer, and toByteString() takes
\* nothing out.
IsByteQueue == Queue!Safety

\* Every read() and toByteString() returns: its loop neither throws nor goes on
\* for ever.
CallsReturn == Queue!Liveness
=============================================================================
