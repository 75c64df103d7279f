---------------------------- MODULE BinaryProofs ----------------------------
(***************************************************************************)
(* What the B_ functions do to the memory of Bytes objects, for any length *)
(* of an object, any size of a size_t that ints and lengths are small      *)
(* beside, and any ints; that a ByteIO is a queue of bytes; and what the   *)
(* three functions around transcode() return and what they leak, for all   *)
(* texts and any size of the destination.                                  *)
(***************************************************************************)
EXTENDS Binary, DataFacts

-----------------------------------------------------------------------------
(* ints, size_t and strings.                                               *)

\* What becomes of an int as a size_t; a negative one is larger than any length.
LEMMA SizeFacts ==
  ASSUME NEW n \in Ints
  PROVE  /\ n \in Int
         /\ n >= 0 => Size(n) = n
         /\ n < 0 => Size(n) > MaxLength
<1>1. n \in Int /\ MaxLength - SizeSize < n /\ 2 * n < SizeSize
  BY BytesAssumption
<1>2. CASE n >= 0
  BY <1>1, <1>2, BytesAssumption DEF Size
<1>3. CASE n < 0
  <2>1. n + SizeSize \in 0 .. SizeSize - 1
    BY <1>1, <1>3, BytesAssumption
  <2>2. n % SizeSize = n + SizeSize
    BY <1>1, <1>3, <2>1, BytesAssumption
  <2> QED
    BY <1>1, <1>3, <2>2, BytesAssumption DEF Size
<1> QED
  BY <1>1, <1>2, <1>3

\* The sums of B_COPY are no larger than a size_t.
LEMMA SumFacts ==
  ASSUME NEW m \in Ints, NEW n \in Ints, m >= 0, n >= 0
  PROVE  Size(m + n) = m + n
<1>1. m + n \in 0 .. SizeSize - 1
  BY BytesAssumption
<1> QED
  BY <1>1, BytesAssumption DEF Size

\* An index that gets by the check is one of the object.
LEMMA BeyondFacts ==
  ASSUME NEW n \in Ints, NEW len \in 0 .. MaxLength, ~Beyond(n, len)
  PROVE  n \in 0 .. len - 1
<1>1. n \in Int /\ (n >= 0 => Size(n) = n) /\ (n < 0 => Size(n) > MaxLength)
  BY SizeFacts
<1>2. Size(n) \in Int /\ MaxLength \in Nat
  BY <1>1, BytesAssumption DEF Size
<1> QED
  BY <1>1, <1>2 DEF Beyond

\* Strings are sequences of bytes, no longer than an object can be.
LEMMA StringFacts ==
  ASSUME NEW s \in Strings
  PROVE  /\ s \in Seq(Byte)
         /\ Len(s) \in 0 .. MaxLength
         /\ s \in [1 .. Len(s) -> Byte]
<1>1. PICK n \in 0 .. MaxLength : s \in [1 .. n -> Byte]
  BY DEF Strings, BoundedSeq, SeqOf
<1>2. n \in Nat
  BY <1>1, BytesAssumption
<1>3. s \in Seq(Byte) /\ Len(s) = n
  BY <1>1, <1>2
<1> QED
  BY <1>1, <1>3

LEMMA SequenceIsString ==
  ASSUME NEW s \in Seq(Byte), Len(s) <= MaxLength
  PROVE  s \in Strings
<1>1. Len(s) \in 0 .. MaxLength /\ s \in [1 .. Len(s) -> Byte]
  BY BytesAssumption
<1> QED
  BY <1>1 DEF Strings, BoundedSeq, SeqOf

\* A part of a string is a string.
LEMMA PartOfString ==
  ASSUME NEW s \in Strings, NEW i \in 1 .. Len(s) + 1, NEW k \in i - 1 .. Len(s)
  PROVE  SubSeq(s, i, k) \in Strings /\ Len(SubSeq(s, i, k)) = k - i + 1
<1>1. s \in Seq(Byte) /\ Len(s) \in Nat /\ Len(s) <= MaxLength
  BY StringFacts, BytesAssumption
<1>2. i \in Int /\ k \in Int /\ i >= 1 /\ k >= i - 1 /\ k <= Len(s)
  BY <1>1
<1>3. SubSeq(s, i, k) \in Seq(Byte)
  <2>1. \A j \in i .. k : s[j] \in Byte
    BY <1>1, <1>2
  <2> QED
    BY <1>2, <2>1, SubSeqProperties
<1>4. Len(SubSeq(s, i, k)) = k - i + 1
  BY <1>1, <1>2
<1> DEFINE t == SubSeq(s, i, k)
<1>5. Len(t) <= MaxLength
  BY <1>1, <1>2, <1>4, BytesAssumption
<1>6. t \in Seq(Byte) /\ Len(t) = k - i + 1
  BY <1>3, <1>4
<1> HIDE DEF t
<1>7. t \in Strings
  BY <1>5, <1>6, SequenceIsString
<1> QED
  BY <1>6, <1>7 DEF t

\* strlen() finds an end, and what is before it is a string again.
LEMMA UpToNulFacts ==
  ASSUME NEW s \in Strings
  PROVE  UpToNul(s) \in Strings
<1> DEFINE ends == {i \in 1 .. Len(s) + 1 : i > Len(s) \/ s[i] = 0}
           k == Min(ends) - 1
<1>1. s \in Seq(Byte) /\ Len(s) \in Nat /\ Len(s) <= MaxLength
  BY StringFacts, BytesAssumption
<1>2. ends \subseteq Nat /\ Len(s) + 1 \in ends
  BY <1>1
<1>3. Min(ends) \in ends
  <2> HIDE DEF ends
  <2> QED
    BY <1>2, MinOfNats
<1>4. k \in 0 .. Len(s)
  BY <1>1, <1>3
<1>5. UpToNul(s) = SubSeq(s, 1, k)
  BY DEF UpToNul
<1> HIDE DEF k
<1> QED
  BY <1>1, <1>4, <1>5, PartOfString

-----------------------------------------------------------------------------
(* What a call leaves behind when it ends in one of the four ways that it  *)
(* can: it throws or answers, writes, makes an object, or is undefined.    *)

\* An object that bytes are written into keeps its length and has bytes in it.
LEMMA WrittenIsString ==
  ASSUME NEW o \in DOMAIN content, content[o] \in Strings,
         NEW offset \in Int, NEW s, \A i \in DOMAIN s : s[i] \in Byte
  PROVE  Written(o, offset, s) \in Strings
<1>1. PICK n \in 0 .. MaxLength : content[o] \in [1 .. n -> Byte]
  BY DEF Strings, BoundedSeq, SeqOf
<1>2. Written(o, offset, s) \in [1 .. n -> Byte]
  BY <1>1 DEF Written
<1> QED
  BY <1>1, <1>2 DEF Strings, BoundedSeq, SeqOf

LEMMA AnswerKeepsMemory ==
  ASSUME BytesTypeOK, NEW v, Throws \/ Gives(v)
  PROVE  BytesTypeOK' /\ answer' # "undefined"
BY DEF BytesTypeOK, Throws, Gives

LEMMA WritesKeepsMemory ==
  ASSUME BytesTypeOK, NEW o \in reachable, NEW offset \in Int,
         NEW s, \A i \in DOMAIN s : s[i] \in Byte, Writes(o, offset, s)
  PROVE  BytesTypeOK' /\ answer' # "undefined"
<1>1. Written(o, offset, s) \in Strings
  BY WrittenIsString DEF BytesTypeOK
<1> QED
  BY <1>1 DEF BytesTypeOK, Writes

LEMMA NewKeepsMemory ==
  ASSUME BytesTypeOK, NEW o \in Objects, NEW s \in Strings, Bytes_new(o, s)
  PROVE  BytesTypeOK' /\ answer' # "undefined"
BY DEF BytesTypeOK, Bytes_new

LEMMA UndefinedKeepsMemory ==
  ASSUME BytesTypeOK, NEW f, NEW ints, Undefined(f, ints)
  PROVE  BytesTypeOK'
BY DEF BytesTypeOK, Undefined

-----------------------------------------------------------------------------
(* One lemma for each of the B_ functions.                                 *)

BytesInv == BytesTypeOK /\ StaysInside

\* The length of an object is one that calloc() can give.
LEMMA LengthFacts ==
  ASSUME BytesTypeOK, NEW o \in reachable
  PROVE  /\ o \in DOMAIN content
         /\ content[o] \in Strings
         /\ Length(o) \in 0 .. MaxLength
BY StringFacts DEF BytesTypeOK, Length

LEMMA AllocKeeps ==
  ASSUME BytesTypeOK, NEW o \in Objects, NEW n \in Ints, B_ALLOC(o, n)
  PROVE  BytesTypeOK' /\ answer' # "undefined"
<1>1. CASE Size(n) > MaxLength
  BY <1>1, AnswerKeepsMemory DEF B_ALLOC
<1>2. CASE ~(Size(n) > MaxLength)
  <2>1. n \in 0 .. MaxLength
    BY <1>2, SizeFacts, BytesAssumption
  <2>2. [i \in 1 .. n |-> 0] \in Strings
    <3>1. 0 \in Byte
      BY BytesAssumption DEF Byte
    <3> QED
      BY <2>1, <3>1 DEF Strings, BoundedSeq, SeqOf
  <2> QED
    BY <1>2, <2>2, NewKeepsMemory DEF B_ALLOC
<1> QED
  BY <1>1, <1>2

\* from, to and to - from are no longer ints that may be anything: 0 <= from <= to,
\* and to is an index of the object.
LEMMA FillKeeps ==
  ASSUME BytesTypeOK, NEW o \in reachable, NEW from \in Ints, NEW to \in Ints,
         NEW v \in Int, B_FILL(o, from, to, v)
  PROVE  BytesTypeOK' /\ answer' # "undefined"
<1>1. CASE from > to \/ from < 0 \/ Beyond(to, Length(o))
  BY <1>1, AnswerKeepsMemory DEF B_FILL
<1>2. CASE ~(from > to \/ from < 0 \/ Beyond(to, Length(o)))
  <2>1. /\ from \in Int /\ to \in Int /\ Length(o) \in Nat
        /\ 0 <= from /\ from <= to /\ to < Length(o)
    BY <1>2, LengthFacts, BeyondFacts, BytesAssumption
  <2>2. Inside(o, from, to - from)
    BY <2>1 DEF Inside
  <2>3. Writes(o, from, [i \in 1 .. to - from |-> v % ByteSize])
    BY <1>2, <2>2 DEF B_FILL
  <2>4. v % ByteSize \in Byte
    BY BytesAssumption DEF Byte
  <2> QED
    BY <2>1, <2>3, <2>4, WritesKeepsMemory
<1> QED
  BY <1>1, <1>2

\* Only the sums of an offset and the length are checked: when none of them is
\* negative, that is enough.
LEMMA CopyKeeps ==
  ASSUME BytesTypeOK, NEW s \in reachable, NEW d \in reachable,
         NEW i \in Ints, NEW j \in Ints, NEW n \in Ints, B_COPY(s, i, d, j, n)
  PROVE  /\ BytesTypeOK'
         /\ answer' = "undefined" => culprit' = [of |-> "B_COPY", negative |-> TRUE]
<1> DEFINE inside == Inside(s, i, n) /\ Inside(d, j, n)
<1>1. /\ i \in Int /\ j \in Int /\ n \in Int
      /\ Length(s) \in 0 .. MaxLength /\ Length(d) \in 0 .. MaxLength
      /\ MaxLength \in Nat
  BY LengthFacts, BytesAssumption
<1>2. CASE CopyRefused(Length(s), i, Length(d), j, n)
  BY <1>2, AnswerKeepsMemory DEF B_COPY
<1>3. CASE ~CopyRefused(Length(s), i, Length(d), j, n) /\ ~inside
  <2>1. Undefined("B_COPY", {i, j, n})
    BY <1>3 DEF B_COPY
  <2>2. i < 0 \/ j < 0 \/ n < 0
    <3>1. SUFFICES ASSUME i >= 0, j >= 0, n >= 0
                   PROVE  FALSE
      BY <1>1
    <3>2. Size(i + n) = i + n /\ Size(j + n) = j + n
      BY <3>1, SumFacts
    <3> QED
      BY <1>1, <1>3, <3>1, <3>2 DEF CopyRefused, Inside
  <2>3. \E m \in {i, j, n} : m < 0
    BY <2>2
  <2> QED
    BY <2>1, <2>3, UndefinedKeepsMemory DEF Undefined
<1>4. CASE ~CopyRefused(Length(s), i, Length(d), j, n) /\ inside
  <2> DEFINE from == Window(s, i, n)
             over == Window(d, j, n)
  <2>1. from \in Strings /\ over \in Strings
    <3>1. i >= 0 /\ j >= 0 /\ n >= 0 /\ i + n <= Length(s) /\ j + n <= Length(d)
      BY <1>4 DEF Inside
    <3>2. i + 1 \in 1 .. Length(s) + 1 /\ i + n \in (i + 1) - 1 .. Length(s)
      BY <1>1, <3>1
    <3>3. j + 1 \in 1 .. Length(d) + 1 /\ j + n \in (j + 1) - 1 .. Length(d)
      BY <1>1, <3>1
    <3>4. content[s] \in Strings /\ content[d] \in Strings
      BY LengthFacts
    <3>5. SubSeq(content[s], i + 1, i + n) \in Strings
      BY <3>2, <3>4, PartOfString DEF Length
    <3>6. SubSeq(content[d], j + 1, j + n) \in Strings
      BY <3>3, <3>4, PartOfString DEF Length
    <3> QED
      BY <3>5, <3>6 DEF Window
  <2> HIDE DEF from, over
  <2>2. \E t : (\A k \in DOMAIN t : t[k] \in Byte) /\ Writes(d, j, t)
    <3>1. \A k \in DOMAIN from : from[k] \in Byte
      BY <2>1, StringFacts
    <3>2. ToSet(from) \cup ToSet(over) \subseteq Byte
      BY <2>1, StringFacts DEF ToSet
    <3>3. \/ \E t \in [1 .. n -> ToSet(from) \cup ToSet(over)] : Writes(d, j, t)
          \/ Writes(d, j, from)
      BY <1>4 DEF B_COPY, from, over
    <3> QED
      BY <3>1, <3>2, <3>3
  <2> QED
    BY <1>1, <2>2, WritesKeepsMemory
<1> QED
  BY <1>2, <1>3, <1>4

\* A negative index is beyond the length, as a size_t.
LEMMA GetKeeps ==
  ASSUME BytesTypeOK, NEW o \in reachable, NEW i \in Ints, B_GET(o, i)
  PROVE  BytesTypeOK' /\ answer' # "undefined"
<1>1. CASE Beyond(i, Length(o))
  BY <1>1, AnswerKeepsMemory DEF B_GET
<1>2. CASE ~Beyond(i, Length(o))
  <2>1. Inside(o, i, 1)
    BY <1>2, LengthFacts, BeyondFacts, BytesAssumption DEF Inside
  <2> QED
    BY <1>2, <2>1, AnswerKeepsMemory DEF B_GET
<1> QED
  BY <1>1, <1>2

LEMMA SetKeeps ==
  ASSUME BytesTypeOK, NEW o \in reachable, NEW i \in Ints, NEW v \in Int, B_SET(o, i, v)
  PROVE  BytesTypeOK' /\ answer' # "undefined"
<1> DEFINE refused == Beyond(i, Length(o)) \/ v < 0 \/ v >= ByteSize
<1>1. CASE refused
  BY <1>1, AnswerKeepsMemory DEF B_SET
<1>2. CASE ~refused
  <2>1. i \in Int /\ Inside(o, i, 1)
    BY <1>2, LengthFacts, BeyondFacts, BytesAssumption DEF Inside
  <2>2. v \in Byte
    BY <1>2, BytesAssumption DEF Byte
  <2>3. Writes(o, i, <<v>>)
    BY <1>2, <2>1 DEF B_SET
  <2> QED
    BY <2>1, <2>2, <2>3, WritesKeepsMemory
<1> QED
  BY <1>1, <1>2

LEMMA DecodeKeeps ==
  ASSUME BytesTypeOK, NEW o \in reachable, NEW i \in Ints, NEW n \in Ints,
         B_DECODE_DEFAULT(o, i, n)
  PROVE  BytesTypeOK' /\ (answer' = "undefined" => culprit'.of = "B_DECODE_DEFAULT")
<1>1. CASE Undefined("B_DECODE_DEFAULT", {i, n})
  BY <1>1, UndefinedKeepsMemory DEF Undefined
<1>2. CASE \E v : Gives(v)
  BY <1>2, AnswerKeepsMemory
<1> QED
  BY <1>1, <1>2 DEF B_DECODE_DEFAULT

\* The three that hand a text to transcode(): two of them any part of memory.
LEMMA TranscodersKeep ==
  ASSUME BytesTypeOK, NEW f, NEW i, NEW n, NEW new \in Objects,
         Throws \/ Undefined(f, {i, n}) \/ (\E s \in Strings : Gives(s) \/ Bytes_new(new, s))
  PROVE  BytesTypeOK' /\ (answer' = "undefined" => culprit'.of = f)
<1>1. CASE Undefined(f, {i, n})
  BY <1>1, UndefinedKeepsMemory DEF Undefined
<1>2. CASE Throws \/ \E v : Gives(v)
  BY <1>2, AnswerKeepsMemory
<1>3. CASE \E s \in Strings : Bytes_new(new, s)
  BY <1>3, NewKeepsMemory
<1> QED
  BY <1>1, <1>2, <1>3

-----------------------------------------------------------------------------
LEMMA BytesInvInit == BinaryInit => BytesInv
BY DEF BinaryInit, BytesInit, BytesInv, BytesTypeOK, StaysInside

LEMMA BytesInvNext == BytesInv /\ [BinaryNext]_binaryVars => BytesInv'
<1> SUFFICES ASSUME BytesInv, [BinaryNext]_binaryVars
             PROVE  BytesInv'
  OBVIOUS
<1> USE DEF BytesInv
<1>1. CASE UNCHANGED bytesVars
  BY <1>1 DEF bytesVars, BytesTypeOK, Strings, Byte, StaysInside
<1>2. CASE BytesNext /\ answer # "undefined"
  <2>1. ASSUME BytesTypeOK', answer' # "undefined"
        PROVE  BytesInv'
    BY <2>1 DEF StaysInside
  <2>2. ASSUME NEW o \in Objects, NEW n \in Ints, B_ALLOC(o, n)
        PROVE  BytesInv'
    BY <2>1, <2>2, AllocKeeps
  <2>3. ASSUME NEW o \in Objects, NEW s \in Strings, B_ENCODE_DEFAULT(o, s)
        PROVE  BytesInv'
    BY <2>1, <2>3, UpToNulFacts, NewKeepsMemory DEF B_ENCODE_DEFAULT
  <2>4. ASSUME NEW o \in reachable, B_LENGTH(o)
        PROVE  BytesInv'
    BY <2>1, <2>4, AnswerKeepsMemory DEF B_LENGTH
  <2>5. ASSUME NEW o \in reachable, Drop(o)
        PROVE  BytesInv'
    BY <1>2, <2>5 DEF Drop, BytesTypeOK, StaysInside
  <2>6. ASSUME NEW o \in reachable, NEW i \in Ints, NEW j \in Ints,
               NEW v \in {0, 1, ByteSize}, B_FILL(o, i, j, v)
        PROVE  BytesInv'
    <3>1. v \in Int
      BY BytesAssumption
    <3> QED
      BY <2>1, <2>6, <3>1, FillKeeps
  <2>7. ASSUME NEW s \in reachable, NEW d \in reachable,
               NEW i \in Ints, NEW j \in Ints, NEW n \in Ints, B_COPY(s, i, d, j, n)
        PROVE  BytesInv'
    BY <2>7, CopyKeeps DEF StaysInside
  <2>8. ASSUME NEW o \in reachable, NEW i \in Ints, B_GET(o, i)
        PROVE  BytesInv'
    BY <2>1, <2>8, GetKeeps
  <2>9. ASSUME NEW o \in reachable, NEW i \in Ints,
               NEW v \in {-1, 0, 1, ByteSize}, B_SET(o, i, v)
        PROVE  BytesInv'
    <3>1. v \in Int
      BY BytesAssumption
    <3> QED
      BY <2>1, <2>9, <3>1, SetKeeps
  <2>10. ASSUME NEW o \in reachable, NEW i \in Ints, NEW n \in Ints,
                B_DECODE_DEFAULT(o, i, n)
         PROVE  BytesInv'
    BY <2>10, DecodeKeeps DEF StaysInside
  <2>11. ASSUME NEW o \in reachable, NEW i \in Ints, NEW n \in Ints, B_DECODE(o, i, n)
         PROVE  BytesInv'
    <3>1. Throws \/ Undefined("B_DECODE", {i, n}) \/ \E s \in Strings : Gives(s)
      BY <2>11 DEF B_DECODE
    <3>2. o \in Objects
      BY DEF BytesTypeOK
    <3> QED
      BY <3>1, <3>2, TranscodersKeep DEF StaysInside
  <2>12. ASSUME NEW o \in reachable, NEW i \in Ints, NEW n \in Ints, NEW new \in Objects,
                B_TRANSCODE(o, i, n, new)
         PROVE  BytesInv'
    <3>1. Throws \/ Undefined("B_TRANSCODE", {i, n}) \/ \E s \in Strings : Bytes_new(new, s)
      BY <2>12 DEF B_TRANSCODE
    <3> QED
      BY <3>1, TranscodersKeep DEF StaysInside
  <2>13. ASSUME NEW new \in Objects, B_ENCODE(new)
         PROVE  BytesInv'
    <3>1. Throws \/ \E s \in Strings : Bytes_new(new, s)
      BY <2>13 DEF B_ENCODE
    <3> QED
      BY <2>1, <3>1, AnswerKeepsMemory, NewKeepsMemory
  <2>14. ASSUME NEW o \in DOMAIN content, Bytes_finalize(o)
         PROVE  BytesInv'
    BY <1>2, <2>14 DEF Bytes_finalize, BytesTypeOK, StaysInside
  <2> QED
    BY <1>2, <2>2, <2>3, <2>4, <2>5, <2>6, <2>7, <2>8, <2>9, <2>10, <2>11,
       <2>12, <2>13, <2>14 DEF BytesNext
<1> QED
  BY <1>1, <1>2 DEF BinaryNext, BytesNext, binaryVars, bytesVars

\* StaysInside, for objects of any length and any ints that size_t is large beside:
\* the only calls that reach memory outside of their objects are those that decode -
\* B_DECODE_DEFAULT, B_DECODE and B_TRANSCODE - and a B_COPY with a negative int.
THEOREM StaysInsideHolds == BinarySpec => []StaysInside
<1>1. BytesInv => StaysInside
  BY DEF BytesInv
<1> QED
  BY <1>1, BytesInvInit, BytesInvNext, PTL DEF BinarySpec

-----------------------------------------------------------------------------
(* ByteIO: the segments of the list as the bytes they stand for.           *)

Values == 0 .. MaxBytes

\* A segment is a window that lies inside its memory.
Segments == {s \in [_bytes : Seq(Values), _offset : Nat, _length : Nat] :
               s._offset + s._length <= Len(s._bytes)}

Contents(segments) == [i \in DOMAIN segments |-> Content(segments[i])]

LEMMA ContentFacts ==
  ASSUME NEW s \in Segments
  PROVE  /\ Content(s) \in Seq(Values) /\ Len(Content(s)) = s._length
         /\ \A i \in 1 .. s._length : Content(s)[i] = s._bytes[s._offset + i]
<1>1. /\ s._bytes \in Seq(Values) /\ s._offset \in Nat /\ s._length \in Nat
      /\ s._offset + s._length <= Len(s._bytes)
  BY DEF Segments
<1> DEFINE m == s._bytes  i == s._offset + 1  j == s._offset + s._length
<1>2. /\ m \in Seq(Values) /\ i \in Int /\ j \in Int /\ i >= 1 /\ i <= j + 1 /\ j <= Len(m)
      /\ j - i + 1 = s._length
  BY <1>1
<1>3. SubSeq(m, i, j) \in Seq(Values) /\ Len(SubSeq(m, i, j)) = j - i + 1
  <2> HIDE DEF m, i, j
  <2>1. \A k \in i .. j : m[k] \in Values
    BY <1>2
  <2> QED
    BY <1>2, <2>1, SubSeqProperties
<1>4. \A k \in 1 .. j - i + 1 : SubSeq(m, i, j)[k] = m[i + k - 1]
  <2> HIDE DEF m, i, j
  <2> QED
    BY <1>2, SubSeqProperties
<1>5. \A k \in 1 .. s._length : i + k - 1 = s._offset + k
  BY <1>1
<1> QED
  BY <1>1, <1>2, <1>3, <1>4, <1>5 DEF Content

LEMMA ContentsFacts ==
  ASSUME NEW b \in Seq(Segments)
  PROVE  Contents(b) \in Seq(Seq(Values)) /\ Len(Contents(b)) = Len(b)
<1>1. \A i \in 1 .. Len(b) : b[i] \in Segments
  OBVIOUS
<1>2. \A i \in 1 .. Len(b) : Content(b[i]) \in Seq(Values)
  BY <1>1, ContentFacts
<1> QED
  BY <1>2 DEF Contents

LEMMA FlatFacts ==
  ASSUME NEW b \in Seq(Segments)
  PROVE  Flat(b) = FlattenSeq(Contents(b)) /\ Flat(b) \in Seq(Values)
<1>1. Flat(b) = FlattenSeq(Contents(b))
  BY DEF Flat, Contents
<1> QED
  BY <1>1, ContentsFacts, FlattenType

LEMMA FlatEmpty == Flat(<<>>) = <<>>
<1>1. Contents(<<>>) = <<>>
  BY DEF Contents
<1> QED
  BY <1>1, FlattenEmpty DEF Flat, Contents

LEMMA FlatAppend ==
  ASSUME NEW b \in Seq(Segments), NEW s \in Segments
  PROVE  Flat(Append(b, s)) = Flat(b) \o Content(s)
<1>1. Append(b, s) \in Seq(Segments)
  OBVIOUS
<1>2. Contents(Append(b, s)) = Append(Contents(b), Content(s))
  <2> DEFINE x == Contents(Append(b, s))  y == Append(Contents(b), Content(s))
  <2>1. x \in Seq(Seq(Values)) /\ Len(x) = Len(b) + 1
    <3>1. \A c \in Seq(Segments) : Contents(c) \in Seq(Seq(Values)) /\ Len(Contents(c)) = Len(c)
      BY ContentsFacts
    <3>2. Len(Append(b, s)) = Len(b) + 1
      OBVIOUS
    <3> QED
      BY <1>1, <3>1, <3>2
  <2>2. y \in Seq(Seq(Values)) /\ Len(y) = Len(b) + 1
    BY ContentsFacts, ContentFacts
  <2>3. \A i \in 1 .. Len(b) + 1 : x[i] = y[i]
    BY <1>1, ContentsFacts DEF Contents
  <2> HIDE DEF x, y
  <2>4. x = y
    BY <2>1, <2>2, <2>3, SeqEqual
  <2> QED
    BY <2>4 DEF x, y
<1> QED
  BY <1>1, <1>2, ContentsFacts, ContentFacts, FlatFacts, FlattenAppend

LEMMA FlatHead ==
  ASSUME NEW b \in Seq(Segments), b # <<>>
  PROVE  Flat(b) = Content(Head(b)) \o Flat(Tail(b))
<1>1. Tail(b) \in Seq(Segments) /\ Len(b) \in Nat \ {0}
  OBVIOUS
<1>2. Contents(b) \in Seq(Seq(Values)) /\ Len(Contents(b)) = Len(b) /\ Contents(b) # <<>>
  <2>1. Contents(b) \in Seq(Seq(Values)) /\ Len(Contents(b)) = Len(b)
    BY ContentsFacts
  <2> QED
    BY <1>1, <2>1
<1>3. Head(Contents(b)) = Content(Head(b))
  BY <1>1, <1>2 DEF Contents
<1>4. Tail(Contents(b)) = Contents(Tail(b))
  <2> DEFINE x == Tail(Contents(b))  y == Contents(Tail(b))
  <2>1. x \in Seq(Seq(Values)) /\ Len(x) = Len(b) - 1
    BY <1>1, <1>2
  <2>2. y \in Seq(Seq(Values)) /\ Len(y) = Len(b) - 1
    <3>1. \A c \in Seq(Segments) : Contents(c) \in Seq(Seq(Values)) /\ Len(Contents(c)) = Len(c)
      BY ContentsFacts
    <3>2. Len(Tail(b)) = Len(b) - 1
      BY <1>1
    <3> QED
      BY <1>1, <3>1, <3>2
  <2>3. \A i \in 1 .. Len(b) - 1 : x[i] = y[i]
    BY <1>1, <1>2, ContentsFacts DEF Contents
  <2> HIDE DEF x, y
  <2>4. x = y
    BY <2>1, <2>2, <2>3, SeqEqual
  <2> QED
    BY <2>4 DEF x, y
<1> QED
  BY <1>1, <1>2, <1>3, <1>4, FlatFacts, FlattenHead

LEMMA FlatCons ==
  ASSUME NEW b \in Seq(Segments), NEW s \in Segments
  PROVE  <<s>> \o b \in Seq(Segments) /\ Flat(<<s>> \o b) = Content(s) \o Flat(b)
<1> DEFINE c == <<s>> \o b
<1>1. c \in Seq(Segments) /\ Len(c) = Len(b) + 1 /\ Head(c) = s /\ c # <<>>
  OBVIOUS
<1>2. Tail(c) = b
  <2>1. Tail(c) \in Seq(Segments) /\ Len(Tail(c)) = Len(b)
    BY <1>1
  <2>2. \A i \in 1 .. Len(b) : Tail(c)[i] = b[i]
    BY <1>1
  <2> HIDE DEF c
  <2> QED
    BY <2>1, <2>2, SeqEqual
<1>3. Flat(c) = Content(Head(c)) \o Flat(Tail(c))
  <2> HIDE DEF c
  <2> QED
    BY <1>1, FlatHead
<1> QED
  BY <1>1, <1>2, <1>3

\* A segment of which the first n bytes are taken is those bytes and a narrower one.
LEMMA SliceFacts ==
  ASSUME NEW s \in Segments, NEW n \in 0 .. s._length
  PROVE  /\ Slice(s, n) \in Segments
         /\ Content(s) = SubSeq(Content(s), 1, n) \o Content(Slice(s, n))
<1>1. /\ s \in [_bytes : Seq(Values), _offset : Nat, _length : Nat]
      /\ s._bytes \in Seq(Values) /\ s._offset \in Nat /\ s._length \in Nat
      /\ s._offset + s._length <= Len(s._bytes) /\ n \in Nat /\ n <= s._length
  BY DEF Segments
<1>2. /\ Slice(s, n)._bytes = s._bytes /\ Slice(s, n)._offset = s._offset + n
      /\ Slice(s, n)._length = s._length - n
      /\ Slice(s, n) \in [_bytes : Seq(Values), _offset : Nat, _length : Nat]
  BY <1>1 DEF Slice, ByteString
<1>3. Slice(s, n) \in Segments
  BY <1>1, <1>2 DEF Segments
<1> DEFINE whole == Content(s)
           rest  == Content(Slice(s, n))
           first == SubSeq(whole, 1, n)
<1>4. /\ whole \in Seq(Values) /\ Len(whole) = s._length
      /\ \A i \in 1 .. s._length : whole[i] = s._bytes[s._offset + i]
  BY ContentFacts
<1>5. /\ rest \in Seq(Values) /\ Len(rest) = s._length - n
      /\ \A i \in 1 .. s._length - n : rest[i] = s._bytes[s._offset + n + i]
  <2>1. /\ Content(Slice(s, n)) \in Seq(Values)
        /\ Len(Content(Slice(s, n))) = Slice(s, n)._length
        /\ \A i \in 1 .. Slice(s, n)._length :
             Content(Slice(s, n))[i] = Slice(s, n)._bytes[Slice(s, n)._offset + i]
    BY <1>3, ContentFacts
  <2> HIDE DEF rest
  <2> QED
    BY <1>2, <2>1 DEF rest
<1> HIDE DEF whole, rest
<1>6. /\ first \in Seq(Values) /\ Len(first) = n
      /\ \A i \in 1 .. n : first[i] = whole[i]
  <2>1. \A i \in 1 .. n : whole[i] \in Values
    BY <1>1, <1>4
  <2> QED
    BY <1>1, <2>1, SubSeqProperties
<1> HIDE DEF first
<1>7. first \o rest \in Seq(Values) /\ Len(first \o rest) = s._length
  <2>1. first \o rest \in Seq(Values) /\ Len(first \o rest) = Len(first) + Len(rest)
    BY <1>5, <1>6, ConcatProperties, Zenon
  <2> QED
    BY <1>1, <1>5, <1>6, <2>1
<1>8. ASSUME NEW i \in 1 .. s._length
      PROVE  whole[i] = (first \o rest)[i]
  <2>1. CASE i <= n
    BY <1>1, <1>5, <1>6, <2>1
  <2>2. CASE ~(i <= n)
    <3>1. i - n \in 1 .. s._length - n /\ s._offset + n + (i - n) = s._offset + i
      BY <1>1, <2>2
    <3>2. (first \o rest)[i] = rest[i - n]
      <4>1. i \in Len(first) + 1 .. Len(first) + Len(rest)
        BY <1>1, <1>5, <1>6, <2>2
      <4> QED
        BY <1>5, <1>6, <4>1
    <3> QED
      BY <1>4, <1>5, <3>1, <3>2
  <2> QED
    BY <2>1, <2>2
<1>9. whole = first \o rest
  BY <1>4, <1>7, <1>8, SeqEqual
<1> QED
  BY <1>3, <1>9 DEF whole, rest, first

\* What B_COPY puts behind the bytes that are there already.
LEMMA CopiedFacts ==
  ASSUME NEW s \in Segments, NEW b \in Seq(Values), NEW p \in Nat, NEW n \in 0 .. s._length,
         p + n <= Len(b)
  PROVE  LET c == Copied(s._bytes, s._offset, b, p, n)
         IN  /\ c \in Seq(Values) /\ Len(c) = Len(b)
             /\ SubSeq(c, 1, p + n) = SubSeq(b, 1, p) \o SubSeq(Content(s), 1, n)
<1> DEFINE c == Copied(s._bytes, s._offset, b, p, n)
           t == Content(s)
<1>1. /\ s._bytes \in Seq(Values) /\ s._offset \in Nat /\ s._length \in Nat
      /\ s._offset + s._length <= Len(s._bytes) /\ n \in Nat /\ n <= s._length
  BY DEF Segments
<1>2. /\ t \in Seq(Values) /\ Len(t) = s._length
      /\ \A i \in 1 .. s._length : t[i] = s._bytes[s._offset + i]
  BY ContentFacts
<1>3. \A i \in 1 .. Len(b) : c[i] = IF i \in p + 1 .. p + n THEN t[i - p] ELSE b[i]
  <2>1. ASSUME NEW i \in p + 1 .. p + n
        PROVE  t[i - p] = s._bytes[s._offset + i - p]
    <3>1. i - p \in 1 .. s._length /\ s._offset + i - p = s._offset + (i - p)
      BY <1>1
    <3> HIDE DEF t
    <3> QED
      BY <1>2, <3>1
  <2> QED
    BY <2>1 DEF Copied
<1>4. \A i \in p + 1 .. p + n : i - p \in 1 .. s._length
  BY <1>1
<1>5. c \in Seq(Values) /\ Len(c) = Len(b)
  <2>1. c = [i \in 1 .. Len(b) |-> c[i]]
    BY DEF Copied
  <2> HIDE DEF c, t
  <2>2. \A i \in 1 .. Len(b) : c[i] \in Values
    BY <1>2, <1>3, <1>4
  <2> QED
    BY <2>1, <2>2
<1> HIDE DEF c, t
<1> DEFINE x == SubSeq(c, 1, p + n)
           y == SubSeq(b, 1, p)
           z == SubSeq(t, 1, n)
<1>6. /\ x \in Seq(Values) /\ Len(x) = p + n
      /\ \A i \in 1 .. p + n : x[i] = c[i]
  <2>1. p + n \in Nat /\ \A i \in 1 .. p + n : c[i] \in Values
    BY <1>1, <1>5
  <2> QED
    BY <2>1, SubSeqProperties
<1>7. /\ y \in Seq(Values) /\ Len(y) = p
      /\ \A i \in 1 .. p : y[i] = b[i]
  <2>1. p \in Nat /\ \A i \in 1 .. p : b[i] \in Values
    BY <1>1
  <2> QED
    BY <2>1, SubSeqProperties
<1>8. /\ z \in Seq(Values) /\ Len(z) = n
      /\ \A i \in 1 .. n : z[i] = t[i]
  <2>1. n \in Nat /\ \A i \in 1 .. n : t[i] \in Values
    BY <1>1, <1>2
  <2> QED
    BY <2>1, SubSeqProperties
<1> HIDE DEF x, y, z
<1>9. y \o z \in Seq(Values) /\ Len(y \o z) = p + n
  <2>1. Len(y) \in Nat /\ Len(z) \in Nat
    BY <1>1, <1>7, <1>8
  <2> QED
    BY <1>7, <1>8, ConcatProperties
<1>10. ASSUME NEW i \in 1 .. p + n
       PROVE  x[i] = (y \o z)[i]
  <2>1. CASE i <= p
    <3>1. i \in 1 .. p /\ i \in 1 .. Len(b) /\ i \notin p + 1 .. p + n
      BY <1>1, <2>1
    <3>2. (y \o z)[i] = y[i]
      BY <1>7, <1>8, <3>1
    <3> QED
      BY <1>3, <1>6, <1>7, <3>1, <3>2
  <2>2. CASE ~(i <= p)
    <3>1. i \in p + 1 .. p + n /\ i \in 1 .. Len(b) /\ i - p \in 1 .. n
      BY <1>1, <2>2
    <3>2. (y \o z)[i] = z[i - p]
      BY <1>1, <1>7, <1>8, <3>1
    <3> QED
      BY <1>3, <1>6, <1>8, <3>1, <3>2
  <2> QED
    BY <2>1, <2>2
<1>11. x = y \o z
  BY <1>6, <1>9, <1>10, SeqEqual
<1> QED
  BY <1>5, <1>11 DEF c, t, x, y, z

-----------------------------------------------------------------------------
(* ByteIO: its inductive invariant.  TypeOK says that `length' is that of  *)
(* the list; a turn keeps it because its segments lie inside their         *)
(* memories, and it throws nothing because what it copies fits: so what a  *)
(* call has allocated must be as long as it wants, and at least as long as *)
(* it has filled.  A toByteString() wants what it has and what is left.    *)

Calls ==
  /\ buffer \in Seq(Segments)
  /\ pc = "loop" => Len(bytes) = want /\ position <= want
  /\ peek => pc = "loop" /\ want = position + length
  /\ pc = "idle" => position = 0

ByteIOInv == TypeOK /\ Calls

\* What TypeOK says of a list, when all of its segments are windows.
LEMMA ListFacts ==
  ASSUME NEW b \in Seq(Segments)
  PROVE  /\ Len(Flat(b)) \in Nat
         /\ \A i \in DOMAIN b :
              /\ {b[i]._offset, b[i]._length} \subseteq Nat
              /\ b[i]._offset + b[i]._length <= Len(b[i]._bytes)
<1>1. Flat(b) \in Seq(Values)
  BY FlatFacts
<1>2. Len(Flat(b)) \in Nat
  BY <1>1
<1>3. \A i \in DOMAIN b : b[i] \in Segments
  OBVIOUS
<1> QED
  BY <1>2, <1>3 DEF Segments

LEMMA ZerosFacts ==
  ASSUME NEW n \in Nat
  PROVE  Zeros(n) \in Seq(Values) /\ Len(Zeros(n)) = n
<1>1. 0 \in Values
  BY BoundsAssumption DEF Values
<1> QED
  BY <1>1 DEF Zeros

LEMMA ByteIOInit == Init => ByteIOInv
<1> SUFFICES ASSUME Init PROVE ByteIOInv
  OBVIOUS
<1>1. buffer \in Seq(Segments) /\ <<>> \in Seq(Values) /\ Len(<<>>) = 0
  BY DEF Init
<1>2. TypeOK
  <2>1. Len(Flat(buffer)) = 0
    BY FlatEmpty DEF Init
  <2> QED
    <3>1. MaxBytes \in Nat
      BY BoundsAssumption
    <3>2. written \in 0 .. MaxBytes /\ length = 0 /\ length = Len(Flat(buffer))
      BY <2>1, <3>1 DEF Init
    <3>3. \A s \in {bytes, result} : s \in Seq(Values)
      BY <1>1 DEF Init
    <3>4. want = 0 /\ position = 0 /\ peek = FALSE /\ pc = "idle"
      BY DEF Init
    <3> QED
      BY <1>1, <3>2, <3>3, <3>4, ListFacts DEF TypeOK, Values
<1> QED
  BY <1>1, <1>2 DEF Init, ByteIOInv, Calls

\* The segment that a write() puts at the end: its window is the bytes written.
LEMMA WriteFacts ==
  ASSUME ByteIOInv, NEW k \in 0 .. MaxSegment, NEW offset \in 0 .. MaxOffset, Write(k, offset)
  PROVE  /\ buffer' \in Seq(Segments)
         /\ \E s \in Segments : s._length = k /\ buffer' = Append(buffer, s)
<1> DEFINE fresh == [i \in 1 .. k |-> written + i]
           m     == Zeros(offset) \o fresh \o Zeros(1)
           s     == ByteString(m, offset, k)
<1>1. k \in Nat /\ offset \in Nat /\ written \in Nat /\ written + k <= MaxBytes /\ MaxBytes \in Nat
  BY BoundsAssumption DEF Write, ByteIOInv, TypeOK
<1>2. fresh \in Seq(Values) /\ Len(fresh) = k
  <2>1. \A i \in 1 .. k : written + i \in Values
    BY <1>1 DEF Values
  <2> QED
    BY <1>1, <2>1
<1>3. Zeros(offset) \in Seq(Values) /\ Len(Zeros(offset)) = offset
  BY <1>1, ZerosFacts
<1>4. Zeros(1) \in Seq(Values) /\ Len(Zeros(1)) = 1
  BY ZerosFacts
<1> HIDE DEF fresh
<1>5. Zeros(offset) \o fresh \in Seq(Values) /\ Len(Zeros(offset) \o fresh) = offset + k
  BY <1>2, <1>3, ConcatProperties
<1>6. m \in Seq(Values) /\ Len(m) = (offset + k) + 1
  <2> DEFINE front == Zeros(offset) \o fresh
  <2>1. m = front \o Zeros(1)
    OBVIOUS
  <2> HIDE DEF m, front
  <2>2. front \in Seq(Values) /\ Len(front) = offset + k
    BY <1>5 DEF front
  <2> DEFINE last == Zeros(1)
  <2>3. last \in Seq(Values) /\ Len(last) = 1 /\ m = front \o last
    BY <1>4, <2>1
  <2> HIDE DEF last
  <2>4. front \o last \in Seq(Values) /\ Len(front \o last) = Len(front) + Len(last)
    BY <2>2, <2>3, ConcatProperties, Zenon
  <2> QED
    BY <2>2, <2>3, <2>4
<1> HIDE DEF m
<1>7. s \in Segments /\ s._length = k
  BY <1>1, <1>6 DEF Segments, ByteString
<1>8. buffer' = Append(buffer, s)
  BY DEF Write, Push, m, fresh
<1> HIDE DEF s
<1> QED
  BY <1>7, <1>8 DEF ByteIOInv, Calls

LEMMA WriteKeeps ==
  ASSUME ByteIOInv, NEW k \in 0 .. MaxSegment, NEW offset \in 0 .. MaxOffset, Write(k, offset)
  PROVE  /\ ByteIOInv'
         /\ \E t \in Seq(Values) : Flat(buffer') = Flat(buffer) \o t
<1>1. PICK s \in Segments : s._length = k /\ buffer' = Append(buffer, s)
  BY WriteFacts
<1>2. buffer' \in Seq(Segments) /\ buffer \in Seq(Segments)
  BY WriteFacts DEF ByteIOInv, Calls
<1>3. Flat(buffer') = Flat(buffer) \o Content(s)
  BY <1>1, <1>2, FlatAppend
<1>4. Content(s) \in Seq(Values) /\ Len(Content(s)) = k /\ Flat(buffer) \in Seq(Values)
  BY <1>1, <1>2, ContentFacts, FlatFacts
<1>5. Len(Flat(buffer')) = Len(Flat(buffer)) + k
  BY <1>3, <1>4, ConcatProperties
<1>6. TypeOK'
  <2>1. written' \in 0 .. MaxBytes
    BY BoundsAssumption DEF Write, ByteIOInv, TypeOK
  <2>2. length' = Len(Flat(buffer'))
    BY <1>5 DEF Write, ByteIOInv, TypeOK
  <2>3. /\ want' \in Nat /\ position' \in Nat /\ peek' \in BOOLEAN /\ pc' \in {"idle", "loop"}
        /\ bytes' \in Seq(Values) /\ result' \in Seq(Values)
    BY DEF Write, ByteIOInv, TypeOK, Values
  <2> QED
    BY <1>2, <2>1, <2>2, <2>3, ListFacts DEF TypeOK, Values
<1> QED
  BY <1>2, <1>3, <1>4, <1>6 DEF Write, ByteIOInv, TypeOK, Calls

LEMMA BeginKeeps ==
  ASSUME ByteIOInv, NEW n \in Nat, NEW p \in BOOLEAN, p => n = length, Begin(n, p)
  PROVE  ByteIOInv'
<1>1. bytes' \in Seq(Values) /\ Len(bytes') = n
  BY ZerosFacts DEF Begin
<1>2. TypeOK'
  BY <1>1 DEF Begin, ByteIOInv, TypeOK, Values
<1>3. Calls'
  BY <1>1 DEF Begin, ByteIOInv, TypeOK, Calls
<1> QED
  BY <1>2, <1>3 DEF ByteIOInv

\* While there is something to do for the loop, there is a first segment, and what a
\* turn copies lies inside its memory and has room in what was allocated: read() never
\* throws.
TurnGoesThrough ==
  pc = "loop" /\ More =>
    /\ buffer # <<>>
    /\ LET segment == Head(buffer)
       IN  CopyInBounds(segment._bytes, segment._offset, bytes, position, TurnLength(segment))

LEMMA HeadFacts ==
  ASSUME ByteIOInv, pc = "loop", More
  PROVE  /\ buffer # <<>>
         /\ Head(buffer) \in Segments /\ Tail(buffer) \in Seq(Segments)
         /\ TurnLength(Head(buffer)) \in 0 .. Head(buffer)._length
         /\ position + TurnLength(Head(buffer)) <= want
<1>1. /\ buffer \in Seq(Segments) /\ length \in Nat /\ length > 0 /\ want \in Nat
      /\ position \in Nat /\ position < want /\ length = Len(Flat(buffer))
  BY DEF ByteIOInv, TypeOK, Calls, More
<1>2. buffer # <<>>
  BY <1>1, FlatEmpty
<1>3. Head(buffer) \in Segments /\ Tail(buffer) \in Seq(Segments)
  BY <1>1, <1>2
<1>4. Head(buffer)._length \in Nat
  BY <1>3 DEF Segments
<1> QED
  BY <1>1, <1>2, <1>3, <1>4 DEF TurnLength

LEMMA TurnIsInBounds == ByteIOInv => TurnGoesThrough
<1> SUFFICES ASSUME ByteIOInv, pc = "loop", More
             PROVE  /\ buffer # <<>>
                    /\ CopyInBounds(Head(buffer)._bytes, Head(buffer)._offset, bytes, position,
                                    TurnLength(Head(buffer)))
  BY DEF TurnGoesThrough
<1>1. /\ Head(buffer)._offset \in Nat /\ Head(buffer)._length \in Nat
      /\ Head(buffer)._offset + Head(buffer)._length <= Len(Head(buffer)._bytes)
      /\ Head(buffer)._bytes \in Seq(Values)
  BY HeadFacts DEF Segments
<1>2. Len(bytes) = want
  BY DEF ByteIOInv, Calls
<1> QED
  BY <1>1, <1>2, HeadFacts DEF CopyInBounds

\* A turn moves bytes from the front of the list to the end of what the call has got.
LEMMA TurnFacts ==
  ASSUME ByteIOInv, Turn
  PROVE  LET n == TurnLength(Head(buffer))
         IN  /\ buffer' \in Seq(Segments) /\ bytes' \in Seq(Values) /\ Len(bytes') = Len(bytes)
             /\ Flat(buffer) = SubSeq(Content(Head(buffer)), 1, n) \o Flat(buffer')
             /\ SubSeq(bytes', 1, position') =
                  SubSeq(bytes, 1, position) \o SubSeq(Content(Head(buffer)), 1, n)
             /\ Len(SubSeq(Content(Head(buffer)), 1, n)) = n
             /\ SubSeq(Content(Head(buffer)), 1, n) \in Seq(Values)
<1> DEFINE s == Head(buffer)
           n == TurnLength(s)
           taken == SubSeq(Content(s), 1, n)
<1>1. /\ buffer \in Seq(Segments) /\ buffer # <<>> /\ s \in Segments
      /\ Tail(buffer) \in Seq(Segments) /\ n \in 0 .. s._length /\ position + n <= want
  BY HeadFacts DEF Turn, ByteIOInv, Calls
<1>2. /\ bytes \in Seq(Values) /\ Len(bytes) = want /\ position \in Nat
  BY DEF Turn, ByteIOInv, Calls, TypeOK, Values
<1>3. /\ bytes' = Copied(s._bytes, s._offset, bytes, position, n) /\ position' = position + n
      /\ buffer' = IF n < s._length THEN <<Slice(s, n)>> \o Tail(buffer) ELSE Tail(buffer)
  BY DEF Turn
<1>4. Content(s) \in Seq(Values) /\ Len(Content(s)) = s._length /\ s._length \in Nat
  BY <1>1, ContentFacts DEF Segments
<1>5. Flat(buffer) = Content(s) \o Flat(Tail(buffer))
  BY <1>1, FlatHead
<1> HIDE DEF s, n
<1>6. taken \in Seq(Values) /\ Len(taken) = n
  <2>1. n \in Nat /\ \A i \in 1 .. n : Content(s)[i] \in Values
    BY <1>1, <1>4
  <2> QED
    BY <2>1, SubSeqProperties
<1>7. /\ bytes' \in Seq(Values) /\ Len(bytes') = Len(bytes)
      /\ SubSeq(bytes', 1, position') = SubSeq(bytes, 1, position) \o taken
  BY <1>1, <1>2, <1>3, CopiedFacts
<1>8. buffer' \in Seq(Segments) /\ Flat(buffer) = taken \o Flat(buffer')
  <2>1. CASE n < s._length
    <3>1. Slice(s, n) \in Segments /\ Content(s) = taken \o Content(Slice(s, n))
      BY <1>1, SliceFacts
    <3>2. /\ buffer' \in Seq(Segments)
          /\ Flat(buffer') = Content(Slice(s, n)) \o Flat(Tail(buffer))
      BY <1>1, <1>3, <2>1, <3>1, FlatCons
    <3>3. Content(Slice(s, n)) \in Seq(Values) /\ Flat(Tail(buffer)) \in Seq(Values)
      BY <1>1, <3>1, ContentFacts, FlatFacts
    <3> HIDE DEF taken
    <3>4. (taken \o Content(Slice(s, n))) \o Flat(Tail(buffer))
            = taken \o (Content(Slice(s, n)) \o Flat(Tail(buffer)))
      BY <1>6, <3>3, ConcatAssociative
    <3> QED
      BY <1>5, <3>1, <3>2, <3>4
  <2>2. CASE ~(n < s._length)
    <3>1. n = s._length
      BY <1>1, <1>4, <2>2
    <3>2. taken = Content(s)
      BY <1>4, <3>1
    <3> QED
      BY <1>1, <1>3, <1>5, <2>2, <3>2
  <2> QED
    BY <2>1, <2>2
<1> QED
  BY <1>6, <1>7, <1>8 DEF s, n

LEMMA TurnKeeps ==
  ASSUME ByteIOInv, Turn
  PROVE  ByteIOInv'
<1> DEFINE n == TurnLength(Head(buffer))
           taken == SubSeq(Content(Head(buffer)), 1, n)
<1>1. /\ buffer' \in Seq(Segments) /\ bytes' \in Seq(Values) /\ Len(bytes') = Len(bytes)
      /\ Flat(buffer) = taken \o Flat(buffer')
      /\ Len(taken) = n /\ taken \in Seq(Values)
  BY TurnFacts
<1>2. /\ pc = "loop" /\ pc' = pc /\ want' = want /\ peek' = peek /\ result' = result
      /\ written' = written /\ position' = position + n /\ length' = length - n
      /\ n \in Nat /\ position + n <= want
  <2>1. n \in 0 .. Head(buffer)._length /\ Head(buffer) \in Segments /\ position + n <= want
    BY HeadFacts DEF Turn
  <2>2. Head(buffer)._length \in Nat
    BY <2>1 DEF Segments
  <2> QED
    BY <2>1, <2>2 DEF Turn
<1> HIDE DEF taken, n
<1>3. length' = Len(Flat(buffer')) /\ length' \in Nat
  <2>1. Flat(buffer') \in Seq(Values)
    BY <1>1, FlatFacts
  <2>2. Len(Flat(buffer)) = n + Len(Flat(buffer')) /\ Len(Flat(buffer')) \in Nat
    <3> DEFINE rest == Flat(buffer')
    <3>1. rest \in Seq(Values) /\ Flat(buffer) = taken \o rest
      BY <1>1, <2>1
    <3> HIDE DEF rest
    <3>2. taken \in Seq(Values) /\ Len(taken) = n
      BY <1>1
    <3>3. ASSUME NEW s \in Seq(Values), NEW t \in Seq(Values)
          PROVE  Len(s \o t) = Len(s) + Len(t) /\ Len(t) \in Nat
      OBVIOUS
    <3>4. Len(taken \o rest) = Len(taken) + Len(rest) /\ Len(rest) \in Nat
      BY <3>1, <3>2, <3>3, Zenon
    <3> QED
      BY <3>1, <3>2, <3>4 DEF rest
  <2>3. length = Len(Flat(buffer))
    BY DEF ByteIOInv, TypeOK
  <2> QED
    BY <1>2, <2>2, <2>3
<1>4. TypeOK'
  <2>1. /\ written' \in 0 .. MaxBytes /\ want' \in Nat /\ peek' \in BOOLEAN
        /\ pc' \in {"idle", "loop"} /\ result' \in Seq(Values)
    BY <1>2 DEF ByteIOInv, TypeOK, Values
  <2>2. position' \in Nat
    BY <1>2 DEF ByteIOInv, TypeOK
  <2> QED
    BY <1>1, <1>3, <2>1, <2>2, ListFacts DEF TypeOK, Values
<1>5. Calls'
  <2>1. Len(bytes') = want' /\ position' <= want'
    BY <1>1, <1>2 DEF ByteIOInv, Calls
  <2>2. peek' => want' = position' + length'
    BY <1>2 DEF ByteIOInv, TypeOK, Calls
  <2> QED
    BY <1>1, <1>2, <2>1, <2>2 DEF Calls
<1> QED
  BY <1>4, <1>5 DEF ByteIOInv

LEMMA ReturnFacts ==
  ASSUME ByteIOInv, Return
  PROVE  /\ SubSeq(bytes, 1, position) \in Seq(Values)
         /\ Len(SubSeq(bytes, 1, position)) = position
         /\ buffer' \in Seq(Segments)
         /\ Flat(buffer') = IF peek THEN SubSeq(bytes, 1, position) ELSE Flat(buffer)
<1> DEFINE got == SubSeq(bytes, 1, position)
<1>1. /\ buffer \in Seq(Segments) /\ bytes \in Seq(Values) /\ position \in Nat
      /\ position <= Len(bytes)
  BY DEF Return, ByteIOInv, TypeOK, Calls, Values
<1>2. got \in Seq(Values) /\ Len(got) = position
  <2>1. \A i \in 1 .. position : bytes[i] \in Values
    BY <1>1
  <2> QED
    BY <1>1, <2>1, SubSeqProperties
<1>3. CASE peek
  <2> DEFINE s == ByteString(bytes, 0, position)
  <2>1. s \in Segments /\ Content(s) = got
    BY <1>1 DEF Segments, ByteString, Content
  <2>2. buffer' = <<s>>
    BY <1>3 DEF Return
  <2> HIDE DEF s, got
  <2>3. <<>> \in Seq(Segments) /\ <<s>> = Append(<<>>, s) /\ <<s>> \in Seq(Segments)
    BY <2>1
  <2>4. Flat(<<s>>) = <<>> \o got
    BY <2>1, <2>3, FlatAppend, FlatEmpty
  <2>5. <<>> \o got = got
    BY <1>2
  <2> QED
    BY <1>2, <1>3, <2>2, <2>3, <2>4, <2>5 DEF got
<1>4. CASE ~peek
  BY <1>1, <1>2, <1>4 DEF Return
<1> QED
  BY <1>3, <1>4

LEMMA ReturnKeeps ==
  ASSUME ByteIOInv, Return
  PROVE  ByteIOInv'
<1>1. result' \in Seq(Values) /\ result' = SubSeq(bytes, 1, position) /\ Len(result') = position
  BY ReturnFacts DEF Return
<1>2. length' = Len(Flat(buffer'))
  <2>1. CASE peek
    BY <1>1, <2>1, ReturnFacts DEF Return, CollapsedLength
  <2>2. CASE ~peek
    BY <2>2 DEF Return, ByteIOInv, TypeOK
  <2> QED
    BY <2>1, <2>2
<1>3. buffer' \in Seq(Segments)
  BY ReturnFacts
<1>4. /\ pc' = "idle" /\ want' = 0 /\ position' = 0 /\ ~peek' /\ peek' \in BOOLEAN
      /\ bytes' = <<>> /\ bytes' \in Seq(Values)
  <2>1. <<>> \in Seq(Values)
    OBVIOUS
  <2> QED
    BY <2>1 DEF Return
<1>5. written' \in 0 .. MaxBytes
  BY DEF Return, ByteIOInv, TypeOK
<1>6. TypeOK'
  BY <1>1, <1>2, <1>3, <1>4, <1>5, ListFacts DEF TypeOK, Values
<1> QED
  BY <1>3, <1>4, <1>6 DEF ByteIOInv, Calls

LEMMA ByteIONext == ByteIOInv /\ [Next]_vars => ByteIOInv'
<1> SUFFICES ASSUME ByteIOInv, [Next]_vars PROVE ByteIOInv'
  OBVIOUS
<1>1. CASE UNCHANGED vars
  BY <1>1 DEF vars, ByteIOInv, TypeOK, Calls
<1>2. CASE \E k \in 0 .. MaxSegment, offset \in 0 .. MaxOffset : Write(k, offset)
  BY <1>2, WriteKeeps
<1>3. CASE \E n \in 0 .. MaxBytes + 1 : Read(n)
  <2>1. PICK n \in 0 .. MaxBytes + 1 : Begin(n, FALSE)
    BY <1>3 DEF Read
  <2>2. n \in Nat
    BY BoundsAssumption
  <2> QED
    BY <2>1, <2>2, BeginKeeps
<1>4. CASE ReadAll \/ ToByteString
  <2>1. length \in Nat
    BY DEF ByteIOInv, TypeOK
  <2> QED
    BY <1>4, <2>1, BeginKeeps DEF ReadAll, ToByteString
<1>5. CASE Loop
  BY <1>5, TurnKeeps, ReturnKeeps DEF Loop
<1> QED
  BY <1>1, <1>2, <1>3, <1>4, <1>5 DEF Next

-----------------------------------------------------------------------------
(* ByteIO is a queue of bytes.                                             *)

LEMMA HeldFacts ==
  ASSUME ByteIOInv
  PROVE  /\ SubSeq(bytes, 1, position) \in Seq(Values)
         /\ Len(SubSeq(bytes, 1, position)) = position
         /\ Flat(buffer) \in Seq(Values) /\ Len(Flat(buffer)) = length
         /\ Held \in Seq(Values) /\ Len(Held) = position + length
<1> DEFINE got == SubSeq(bytes, 1, position)
           rest == Flat(buffer)
<1>1. /\ bytes \in Seq(Values) /\ position \in Nat /\ position <= Len(bytes)
  BY DEF ByteIOInv, TypeOK, Calls, Values
<1>2. got \in Seq(Values) /\ Len(got) = position
  <2>1. \A i \in 1 .. position : bytes[i] \in Values
    BY <1>1
  <2> QED
    BY <1>1, <2>1, SubSeqProperties
<1>3. rest \in Seq(Values) /\ Len(rest) = length
  BY FlatFacts DEF ByteIOInv, TypeOK, Calls
<1> HIDE DEF got, rest
<1>4. got \o rest \in Seq(Values) /\ Len(got \o rest) = position + length
  BY <1>2, <1>3, ConcatProperties
<1> QED
  BY <1>2, <1>3, <1>4 DEF Held, got, rest

LEMMA QueueInit == Init => Queue!Init
<1> SUFFICES ASSUME Init PROVE Queue!Init
  OBVIOUS
<1>1. Held = <<>>
  <2>1. Held \in Seq(Values) /\ Len(Held) = 0
    BY ByteIOInit, HeldFacts DEF Init
  <2> QED
    BY <2>1
<1> QED
  BY <1>1 DEF Init, Queue!Init, Queue!Idle, Wanted

LEMMA WriteIsWrite ==
  ASSUME ByteIOInv, NEW k \in 0 .. MaxSegment, NEW offset \in 0 .. MaxOffset, Write(k, offset)
  PROVE  Queue!Write
<1>1. PICK t \in Seq(Values) : Flat(buffer') = Flat(buffer) \o t
  BY WriteKeeps
<1>2. /\ position = 0 /\ Len(SubSeq(bytes, 1, position)) = position
      /\ SubSeq(bytes, 1, position) \in Seq(Values)
      /\ Flat(buffer) \in Seq(Values)
      /\ SubSeq(bytes', 1, position') = SubSeq(bytes, 1, position)
  BY HeldFacts DEF Write, ByteIOInv, Calls
<1>3. Held = Flat(buffer) /\ Held' = Flat(buffer')
  <2> DEFINE got == SubSeq(bytes, 1, position)  old == Flat(buffer)  new == Flat(buffer')
  <2>1. got \in Seq(Values) /\ Len(got) = 0 /\ old \in Seq(Values)
    BY <1>2
  <2>2. new \in Seq(Values)
    <3>1. Flat(buffer) \o t \in Seq(Values)
      BY <1>1, <1>2, ConcatProperties
    <3> QED
      BY <1>1, <3>1
  <2>3. Held = got \o old /\ Held' = got \o new
    BY <1>2 DEF Held
  <2> HIDE DEF got, old, new
  <2>4. got \o old = old /\ got \o new = new
    BY <2>1, <2>2
  <2> QED
    BY <2>3, <2>4 DEF old, new
<1>4. Held' = Held \o t /\ Held \in Seq(Values)
  BY <1>1, <1>2, <1>3
<1>5. Len(Held \o t) >= Len(Held) /\ SubSeq(Held \o t, 1, Len(Held)) = Held
  <2>1. ASSUME NEW s \in Seq(Values)
        PROVE  Len(s \o t) >= Len(s) /\ SubSeq(s \o t, 1, Len(s)) = s
    OBVIOUS
  <2> QED
    BY <1>4, <2>1
<1> QED
  BY <1>4, <1>5 DEF Queue!Write, Queue!Idle, Write, Wanted

LEMMA BeginIsBegin ==
  ASSUME ByteIOInv, NEW n \in Nat, NEW p \in BOOLEAN, p => n = length, Begin(n, p)
  PROVE  Queue!Begin
<1>1. position = 0 /\ position' = 0 /\ bytes' \in Seq(Values) /\ buffer' = buffer
  BY ZerosFacts DEF Begin, ByteIOInv, Calls
<1>2. SubSeq(bytes, 1, 0) = <<>> /\ SubSeq(bytes', 1, 0) = <<>>
  BY SubSeqEmpty
<1>3. Held' = Held
  BY <1>1, <1>2 DEF Held
<1>4. Wanted = -1 /\ Wanted' = IF p THEN -2 ELSE n
  BY DEF Begin, Wanted
<1> QED
  BY <1>3, <1>4 DEF Begin, Queue!Begin, Queue!Idle, Queue!Peek

\* A turn does not show.
LEMMA TurnStutters ==
  ASSUME ByteIOInv, Turn
  PROVE  UNCHANGED Queue!queueVars
<1> DEFINE got   == SubSeq(bytes, 1, position)
           taken == SubSeq(Content(Head(buffer)), 1, TurnLength(Head(buffer)))
           rest  == Flat(buffer')
<1>1. /\ Held = got \o (taken \o rest) /\ Held' = (got \o taken) \o rest
      /\ taken \in Seq(Values)
  BY TurnFacts DEF Held
<1>2. got \in Seq(Values) /\ rest \in Seq(Values)
  BY HeldFacts, TurnFacts, FlatFacts
<1> HIDE DEF got, taken, rest
<1>3. got \o (taken \o rest) = (got \o taken) \o rest
  <2>1. ASSUME NEW a \in Seq(Values), NEW b \in Seq(Values), NEW c \in Seq(Values)
        PROVE  a \o (b \o c) = (a \o b) \o c
    BY ConcatAssociative
  <2> QED
    BY <1>1, <1>2, <2>1
<1>4. Held' = Held
  BY <1>1, <1>3
<1> QED
  BY <1>4 DEF Queue!queueVars, Turn, Wanted

\* read(n) takes n bytes, or what there is when that is less; a toByteString() takes
\* none.
LEMMA ReturnIsRead ==
  ASSUME ByteIOInv, Return
  PROVE  IF peek THEN Queue!PeekAll ELSE Queue!Read
<1> DEFINE got == SubSeq(bytes, 1, position)
           rest == Flat(buffer)
<1>1. /\ got \in Seq(Values) /\ Len(got) = position
      /\ rest \in Seq(Values) /\ Len(rest) = length
      /\ Held = got \o rest /\ Held \in Seq(Values) /\ Len(Held) = position + length
  BY HeldFacts DEF Held
<1>2. /\ position \in Nat /\ length \in Nat /\ want \in Nat /\ position <= want
      /\ position = want \/ length = 0
      /\ peek => want = position + length
  BY DEF Return, More, ByteIOInv, TypeOK, Calls
<1>3. /\ result' = got /\ Wanted' = -1 /\ Wanted = (IF peek THEN -2 ELSE want)
  BY DEF Return, Wanted
<1>4. Held' = IF peek THEN got ELSE rest
  <2> DEFINE new == Flat(buffer')
  <2>1. new \in Seq(Values)
    BY ReturnFacts, FlatFacts
  <2>2. Held' = SubSeq(<<>>, 1, 0) \o new
    BY DEF Return, Held
  <2>3. SubSeq(<<>>, 1, 0) = <<>>
    BY SubSeqEmpty
  <2>4. new = IF peek THEN got ELSE rest
    BY ReturnFacts
  <2> HIDE DEF new
  <2>5. <<>> \o new = new
    BY <2>1
  <2> QED
    BY <2>2, <2>3, <2>4, <2>5
<1> HIDE DEF got, rest
<1>5. length = 0 => Held = got
  <2>1. SUFFICES ASSUME length = 0 PROVE got \o rest = got
    BY <1>1
  <2>2. rest = <<>>
    BY <1>1, <2>1
  <2> QED
    BY <1>1, <2>2
<1>6. CASE peek
  <2>1. Held = got
    BY <1>2, <1>5, <1>6
  <2> QED
    BY <1>3, <1>4, <1>6, <2>1 DEF Queue!PeekAll, Queue!Peek, Queue!Idle
<1>7. CASE ~peek
  <2>1. (IF want > Len(Held) THEN Len(Held) ELSE want) = position
    BY <1>1, <1>2
  <2>2. SubSeq(Held, 1, position) = got
    BY <1>1, <1>2
  <2>3. SubSeq(Held, position + 1, Len(Held)) = rest
    BY <1>1, <1>2
  <2> QED
    BY <1>2, <1>3, <1>4, <1>7, <2>1, <2>2, <2>3 DEF Queue!Read, Queue!Idle
<1> QED
  BY <1>6, <1>7

LEMMA QueueNext == ByteIOInv /\ [Next]_vars => [Queue!Next]_(Queue!queueVars)
<1> SUFFICES ASSUME ByteIOInv, [Next]_vars PROVE [Queue!Next]_(Queue!queueVars)
  OBVIOUS
<1>1. CASE UNCHANGED vars
  BY <1>1 DEF vars, Queue!queueVars, Held, Wanted, Flat
<1>2. CASE \E k \in 0 .. MaxSegment, offset \in 0 .. MaxOffset : Write(k, offset)
  BY <1>2, WriteIsWrite DEF Queue!Next
<1>3. CASE \E n \in 0 .. MaxBytes + 1 : Read(n)
  <2>1. PICK n \in 0 .. MaxBytes + 1 : Begin(n, FALSE)
    BY <1>3 DEF Read
  <2>2. n \in Nat
    BY BoundsAssumption
  <2> QED
    BY <2>1, <2>2, BeginIsBegin DEF Queue!Next
<1>4. CASE ReadAll \/ ToByteString
  <2>1. length \in Nat
    BY DEF ByteIOInv, TypeOK
  <2> QED
    BY <1>4, <2>1, BeginIsBegin DEF ReadAll, ToByteString, Queue!Next
<1>5. CASE Turn
  BY <1>5, TurnStutters
<1>6. CASE Return
  BY <1>6, ReturnIsRead DEF Queue!Next
<1> QED
  BY <1>1, <1>2, <1>3, <1>4, <1>5, <1>6 DEF Next, Loop

-----------------------------------------------------------------------------
(* The theorems.                                                           *)

BinaryInv == BytesInv /\ ByteIOInv

LEMMA BinaryInvInit == BinaryInit => BinaryInv
BY BytesInvInit, ByteIOInit DEF BinaryInit, BinaryInv

LEMMA PartNext == [BinaryNext]_binaryVars => [Next]_vars
BY DEF BinaryNext, binaryVars

LEMMA BinaryInvNext == BinaryInv /\ [BinaryNext]_binaryVars => BinaryInv'
BY BytesInvNext, ByteIONext, PartNext DEF BinaryInv

\* BinaryTypeOK: objects stay sequences of bytes of a length that calloc() gave, and
\* none that is still reachable is freed; the segments of a ByteIO lie inside their
\* memories, and its length is that of the list, after every turn of a loop too.
THEOREM TypeCorrect == BinarySpec => []BinaryTypeOK
<1>1. BinaryInv => BinaryTypeOK
  BY DEF BinaryInv, BytesInv, ByteIOInv, BinaryTypeOK
<1> QED
  BY <1>1, BinaryInvInit, BinaryInvNext, PTL DEF BinarySpec

\* read() and toByteString() of a ByteIO never throw: no turn of the loop is without a
\* segment, or has B_COPY refuse what it copies.
THEOREM NeverThrows == BinarySpec => []TurnGoesThrough
<1>1. BinaryInv => TurnGoesThrough
  BY TurnIsInBounds DEF BinaryInv
<1> QED
  BY <1>1, BinaryInvInit, BinaryInvNext, PTL DEF BinarySpec

\* IsByteQueue, for any number of bytes and segments and windows behind any offset: what
\* was written comes out once and in order, read(n) returns n bytes unless there are
\* fewer, and toByteString() takes nothing out.
THEOREM ImplementsByteQueue == BinarySpec => IsByteQueue
<1>1. BinaryInit => Queue!Init
  BY QueueInit DEF BinaryInit
<1>2. BinaryInv /\ [BinaryNext]_binaryVars => [Queue!Next]_(Queue!queueVars)
  BY QueueNext, PartNext DEF BinaryInv
<1> QED
  BY <1>1, <1>2, BinaryInvInit, BinaryInvNext, PTL DEF BinarySpec, IsByteQueue, Queue!Safety

-----------------------------------------------------------------------------
(* Texts, and how far iconv() gets in one.                                 *)

LEMMA SpanIsRun == \A a, b : Span(a, b) = Consecutive(a, b)
BY DEF Span, Consecutive

LEMMA SpanFacts ==
  ASSUME NEW n \in Nat
  PROVE  Span(0, n) \in Seq(Nat \ {0}) /\ Len(Span(0, n)) = n
<1>1. 0 \in Int /\ n \in Int /\ 0 <= n /\ n - 0 = n /\ \A x \in 0 + 1 .. n : x \in Nat \ {0}
  OBVIOUS
<1>2. Consecutive(0, n) \in Seq(Nat \ {0})
  BY <1>1, ConsecutiveOf
<1>3. Len(Consecutive(0, n)) = n
  BY <1>1, ConsecutiveFacts
<1> QED
  BY <1>2, <1>3, SpanIsRun

\* When iconv() finds nothing illegal in the bytes from a on, it stops at the end of a
\* character, behind nothing illegal, and the units up to there fit.
LEMMA StopFacts ==
  ASSUME NEW t, TextRecord(t), NEW a \in t.ends, a < t.size,
         NEW room \in Nat, ~Illegal(t, Span(a, t.size), room)
  PROVE  LET b == Stop(t, Span(a, t.size), room)
         IN  /\ b \in t.ends /\ a <= b
             /\ t.units[b] - t.units[a] <= room
             /\ \A i \in t.illegal : ~(a <= i /\ i < b)
<1> DEFINE s == Span(a, t.size)
<1>1. a \in Nat /\ t.ends \subseteq 0 .. t.size /\ t.size \in Nat
  BY DEF TextRecord
<1>2. s[1] = a + 1
  <2>1. Consecutive(a, t.size)[1] = a + 1
    BY <1>1 DEF Consecutive
  <2> QED
    BY <2>1, SpanIsRun
<1> HIDE DEF s
<1>3. From(s) = a
  BY <1>1, <1>2 DEF From
<1>4. Convertible(t, s, room) # {}
  BY DEF Illegal, s
<1>5. Convertible(t, s, room) \subseteq 0 .. t.size
  BY <1>1 DEF Convertible
<1>6. Stop(t, s, room) \in Convertible(t, s, room)
  BY <1>1, <1>4, <1>5, MaxOfBounded DEF Stop
<1> QED
  BY <1>3, <1>6 DEF Convertible, s

-----------------------------------------------------------------------------
(* The inductive invariant: what has been converted and what the call      *)
(* holds, at each place of the code.                                       *)

\* The destination has the units of the source up to where iconv() is, and nothing
\* illegal is behind it.
Progress ==
  /\ dst = Span(0, source.units[used])
  /\ \A a \in source.illegal : ~(a < used)
  /\ stage \notin {"loop", "after"} => used = 0

Holding ==
  live = IF stage = "idle" THEN {}
         ELSE (IF function = "B_ENCODE" THEN {"src"} ELSE {})
                \cup (IF stage = "calloc" THEN {} ELSE {"dst"})
                \cup (IF stage = "loop" THEN {"cd"} ELSE {})

TranscodeInv == TranscodeTypeOK /\ Progress /\ Holding

LEMMA SourceFacts ==
  ASSUME TranscodeInv
  PROVE  /\ TextRecord(source)
         /\ source.size \in Nat /\ source.ends \subseteq 0 .. source.size
         /\ used \in source.ends /\ used \in Nat /\ used <= source.size
         /\ source.units[used] \in Nat /\ Len(dst) = source.units[used]
         /\ dst_length \in Nat /\ DstLeft \in Nat
<1>1. TextRecord(source) /\ used \in source.ends /\ Len(dst) <= Expand * source.size
  BY TranscodeAssumption DEF TranscodeInv, TranscodeTypeOK
<1>2. /\ source.size \in Nat /\ source.ends \subseteq 0 .. source.size
      /\ used \in Nat /\ used <= source.size /\ source.units[used] \in Nat
  BY <1>1 DEF TextRecord
<1>3. Len(dst) = source.units[used]
  BY <1>2, SpanFacts DEF TranscodeInv, Progress
<1>4. dst_length \in Nat
  BY <1>2, TranscodeAssumption DEF dst_length
<1>5. DstLeft \in Nat
  BY <1>1, <1>2, <1>3, <1>4 DEF DstLeft, dst_length
<1> QED
  BY <1>1, <1>2, <1>3, <1>4, <1>5

\* Where nothing has been converted.
LEMMA AtStart ==
  ASSUME NEW t, TextRecord(t)
  PROVE  /\ 0 \in t.ends /\ Span(0, t.units[0]) = <<>>
         /\ \A a \in t.illegal : ~(a < 0)
         /\ Len(<<>>) <= Expand * t.size
<1>1. 0 \in t.ends /\ t.units[0] = 0 /\ t.size \in Nat /\ t.illegal \subseteq 0 .. t.size
  BY DEF TextRecord
<1>2. Span(0, 0) = <<>>
  BY SpanIsRun, ConsecutiveEmpty
<1>3. Expand * t.size \in Nat
  BY <1>1, TranscodeAssumption
<1> QED
  BY <1>1, <1>2, <1>3

LEMMA TranscodeInitHolds == TranscodeInit => TranscodeInv
<1> SUFFICES ASSUME TranscodeInit PROVE TranscodeInv
  OBVIOUS
<1>1. source \in Texts
  BY TranscodeAssumption DEF TranscodeInit
<1>2. TextRecord(source)
  BY <1>1, TranscodeAssumption
<1>3. TranscodeTypeOK
  BY <1>1, <1>2, AtStart DEF TranscodeInit, TranscodeTypeOK, Callers, Resources
<1>4. Progress
  BY <1>2, AtStart DEF TranscodeInit, Progress
<1>5. Holding
  BY DEF TranscodeInit, Holding
<1> QED
  BY <1>3, <1>4, <1>5 DEF TranscodeInv

LEMMA CallKeeps ==
  ASSUME TranscodeInv, NEW f \in Callers, NEW t \in Texts, Call(f, t)
  PROVE  TranscodeInv'
<1>1. TextRecord(t)
  BY TranscodeAssumption
<1>2. used = 0 /\ dst = <<>>
  <2>1. used = 0
    BY DEF TranscodeInv, Progress, Call
  <2> QED
    BY <2>1, SourceFacts, AtStart DEF TranscodeInv, Progress
<1>3. TranscodeTypeOK'
  BY <1>1, <1>2, AtStart DEF Call, TranscodeInv, TranscodeTypeOK, Callers, Resources
<1>4. Progress'
  BY <1>1, <1>2, AtStart DEF Call, Progress
<1>5. Holding'
  BY DEF Call, Holding
<1> QED
  BY <1>3, <1>4, <1>5 DEF TranscodeInv

\* All the exits: nothing is converted any more.
LEMMA EndKeeps ==
  ASSUME TranscodeInv, stage' = "idle", used' = 0, dst' = <<>>, live' = {}, leaked' \subseteq Resources,
         outcome' \in {"ok", "error"}, UNCHANGED <<function, source>>
  PROVE  TranscodeInv'
<1>1. TranscodeTypeOK'
  BY SourceFacts, AtStart DEF TranscodeInv, TranscodeTypeOK
<1>2. Progress'
  BY SourceFacts, AtStart DEF Progress
<1>3. Holding'
  BY DEF Holding
<1> QED
  BY <1>1, <1>2, <1>3 DEF TranscodeInv

\* The steps that allocate and close something, and convert nothing.
LEMMA StepKeepsProgress ==
  ASSUME TranscodeInv, UNCHANGED <<source, used, dst>>,
         stage' \in {"loop", "after"} \/ stage \notin {"loop", "after"}
  PROVE  Progress'
BY DEF TranscodeInv, Progress

LEMMA ConvertKeeps ==
  ASSUME TranscodeInv, Convert
  PROVE  TranscodeInv'
<1> DEFINE b == Stop(source, Pending, DstLeft)
<1>1. /\ TextRecord(source) /\ source.size \in Nat /\ used \in source.ends /\ used \in Nat
      /\ source.units[used] \in Nat /\ Len(dst) = source.units[used] /\ DstLeft \in Nat
      /\ dst_length \in Nat /\ source.ends \subseteq 0 .. source.size
  BY SourceFacts
<1>2. used < source.size /\ ~Illegal(source, Span(used, source.size), DstLeft)
  BY <1>1 DEF Convert, GoesOn, SrcLeft, Fatal, Pending
<1>3. /\ b \in source.ends /\ used <= b
      /\ source.units[b] - source.units[used] <= DstLeft
      /\ \A i \in source.illegal : ~(used <= i /\ i < b)
  BY <1>1, <1>2, StopFacts DEF Pending
<1>4. /\ used' = b
      /\ dst' = dst \o Span(source.units[used], source.units[b])
      /\ UNCHANGED <<function, source, stage, live, outcome, returned, leaked>>
  BY DEF Convert
<1> HIDE DEF b
<1>5. source.units[b] \in Nat /\ source.units[used] <= source.units[b]
  BY <1>1, <1>3 DEF TextRecord
<1>6. dst' = Span(0, source.units[b])
  <2>1. Consecutive(0, source.units[used]) \o Consecutive(source.units[used], source.units[b])
          = Consecutive(0, source.units[b])
    <3>1. /\ 0 \in Int /\ source.units[used] \in Int /\ source.units[b] \in Int
          /\ 0 <= source.units[used] /\ source.units[used] <= source.units[b]
      BY <1>1, <1>5
    <3> QED
      BY <3>1, ConsecutiveJoin, Zenon
  <2> QED
    BY <1>4, <2>1, SpanIsRun DEF TranscodeInv, Progress
<1>7. Progress'
  <2>1. \A a \in source.illegal : a \in Nat
    BY <1>1 DEF TextRecord
  <2>2. \A a \in source.illegal : ~(a < b)
    BY <1>1, <1>3, <2>1 DEF TranscodeInv, Progress
  <2> QED
    BY <1>4, <1>6, <2>2 DEF Convert, Progress
<1>8. TranscodeTypeOK'
  <2>1. dst' \in Seq(Nat \ {0}) /\ Len(dst') = source.units[b]
    BY <1>5, <1>6, SpanFacts
  <2>2. Len(dst') <= dst_length
    BY <1>1, <1>3, <1>5, <2>1 DEF DstLeft
  <2> QED
    BY <1>3, <1>4, <2>1, <2>2 DEF TranscodeInv, TranscodeTypeOK, dst_length
<1>9. Holding'
  BY <1>4 DEF TranscodeInv, Holding
<1> QED
  BY <1>7, <1>8, <1>9 DEF TranscodeInv

LEMMA FailKeeps ==
  ASSUME TranscodeInv, Fail(live)
  PROVE  TranscodeInv'
BY EndKeeps DEF Fail, TranscodeInv, TranscodeTypeOK

LEMMA TranscodeStepHolds == TranscodeInv /\ [TranscodeNext]_transcodeVars => TranscodeInv'
<1> SUFFICES ASSUME TranscodeInv, [TranscodeNext]_transcodeVars PROVE TranscodeInv'
  OBVIOUS
<1>1. CASE \E f \in Callers, t \in Texts : Call(f, t)
  BY <1>1, CallKeeps
<1>2. CASE Calloc
  <2>1. Progress'
    BY <1>2, StepKeepsProgress DEF Calloc
  <2>2. TranscodeTypeOK' /\ Holding'
    BY <1>2 DEF Calloc, TranscodeInv, TranscodeTypeOK, Holding, Resources
  <2> QED
    BY <2>1, <2>2 DEF TranscodeInv
<1>3. CASE IconvOpen
  <2>1. Progress'
    BY <1>3, StepKeepsProgress DEF IconvOpen
  <2>2. TranscodeTypeOK' /\ Holding'
    BY <1>3 DEF IconvOpen, TranscodeInv, TranscodeTypeOK, Holding, Resources
  <2> QED
    BY <2>1, <2>2 DEF TranscodeInv
<1>4. CASE IconvClose
  <2>1. Progress'
    BY <1>4, StepKeepsProgress DEF IconvClose
  <2>2. TranscodeTypeOK' /\ Holding'
    BY <1>4 DEF IconvClose, TranscodeInv, TranscodeTypeOK, Holding, Resources
  <2> QED
    BY <2>1, <2>2 DEF TranscodeInv
<1>5. CASE Convert
  BY <1>5, ConvertKeeps
<1>6. CASE CallocFails \/ IconvOpenFails \/ ConvertFails \/ Incomplete
  BY <1>6, FailKeeps DEF CallocFails, IconvOpenFails, ConvertFails, Incomplete
<1>7. CASE Succeed
  <2>1. leaked' \subseteq Resources
    BY <1>7 DEF Succeed, TranscodeInv, TranscodeTypeOK
  <2> QED
    BY <1>7, <2>1, EndKeeps DEF Succeed
<1>8. CASE UNCHANGED transcodeVars
  BY <1>8 DEF transcodeVars, TranscodeInv, TranscodeTypeOK, Progress, Holding
<1> QED
  BY <1>1, <1>2, <1>3, <1>4, <1>5, <1>6, <1>7, <1>8 DEF TranscodeNext, Step

LEMMA TranscodePartNext == [BinaryNext]_binaryVars => [TranscodeNext]_transcodeVars
BY DEF BinaryNext, binaryVars

LEMMA TranscodeInvariance == BinarySpec => []TranscodeInv
<1>1. BinaryInit => TranscodeInv
  BY TranscodeInitHolds DEF BinaryInit
<1> QED
  BY <1>1, TranscodePartNext, TranscodeStepHolds, PTL DEF BinarySpec

\* The destination is never overrun, whatever the expansion of the charset, and the
\* source is only ever left at the end of a character (binary-engine.cc, transcode).
THEOREM TranscodeTypeCorrect == BinarySpec => []TranscodeTypeOK
<1>1. TranscodeInv => TranscodeTypeOK
  BY DEF TranscodeInv
<1> QED
  BY <1>1, TranscodeInvariance, PTL

\* WholeOrError: a success is the whole of a legal text, and leaks nothing.
THEOREM WholeOrErrorHolds == BinarySpec => WholeOrError
<1> DEFINE A == (stage = "after" /\ outcome' = "ok" /\ stage' = "idle")
                  => (Legal(source) /\ returned' = Units(source) /\ leaked' = {})
<1>1. TranscodeInv /\ [TranscodeNext]_transcodeVars => [A]_transcodeVars
  <2> SUFFICES ASSUME TranscodeInv, TranscodeNext, stage = "after", outcome' = "ok", stage' = "idle"
               PROVE  Legal(source) /\ returned' = Units(source) /\ leaked' = {}
    OBVIOUS
  <2>1. Succeed
    BY DEF TranscodeNext, Step, Call, Calloc, CallocFails, IconvOpen, IconvOpenFails,
           Convert, ConvertFails, IconvClose, Incomplete, Fail
  <2>2. used = source.size
    BY <2>1, SourceFacts DEF Succeed, Complete, SrcLeft
  <2>3. source.size \in source.ends
    BY <2>2, SourceFacts
  <2>4. Legal(source)
    <3>1. source.illegal \subseteq 0 .. source.size /\ source.size \notin source.illegal
      BY SourceFacts DEF TextRecord
    <3>2. source.illegal = {}
      BY <2>2, <3>1, SourceFacts DEF TranscodeInv, Progress
    <3> QED
      BY <2>3, <3>2 DEF Legal
  <2>5. returned' = Units(source)
    <3>1. source.ends # {}
      BY <2>3
    <3>2. Max(source.ends) \in source.ends /\ \A x \in source.ends : x <= Max(source.ends)
      BY <3>1, SourceFacts, MaxOfBounded
    <3>3. Max(source.ends) = source.size
      BY <2>3, <3>2, SourceFacts
    <3> QED
      BY <2>1, <2>2, <3>3 DEF Succeed, Units, TranscodeInv, Progress
  <2>6. leaked' = {}
    BY <2>1 DEF Succeed, Frees, Owns, TranscodeInv, TranscodeTypeOK, Holding, Callers
  <2> QED
    BY <2>4, <2>5, <2>6
<1>2. BinarySpec => [][A]_transcodeVars
  BY <1>1, TranscodePartNext, TranscodeInvariance, PTL DEF BinarySpec
<1> QED
  BY <1>2 DEF WholeOrError
=============================================================================
