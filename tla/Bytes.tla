------------------------------- MODULE Bytes --------------------------------
(***************************************************************************)
(* Bytes objects and the B_ functions of binary-engine.cc that work on     *)
(* their memory.  Arguments are ints, lengths are size_t: a comparison of  *)
(* the two is made in size_t.  A call that gets by the checks and touches  *)
(* memory outside of its object is undefined.                              *)
(*                                                                         *)
(* What B_ENCODE, B_DECODE and B_TRANSCODE make of a text inside of its    *)
(* object is the affair of Transcode: here they give any text, or throw.   *)
(*                                                                         *)
(* A string is the sequence of its UTF-8 bytes; byte 0 ends a C string.    *)
(***************************************************************************)
EXTENDS Integers, SequencesExt

CONSTANTS
  Objects,       \* the Bytes objects that there can be at a time
  MaxLength,     \* bound on the length of one: what calloc() can give
  ByteSize,      \* how many values a byte has (256 in the code)
  IntSize,       \* how many values an int has
  SizeSize,      \* how many values a size_t has
  Ints           \* the ints that are passed

ASSUME BytesAssumption ==
  /\ MaxLength \in Nat /\ ByteSize \in Nat \ {0}
  /\ IntSize \in Nat \ {0} /\ SizeSize \in Nat /\ Ints \subseteq Int
  /\ \A n \in Ints : MaxLength - SizeSize < n /\ 2 * n < SizeSize

VARIABLES
  content,       \* data->buffer of every object, up to data->length
  reachable,     \* the objects that the program can still reach
  answer,        \* of the last call: "ok", "threw", or "undefined"
  value,         \* what it has returned
  culprit        \* ghost: the undefined call

bytesVars == <<content, reachable, answer, value, culprit>>

Byte   == 0 .. ByteSize - 1
Strings == BoundedSeq(Byte, MaxLength)
Length(o) == Len(content[o])

\* An int where a size_t is wanted.
Size(n) == n % SizeSize

-----------------------------------------------------------------------------
(* Mutants *)
BugBeyond(n, len) == n >= len

\* index >= byte_data->length
Beyond(n, len) == Size(n) >= len

\* The check of B_COPY; the sums are sums of ints.
CopyRefused(srcLength, srcOffset, dstLength, dstOffset, len) ==
  Size(srcOffset + len) > srcLength \/ Size(dstOffset + len) > dstLength

\* strlen(), and what it leaves of a string.
UpToNul(s) == SubSeq(s, 1, Min({i \in 1 .. Len(s) + 1 : i > Len(s) \/ s[i] = 0}) - 1)

Inside(o, offset, len) == offset >= 0 /\ len >= 0 /\ offset + len <= Length(o)

Window(o, offset, len) == SubSeq(content[o], offset + 1, offset + len)

\* The content of o with s in the place of what is behind offset.
Written(o, offset, s) ==
  [i \in DOMAIN content[o] |-> IF i - offset \in DOMAIN s THEN s[i - offset] ELSE content[o][i]]

\* dst_length of transcode(), an int: ten times the srcLength that is passed.
Destination(srcLength) ==
  LET n == (10 * srcLength) % IntSize IN IF 2 * n < IntSize THEN n ELSE n - IntSize

\* A negative dst_length is a huge size_t for calloc(); where it is 0 the loop is not
\* entered, and a source that has anything in it is left over.
NoDestination(srcLength) ==
  Destination(srcLength) < 0 \/ (Destination(srcLength) = 0 /\ srcLength # 0)

\* transcode() reads the srcLength bytes behind offset, wherever these are.
Astray(o, offset, srcLength) == srcLength # 0 /\ ~Inside(o, offset, srcLength)

\* A call of f with these ints is undefined.
Undefined(f, ints) ==
  /\ answer' = "undefined" /\ value' = <<>> /\ UNCHANGED <<content, reachable>>
  /\ culprit' = [of |-> f, negative |-> \E n \in ints : n < 0]

Throws    == answer' = "threw" /\ value' = <<>> /\ UNCHANGED <<content, reachable, culprit>>
Gives(v)  == answer' = "ok" /\ value' = v /\ UNCHANGED <<content, reachable, culprit>>
Writes(o, offset, s) ==
  /\ content' = [content EXCEPT ![o] = Written(o, offset, s)]
  /\ answer' = "ok" /\ value' = <<>> /\ UNCHANGED <<reachable, culprit>>

-----------------------------------------------------------------------------
BytesInit ==
  /\ content = <<>> /\ reachable = {} /\ answer = "ok" /\ value = <<>>
  /\ culprit = [of |-> "none", negative |-> FALSE]

\* A new object on memory with s in it.
Bytes_new(o, s) ==
  /\ o \notin DOMAIN content
  /\ content' = [p \in DOMAIN content \cup {o} |-> IF p = o THEN s ELSE content[p]]
  /\ reachable' = reachable \cup {o}
  /\ answer' = "ok" /\ value' = <<>> /\ UNCHANGED culprit

\* A negative length is a huge size_t, for which calloc() has nothing.
B_ALLOC(o, n) ==
  IF Size(n) > MaxLength THEN Throws ELSE Bytes_new(o, [i \in 1 .. n |-> 0])

B_LENGTH(o) == Gives(<<Length(o)>>)

B_FILL(o, from, to, v) ==
  IF from > to \/ from < 0 \/ Beyond(to, Length(o)) THEN Throws
  ELSE IF ~Inside(o, from, to - from) THEN Undefined("B_FILL", {from, to})
  ELSE Writes(o, from, [i \in 1 .. to - from |-> v % ByteSize])

\* When the windows overlap memcpy() may take a byte before it is overwritten or
\* after.
B_COPY(s, srcOffset, d, dstOffset, len) ==
  IF CopyRefused(Length(s), srcOffset, Length(d), dstOffset, len) THEN Throws
  ELSE IF ~Inside(s, srcOffset, len) \/ ~Inside(d, dstOffset, len) 
       THEN Undefined("B_COPY", {srcOffset, dstOffset, len})
  ELSE LET from == Window(s, srcOffset, len)
           over == Window(d, dstOffset, len)
           overlap == s = d /\ srcOffset # dstOffset
                        /\ srcOffset < dstOffset + len /\ dstOffset < srcOffset + len
       IN  IF overlap
           THEN \E t \in [1 .. len -> ToSet(from) \cup ToSet(over)] : Writes(d, dstOffset, t)
           ELSE Writes(d, dstOffset, from)

B_GET(o, i) ==
  IF Beyond(i, Length(o)) THEN Throws
  ELSE IF ~Inside(o, i, 1) THEN Undefined("B_GET", {i})
  ELSE Gives(Window(o, i, 1))

B_SET(o, i, v) ==
  IF Beyond(i, Length(o)) \/ v < 0 \/ v >= ByteSize THEN Throws
  ELSE IF ~Inside(o, i, 1) THEN Undefined("B_SET", {i})
  ELSE Writes(o, i, <<v>>)

\* Nothing is checked.  To V8 the length -1 means: up to the first byte 0.
B_DECODE_DEFAULT(o, offset, len) ==
  IF len = -1 /\ Inside(o, offset, 0) /\ 0 \in ToSet(Window(o, offset, Length(o) - offset))
  THEN Gives(UpToNul(Window(o, offset, Length(o) - offset)))
  ELSE IF ~Inside(o, offset, len) THEN Undefined("B_DECODE_DEFAULT", {offset, len})
  ELSE Gives(Window(o, offset, len))

\* The offset and the length are passed on to transcode() unchecked.  It may throw at
\* any rate: for a codec that there is not, or a text that is none.
B_DECODE(o, offset, srcLength) ==
  \/ Throws
  \/ /\ ~NoDestination(srcLength)
     /\ IF Astray(o, offset, srcLength) THEN Undefined("B_DECODE", {offset, srcLength})
                                        ELSE \E s \in Strings : Gives(s)

B_TRANSCODE(o, srcOffset, srcLength, new) ==
  \/ Throws
  \/ /\ ~NoDestination(srcLength)
     /\ IF Astray(o, srcOffset, srcLength) THEN Undefined("B_TRANSCODE", {srcOffset, srcLength})
                                           ELSE \E s \in Strings : Bytes_new(new, s)

\* The source is a copy of the string that this function makes itself.
B_ENCODE(new) == Throws \/ \E s \in Strings : Bytes_new(new, s)

\* The string ends where strlen() says.
B_ENCODE_DEFAULT(o, string) == Bytes_new(o, UpToNul(string))

\* The program lets go of an object; later the collector frees it.
Drop(o) == reachable' = reachable \ {o} /\ UNCHANGED <<content, answer, value, culprit>>

Bytes_finalize(o) ==
  /\ o \notin reachable
  /\ content' = [p \in DOMAIN content \ {o} |-> content[p]]
  /\ UNCHANGED <<reachable, answer, value, culprit>>

\* After an undefined call nothing can be said.
BytesNext ==
  \/ answer = "undefined" /\ UNCHANGED bytesVars
  \/ /\ answer # "undefined"
     /\ \/ \E o \in Objects, n \in Ints : B_ALLOC(o, n)
        \/ \E o \in Objects, s \in Strings : B_ENCODE_DEFAULT(o, s)
        \/ \E o \in reachable : B_LENGTH(o) \/ Drop(o)
        \/ \E o \in reachable, i, j \in Ints, v \in {0, 1, ByteSize} : B_FILL(o, i, j, v)
        \/ \E s, d \in reachable, i, j, n \in Ints : B_COPY(s, i, d, j, n)
        \/ \E o \in reachable, i \in Ints : B_GET(o, i)
        \/ \E o \in reachable, i \in Ints, v \in {-1, 0, 1, ByteSize} : B_SET(o, i, v)
        \/ \E o \in reachable, i, n \in Ints : B_DECODE_DEFAULT(o, i, n) \/ B_DECODE(o, i, n)
        \/ \E o \in reachable, i, n \in Ints, new \in Objects : B_TRANSCODE(o, i, n, new)
        \/ \E new \in Objects : B_ENCODE(new)
        \/ \E o \in DOMAIN content : Bytes_finalize(o)

-----------------------------------------------------------------------------
BytesTypeOK ==
  /\ DOMAIN content \subseteq Objects /\ reachable \subseteq DOMAIN content
  /\ \A o \in DOMAIN content : content[o] \in Strings
  /\ answer \in {"ok", "threw", "undefined"}

\* Whatever ints a program passes, B_FILL, B_GET and B_SET stay inside their object
\* or throw, negative ones included; B_COPY does, too, unless an offset or the length
\* is negative.  The three that decode rely on their caller: they check neither the
\* offset nor the length.
StaysInside ==
  answer = "undefined" =>
    \/ culprit.of \in {"B_DECODE_DEFAULT", "B_DECODE", "B_TRANSCODE"}
    \/ culprit = [of |-> "B_COPY", negative |-> TRUE]
=============================================================================
