----------------------------- MODULE IOTransfer -----------------------------
(***************************************************************************)
(* Bytes between descriptors and memory: IO_readInto, IO_writeInto, and    *)
(* IO.prototype.copy, which is a loop of both.  read(2) and write(2) may   *)
(* do less than asked, or fail.                                            *)
(*                                                                         *)
(* A byte is named by its offset 1 .. FileSize in the source; 0 is memory  *)
(* that no read has filled.  A step is one read(2) or one write(2).        *)
(***************************************************************************)
EXTENDS Integers, SequencesExt

CONSTANTS
  FileSize,    \* the bytes of the source
  BytesLength, \* bytes->length: the memory behind a buffer
  MaxOffset,   \* bound on the _offset of a buffer
  MaxFrom,     \* bound on the `from' of readInto
  SizeMax,     \* the largest size_t
  MayFail      \* may read(2) fail?

ASSUME SizesAssumption ==
  /\ {FileSize, BytesLength, MaxOffset, MaxFrom, SizeMax} \subseteq Nat
  /\ BytesLength > 0 /\ MaxOffset <= BytesLength
  /\ SizeMax > BytesLength + MaxOffset + MaxFrom
  /\ MayFail \in BOOLEAN

VARIABLES
  taken,     \* how many bytes read(2) has handed out
  memory,    \* bytes->buffer
  before,    \* ghost: memory when the call began
  method,    \* "readInto", "copy", or "none"
  pc,        \* "idle", "read": the loop of readInto, "write": after it in copy
  offset,    \* the local of that name
  length,    \* the argument of that name
  count,     \* `total': the bytes that readInto has read
  sink,      \* what write(2) has taken, in order
  lost,      \* ghost: the bytes that a write(2) has not taken
  direct,    \* ghost: the bytes that went to a caller of readInto
  failed     \* ghost: did the last loop of readInto end with a read(2) that failed?

frameVars == <<method, pc, offset, length, count>>
ghosts    == <<lost, direct, failed>>
vars      == <<taken, memory, before, frameVars, sink, ghosts>>

Blank == [i \in 1 .. BytesLength |-> 0]

-----------------------------------------------------------------------------
(* Mutants *)
BugTooSmall(o, len)   == len > BytesLength
BugArrival(i)         == i - offset
BugMore               == count = 0
BugBytesAt(from, n)   == SubSeq(memory, from + 1, from + length)

\* int to size_t
SizeT(i) == i % (SizeMax + 1)

\* length > bytes->length - offset, in size_t.
TooSmall(o, len) == SizeT(len) > SizeT(BytesLength - o)

\* Which of the bytes that read(2) hands over goes to place i of the memory.
Arrival(i) == i - (offset + count)

\* total < length
More == count < length

\* read(2) returns 0.
Eof == taken = FileSize

\* The n bytes that write(2) takes from bytes->buffer + from.
BytesAt(from, n) == SubSeq(memory, from + 1, from + n)

-----------------------------------------------------------------------------
Init ==
  /\ taken = 0
  /\ memory = Blank /\ before = Blank
  /\ method = "none" /\ pc = "idle"
  /\ offset = 0 /\ length = 0 /\ count = 0
  /\ sink = <<>> /\ lost = {} /\ direct = {} /\ failed = FALSE

\* The loop of readInto begins.
Enter(m, o, len, mem) ==
  /\ method' = m /\ pc' = "read"
  /\ offset' = o /\ length' = len /\ count' = 0
  /\ memory' = mem /\ before' = mem
  /\ failed' = FALSE
  /\ UNCHANGED <<taken, direct>>

\* IO_readInto(buffer, len, from), where buffer._offset is o.  A call that is
\* refused throws before it has changed anything: no step.
IO_readInto(o, len, from) ==
  /\ method = "none"
  /\ o + from >= 0 /\ ~TooSmall(o + from, len)
  /\ Enter("readInto", o + from, len, memory)
  /\ UNCHANGED <<sink, lost>>

\* IO.copy begins; its read(null) (external) is a readInto of new memory.
Copy ==
  /\ method = "none"
  /\ Enter("copy", 0, BytesLength, Blank)
  /\ UNCHANGED <<sink, lost>>

\* read(2) hands over k bytes.  Those that go beyond the memory overwrite what is
\* there, which is not in the model.
ReadTurn(k) ==
  /\ pc = "read" /\ More
  /\ k <= length - count /\ k <= FileSize - taken
  /\ memory' = [i \in DOMAIN memory |->
                  IF Arrival(i) \in 1 .. k THEN taken + Arrival(i) ELSE memory[i]]
  /\ taken' = taken + k
  /\ count' = count + k
  /\ UNCHANGED <<before, method, pc, offset, length, sink, ghosts>>

\* readInto returns count: to its caller, or to copy, which stops at an empty
\* buffer (its flush does nothing).
ReturnCount ==
  /\ direct' = IF method = "readInto" THEN direct \cup (taken - count + 1) .. taken
                                      ELSE direct
  /\ IF method = "copy" /\ count > 0
     THEN pc' = "write" /\ UNCHANGED method
     ELSE pc' = "idle" /\ method' = "none"
  /\ UNCHANGED <<taken, memory, before, offset, length, count, sink, lost>>

\* The loop ends with the length reached, at the end of the file, or - and the
\* caller is not told - because read(2) failed.
ReadEnds ==
  /\ pc = "read"
  /\ ~More \/ Eof
  /\ ReturnCount /\ UNCHANGED failed

ReadFails ==
  /\ MayFail
  /\ pc = "read" /\ More
  /\ ReturnCount /\ failed' = TRUE

\* copy writes its buffer with one IO_writeInto(buffer, 0, count) and goes round
\* again.  write(2) takes n bytes, none if it fails; its result is not looked at.
CopyWrites(n) ==
  /\ pc = "write"
  /\ n <= count
  /\ sink' = sink \o BytesAt(0, n)
  /\ lost' = lost \cup ToSet(SubSeq(memory, n + 1, count))
  /\ Enter("copy", 0, BytesLength, Blank)

Next ==
  \/ \E o \in 0 .. MaxOffset, len \in -1 .. BytesLength + 1, from \in 0 .. MaxFrom :
       IO_readInto(o, len, from)
  \/ Copy
  \/ \E k \in 1 .. BytesLength : ReadTurn(k)
  \/ ReadEnds
  \/ ReadFails
  \/ \E n \in 0 .. BytesLength : CopyWrites(n)

Spec == Init /\ [][Next]_vars

-----------------------------------------------------------------------------
TypeOK ==
  /\ taken \in 0 .. FileSize
  /\ memory \in [1 .. BytesLength -> 0 .. FileSize]
  /\ before \in [1 .. BytesLength -> 0 .. FileSize]
  /\ method \in {"none", "readInto", "copy"} /\ pc \in {"idle", "read", "write"}
  /\ offset \in 0 .. MaxOffset + MaxFrom /\ length \in -1 .. BytesLength + 1
  /\ count \in 0 .. taken /\ (count = 0 \/ count <= length)
  /\ sink \in Seq(1 .. FileSize)
  /\ lost \subseteq 1 .. FileSize /\ direct \subseteq 1 .. FileSize
  /\ failed \in BOOLEAN

\* A readInto that is not refused has room for all that it asks for, negative
\* lengths and the largest included - unless its offset is itself beyond the
\* memory: then the room wraps to a huge number (io-engine.cc:63) and the call
\* reads beyond the memory.
RefusesWhatDoesNotFit ==
  offset <= BytesLength => offset + length <= BytesLength

\* However read(2) cuts the bytes up, readInto has put them side by side where
\* the caller wanted them, and touched nothing else.
ReadExact ==
  \A i \in DOMAIN memory :
    memory[i] = IF i \in offset + 1 .. offset + count
                THEN taken - count + (i - offset) ELSE before[i]

\* The bytes in the hands of the call under way.
InFlight == IF pc = "idle" THEN {} ELSE taken - count + 1 .. taken

\* Every byte that left the source is in one place: in the sink, lost by a
\* short write, in the hands of a caller of readInto, or still in the buffer
\* of the call; the sink has them in order, and none twice.
CopyConserves ==
  /\ \A i, j \in DOMAIN sink : i < j => sink[i] < sink[j]
  /\ ToSet(sink) \cup lost \cup direct \cup InFlight = 1 .. taken
  /\ ToSet(sink) \cap (lost \cup direct \cup InFlight) = {}
  /\ InFlight \cap (lost \cup direct) = {}
  /\ lost \cap direct = {}

\* A readInto comes back with less than its length, and a copy ends, only at
\* the end of the file - or when read(2) has failed, which looks the same.
EndsOnlyAtEnd ==
  [][(method # "none" /\ method' = "none" /\ (method = "copy" \/ count < length))
       => (taken = FileSize \/ failed')]_vars

\* What a call under way looks like; with it the invariants are inductive.
Framed ==
  /\ method = "none" <=> pc = "idle"
  /\ method = "copy" => offset = 0 /\ length = BytesLength
  /\ pc = "write" => method = "copy"

IInv == TypeOK /\ RefusesWhatDoesNotFit /\ ReadExact /\ CopyConserves /\ Framed
=============================================================================
