------------------------------ MODULE TextInput ------------------------------
(***************************************************************************)
(* TextInputStream_read: bytes go from a descriptor through inBuffer and   *)
(* iconv() to outBuffer, and from there to the caller, n characters or the *)
(* whole file at a time.  inBuffer outlives the call, outBuffer does not.  *)
(* What a text is, and what iconv() does with it, is in Iconv.             *)
(*                                                                         *)
(* The call is one turn of its loop per step, because read(2) may return   *)
(* less than asked and because what each turn leaves behind is the point.  *)
(***************************************************************************)
EXTENDS Iconv

CONSTANTS
  Texts,         \* the files that may be behind the descriptor
  InSize,        \* inBufferSize, in bytes (1024 in the code)
  OutSize,       \* the outBuffer that read() starts with, in units (512)
  MaxN,          \* bound on the argument of read
  SizeMax,       \* the largest size_t
  ReadMayFail    \* may read(2) return -1 (EIO, EBADF, EINTR...)?

ASSUME TextsAssumption == \A t \in Texts : TextRecord(t)
ASSUME SizesAssumption == {InSize, OutSize} \subseteq Nat \ {0} /\ MaxN \in Nat
ASSUME SizeMaxAssumption == SizeMax \in Nat /\ SizeMax > InSize
ASSUME ReadMayFailAssumption == ReadMayFail \in BOOLEAN

VARIABLES
  text,            \* the file behind the descriptor
  fetched,         \* how many of its bytes read(2) has handed out
  inBuffer,        \* the bytes at the front of inBuffer that are in use
  inBufferUsed,    \* the field of that name
  pc,              \* "idle": no call; "loop": top of the loop; "undefined": behaviour
  numChars,        \* the argument of the call under way, 0 for "everything"
  outBuffer,       \* the units converted by the call under way
  outBufferSize,   \* in units
  delivered        \* ghost: the units that the calls so far have returned

fileVars == <<text, fetched>>
inVars   == <<inBuffer, inBufferUsed>>
outVars  == <<numChars, outBuffer, outBufferSize>>
vars     == <<fileVars, inVars, pc, outVars, delivered>>

-----------------------------------------------------------------------------
(* Mutants *)
BugLeftover(s, room)   == SubSeq(s, 1, Len(s) - (Stop(text, s, room) - From(s)))
BugStart(n)            == OutSize
BugEof                 == FALSE
BugKeepsOut(s, room)   == Span(text.units[From(s)], text.units[Stop(text, s, room)] + 1)

\* "the outBuffer is completely filled"
Full == Len(outBuffer) >= outBufferSize

\* A call that was given a number of characters is done when it has them.
Done == numChars # 0

Room == outBufferSize - Len(outBuffer)

\* What iconv leaves of the input, for memmove to shift down.
Leftover(s, room) == SubSeq(s, Stop(text, s, room) - From(s) + 1, Len(s))

\* What iconv appends to the output.
Converted(s, room) == Span(text.units[From(s)], text.units[Stop(text, s, room)])

\* The first outBuffer of read(n).
StartSize(n) == IF n # 0 THEN n ELSE OutSize

AtEof == fetched = text.size

-----------------------------------------------------------------------------
Init ==
  /\ text \in Texts
  /\ fetched = 0
  /\ inBuffer = <<>> /\ inBufferUsed = 0
  /\ pc = "idle"
  /\ numChars = 0 /\ outBuffer = <<>> /\ outBufferSize = OutSize
  /\ delivered = <<>>

Call(n) ==
  /\ pc = "idle"
  /\ pc' = "loop"
  /\ numChars' = n
  /\ outBuffer' = <<>>
  /\ outBufferSize' = StartSize(n)
  /\ UNCHANGED <<fileVars, inVars, delivered>>

\* Both breaks lead here: the string is made and outBuffer is freed.
Return ==
  /\ pc' = "idle"
  /\ delivered' = delivered \o outBuffer
  /\ outBuffer' = <<>>
  /\ UNCHANGED <<fileVars, inVars, numChars, outBufferSize>>

ReturnFull == pc = "loop" /\ Full /\ Done /\ Return

\* realloc() to twice the size, in the turn that goes on to convert.
Grow ==
  /\ pc = "loop" /\ Full /\ ~Done
  /\ outBufferSize' = 2 * outBufferSize
  /\ UNCHANGED <<fileVars, inVars, pc, numChars, outBuffer, delivered>>

\* "if there's no data in the buffer read some more": read(2) hands over at
\* least a byte of what is left of the file.
Refill(num) ==
  /\ pc = "loop" /\ ~Full
  /\ inBufferUsed = 0
  /\ num <= text.size - fetched
  /\ inBuffer' = Span(fetched, fetched + num)
  /\ inBufferUsed' = num
  /\ fetched' = fetched + num
  /\ UNCHANGED <<text, pc, outVars, delivered>>

\* read(2) fails.  Its -1 becomes a size_t, `num >= 0' holds, and iconv() is
\* let loose on inBufferUsed bytes: anything may follow.
RefillFails ==
  /\ ReadMayFail
  /\ pc = "loop" /\ ~Full
  /\ inBufferUsed = 0
  /\ inBufferUsed' = (inBufferUsed + SizeMax) % (SizeMax + 1)
  /\ pc' = "undefined"
  /\ UNCHANGED <<fileVars, inBuffer, outVars, delivered>>

\* "still no data to read, so stop"
ReturnAtEof ==
  /\ pc = "loop" /\ ~Full
  /\ inBufferUsed = 0 /\ AtEof
  /\ Return

\* iconv() takes what it can; memmove() shifts the rest down.
Convert ==
  /\ pc = "loop" /\ ~Full
  /\ inBufferUsed # 0
  /\ ~Illegal(text, inBuffer, Room)
  /\ outBuffer' = outBuffer \o Converted(inBuffer, Room)
  /\ inBuffer' = Leftover(inBuffer, Room)
  /\ inBufferUsed' = Len(inBuffer')
  /\ UNCHANGED <<fileVars, pc, numChars, outBufferSize, delivered>>

\* On EILSEQ the call frees outBuffer, with all that its earlier turns put
\* there, and throws; inBuffer stays as it was before this turn.
ConvertThrows ==
  /\ pc = "loop" /\ ~Full
  /\ inBufferUsed # 0
  /\ Illegal(text, inBuffer, Room)
  /\ pc' = "idle"
  /\ outBuffer' = <<>>
  /\ UNCHANGED <<fileVars, inVars, numChars, outBufferSize, delivered>>

Turn ==
  \/ ReturnFull
  \/ Grow
  \/ \E num \in 1 .. InSize : Refill(num)
  \/ ReturnAtEof
  \/ Convert
  \/ ConvertThrows

Next == (\E n \in 0 .. MaxN : Call(n)) \/ Turn \/ RefillFails

Spec == Init /\ [][Next]_vars

\* A call, once made, keeps running: it is one native function.  Nothing
\* obliges a program to make a call, or read(2) to fail.  That read(2) returns
\* is assumed.
FairSpec == Spec /\ WF_vars(Turn)

-----------------------------------------------------------------------------
\* Offsets and places that the buffers can hold.
Offsets == 1 .. text.size
Places  == Nat \ {0}

\* The type invariant, with the bounds of the two buffers: neither read(2)
\* nor iconv() ever has more in a buffer than was allocated for it.
TypeOK ==
  /\ TextRecord(text)
  /\ fetched \in 0 .. text.size
  /\ inBuffer \in Seq(Offsets) /\ Len(inBuffer) <= InSize
  /\ inBufferUsed \in 0 .. SizeMax
  /\ pc \in {"idle", "loop", "undefined"}
  /\ numChars \in 0 .. MaxN
  /\ outBuffer \in Seq(Places) /\ Len(outBuffer) <= outBufferSize
  /\ outBufferSize \in Nat \ {0}
  /\ delivered \in Seq(Places)

\* Up to where iconv() has taken the file.
Taken == fetched - Len(inBuffer)

\* Nothing is lost, doubled or swapped between the descriptor and iconv(), nor
\* on the way to the caller, wherever short reads, full buffers, split
\* characters and calls that throw cut the text: iconv() is at the end of a
\* character, inBuffer holds the bytes from there to where read(2) is, and
\* outBuffer the units that come just before.  So no call ever ends between the
\* halves of a surrogate pair.
Conservation ==
  /\ Taken \in text.ends
  /\ inBuffer = Span(Taken, fetched)
  /\ outBuffer = Span(text.units[Taken] - Len(outBuffer), text.units[Taken])

\* io-engine.cc:235: "still no data to read, so stop".  The loop goes on to
\* convert only data that it has.
StopsWithoutData == inBufferUsed # 0 => inBuffer # <<>>

\* The converter makes no progress on what the buffers hold, and the loop
\* changes neither: it refills an EMPTY inBuffer only, and grows a FULL
\* outBuffer only.  The rest of a character that the end of inBuffer split
\* (EINVAL), or a surrogate pair with room for one unit (E2BIG), spins here.
Stuck ==
  /\ pc = "loop" /\ ~Full /\ inBufferUsed # 0
  /\ ~Illegal(text, inBuffer, Room)
  /\ Stop(text, inBuffer, Room) = From(inBuffer)

\* Every call ends, except one that gets stuck on such a character.
ReadEndsUnlessStuck == (pc = "loop") ~> (pc # "loop" \/ Stuck)

\* For the caller it is a stream of characters, and buffers do not show.
Chars == INSTANCE CharStream
           WITH total  <- text.units[Max(text.ends)],
                passed <- text.units[Taken] - Len(outBuffer),
                got    <- delivered,
                want   <- IF pc = "idle" THEN -1 ELSE numChars

\* read(n) returns the n units that come after what earlier calls took, fewer
\* only at the end of the file, and read() returns the rest of the file.  A call
\* that throws takes units with it, but never as many as it was asked for:
\* read(1) takes none.
IsCharStream == Chars!Spec
=============================================================================
