-------------------------- MODULE TextInputProofs ---------------------------
(***************************************************************************)
(* The invariants of TextInput and the refinement of CharStream, for all   *)
(* texts, all sizes of the two buffers and however read(2) cuts the file.  *)
(***************************************************************************)
EXTENDS TextInput, DataFacts

-----------------------------------------------------------------------------
(* Texts, and how far iconv() gets in one.                                 *)

LEMMA SpanIsRun == \A a, b : Span(a, b) = Consecutive(a, b)
BY DEF Span, Consecutive

\* The last character of a text ends somewhere, and no place comes after its units.
LEMMA LastEndFacts ==
  ASSUME NEW t, TextRecord(t)
  PROVE  /\ Max(t.ends) \in t.ends
         /\ \A b \in t.ends : b <= Max(t.ends) /\ t.units[b] <= t.units[Max(t.ends)]
<1>1. t.size \in Nat /\ t.ends \subseteq 0 .. t.size /\ t.ends # {}
  BY DEF TextRecord
<1>2. Max(t.ends) \in t.ends /\ \A b \in t.ends : b <= Max(t.ends)
  BY <1>1, MaxOfBounded
<1> QED
  BY <1>2 DEF TextRecord

\* iconv() on the run of bytes from a to c, where a character begins after a: when it
\* finds nothing illegal it stops at the end b of a character in the run, and the units
\* up to there fit.
LEMMA StopFacts ==
  ASSUME NEW t, TextRecord(t), NEW a \in t.ends, NEW c \in a + 1 .. t.size,
         NEW room \in Nat, ~Illegal(t, Span(a, c), room)
  PROVE  /\ From(Span(a, c)) = a
         /\ Stop(t, Span(a, c), room) \in t.ends
         /\ a <= Stop(t, Span(a, c), room) /\ Stop(t, Span(a, c), room) <= c
         /\ t.units[Stop(t, Span(a, c), room)] - t.units[a] <= room
<1> DEFINE s == Span(a, c)
<1>1. a \in Nat /\ c \in Nat /\ a < c /\ t.ends \subseteq 0 .. t.size /\ t.size \in Nat
  BY DEF TextRecord
<1>2. Len(s) = c - a /\ s[1] = a + 1
  <2>1. Len(Consecutive(a, c)) = c - a /\ Consecutive(a, c)[1] = a + 1
    BY <1>1, ConsecutiveFacts
  <2> QED
    BY <2>1, SpanIsRun
<1> HIDE DEF s
<1>3. From(s) = a
  BY <1>1, <1>2 DEF From
<1>4. Convertible(t, s, room) # {}
  BY DEF Illegal, s
<1>5. Convertible(t, s, room) \subseteq 0 .. t.size
  BY <1>1 DEF Convertible
<1>6. Stop(t, s, room) \in Convertible(t, s, room)
  BY <1>1, <1>4, <1>5, MaxOfBounded DEF Stop
<1>7. /\ Stop(t, s, room) \in t.ends
      /\ a <= Stop(t, s, room) /\ Stop(t, s, room) - a <= c - a
      /\ t.units[Stop(t, s, room)] - t.units[a] <= room
  BY <1>2, <1>3, <1>6 DEF Convertible
<1> QED
  BY <1>1, <1>3, <1>7 DEF s

-----------------------------------------------------------------------------
(* The inductive invariant: besides the two invariants, what the counts    *)
(* and sizes are at each place of the code.                                *)

Framed ==
  /\ pc # "undefined" => inBufferUsed = Len(inBuffer)
  /\ pc = "idle" => outBuffer = <<>>
  /\ pc = "loop" /\ numChars # 0 => outBufferSize = numChars

IInv == TypeOK /\ Conservation /\ Framed

\* What IInv says, in numbers: inBuffer is a run that ends where read(2) is, and
\* outBuffer one that ends where iconv() is.
LEMMA PlaceFacts ==
  ASSUME IInv
  PROVE  /\ TextRecord(text)
         /\ fetched \in Nat /\ fetched <= text.size /\ text.size \in Nat
         /\ Len(inBuffer) \in Nat /\ Len(outBuffer) \in Nat
         /\ Taken \in text.ends /\ Taken \in Nat /\ Taken = fetched - Len(inBuffer)
         /\ text.units[Taken] \in Nat
         /\ Len(outBuffer) <= text.units[Taken]
<1>1. /\ TextRecord(text) /\ fetched \in 0 .. text.size
      /\ Len(inBuffer) \in Nat /\ Len(outBuffer) \in Nat
      /\ outBuffer \in Seq(Places)
  BY DEF IInv, TypeOK
<1>2. Taken \in text.ends
  BY DEF IInv, Conservation
<1>3. /\ text.size \in Nat /\ Taken \in Nat /\ text.units[Taken] \in Nat
  BY <1>1, <1>2 DEF TextRecord
<1>4. Len(outBuffer) <= text.units[Taken]
  <2>1. SUFFICES ASSUME Len(outBuffer) > text.units[Taken]
                 PROVE  FALSE
    BY <1>1, <1>3
  <2> DEFINE u == text.units[Taken]
             n == Len(outBuffer)
  <2>2. n >= 1 /\ outBuffer[1] \in Places
    BY <1>1, <1>3, <2>1
  <2>3. outBuffer = Span(u - n, u)
    BY DEF IInv, Conservation
  <2>4. Span(u - n, u)[1] = u - n + 1
    BY <1>1, <1>3, <2>2 DEF Span
  <2> QED
    BY <1>1, <1>3, <2>1, <2>2, <2>3, <2>4 DEF Places
<1> QED
  BY <1>1, <1>2, <1>3, <1>4 DEF Taken

LEMMA InitHolds == Init => IInv
<1> SUFFICES ASSUME Init PROVE IInv
  OBVIOUS
<1>1. TextRecord(text) /\ text.size \in Nat /\ 0 \in text.ends /\ text.units[0] = 0
  BY TextsAssumption DEF Init, TextRecord
<1>2. TypeOK
  BY <1>1, SizesAssumption, SizeMaxAssumption DEF Init, TypeOK
<1>3. Taken = 0
  <2>1. fetched = 0 /\ Len(inBuffer) = 0
    BY DEF Init
  <2> QED
    BY <2>1 DEF Taken
<1>4. Conservation
  <2>1. Span(0, 0) = <<>>
    BY SpanIsRun, ConsecutiveEmpty
  <2> QED
    BY <1>1, <1>3, <2>1 DEF Init, Conservation
<1>5. Framed
  BY DEF Init, Framed
<1> QED
  BY <1>2, <1>4, <1>5 DEF IInv

\* The steps that leave both buffers and the file as they are keep Conservation.
LEMMA BuffersUnchanged ==
  ASSUME IInv, UNCHANGED <<fileVars, inBuffer, outBuffer>>
  PROVE  Conservation'
BY DEF IInv, Conservation, Taken, fileVars

LEMMA CallKeeps ==
  ASSUME IInv, NEW n \in 0 .. MaxN, Call(n)
  PROVE  IInv'
<1>1. TypeOK'
  BY SizesAssumption DEF IInv, TypeOK, Call, StartSize, fileVars, inVars, Offsets, Places
<1>2. outBuffer = <<>>
  BY DEF IInv, Framed, Call
<1>3. Conservation'
  BY <1>2, BuffersUnchanged DEF Call, fileVars, inVars
<1>4. Framed'
  BY DEF IInv, Framed, Call, StartSize, fileVars, inVars
<1> QED
  BY <1>1, <1>3, <1>4 DEF IInv

\* Both returns: what has been converted goes to the caller.
LEMMA ReturnKeeps ==
  ASSUME IInv, pc = "loop", Return
  PROVE  IInv'
<1>1. TypeOK'
  <2>1. delivered \o outBuffer \in Seq(Places)
    BY DEF IInv, TypeOK
  <2> QED
    BY <2>1 DEF IInv, TypeOK, Return, fileVars, inVars, Offsets, Places
<1>2. Conservation'
  <2>1. text.units[Taken] \in Nat
    BY PlaceFacts
  <2>2. Span(text.units[Taken] - 0, text.units[Taken]) = <<>>
    BY <2>1, SpanIsRun, ConsecutiveEmpty
  <2>3. /\ text' = text /\ Taken' = Taken /\ outBuffer' = <<>>
        /\ inBuffer' = inBuffer /\ fetched' = fetched
    BY DEF Return, fileVars, inVars, Taken
  <2> QED
    BY <2>2, <2>3 DEF IInv, Conservation
<1>3. Framed'
  BY DEF IInv, Framed, Return, fileVars, inVars
<1> QED
  BY <1>1, <1>2, <1>3 DEF IInv

LEMMA GrowKeeps ==
  ASSUME IInv, Grow
  PROVE  IInv'
<1>1. TypeOK'
  BY DEF IInv, TypeOK, Grow, fileVars, inVars, Offsets, Places
<1>2. Conservation'
  BY BuffersUnchanged DEF Grow, fileVars, inVars
<1>3. Framed'
  BY DEF IInv, Framed, Grow, Done, fileVars, inVars
<1> QED
  BY <1>1, <1>2, <1>3 DEF IInv

\* inBuffer was empty, so what read(2) hands over begins where iconv() is.
LEMMA RefillKeeps ==
  ASSUME IInv, NEW num \in 1 .. InSize, Refill(num)
  PROVE  IInv'
<1>1. Len(inBuffer) = 0 /\ Taken = fetched
  BY PlaceFacts DEF IInv, Framed, Refill
<1>2. num \in Nat /\ fetched \in Nat /\ fetched + num <= text.size /\ text.size \in Nat
  BY PlaceFacts, SizesAssumption DEF Refill
<1>3. /\ inBuffer' = Consecutive(fetched, fetched + num)
      /\ fetched' = fetched + num /\ inBufferUsed' = num
      /\ UNCHANGED <<text, pc, outVars, delivered>>
  BY SpanIsRun DEF Refill
<1>4. /\ Consecutive(fetched, fetched + num) \in Seq(Int)
      /\ Len(Consecutive(fetched, fetched + num)) = num
      /\ \A i \in 1 .. num : Consecutive(fetched, fetched + num)[i] = fetched + i
  <2>1. fetched \in Int /\ num \in Nat
    BY <1>2
  <2> QED
    BY <2>1, RunFacts, Zenon
<1>5. TypeOK'
  <2>1. inBuffer' \in Seq(Offsets)'
    <3>1. /\ fetched + num \in Int /\ fetched <= fetched + num
          /\ \A x \in fetched + 1 .. fetched + num : x \in Offsets
      BY <1>2 DEF Offsets
    <3>2. Consecutive(fetched, fetched + num) \in Seq(Offsets)
      BY <1>2, <3>1, ConsecutiveOf
    <3> QED
      BY <1>3, <3>2 DEF Offsets
  <2> QED
    BY <1>2, <1>3, <1>4, <2>1, SizeMaxAssumption, SizesAssumption
    DEF IInv, TypeOK, outVars, Places
<1>6. Conservation'
  <2>1. Taken' = Taken
    BY <1>1, <1>2, <1>3, <1>4 DEF Taken
  <2>2. Span(Taken', fetched') = inBuffer'
    BY <1>1, <1>3, <2>1, SpanIsRun
  <2> QED
    BY <1>3, <2>1, <2>2 DEF IInv, Conservation, outVars
<1>7. Framed'
  BY <1>3, <1>4 DEF IInv, Framed, outVars
<1> QED
  BY <1>5, <1>6, <1>7 DEF IInv

LEMMA RefillFailsKeeps ==
  ASSUME IInv, RefillFails
  PROVE  IInv'
<1>1. TypeOK'
  <2>1. inBufferUsed' \in 0 .. SizeMax
    BY SizeMaxAssumption DEF RefillFails
  <2> QED
    BY <2>1 DEF IInv, TypeOK, RefillFails, fileVars, outVars, Offsets, Places
<1>2. Conservation'
  BY BuffersUnchanged DEF RefillFails, fileVars, outVars
<1>3. Framed'
  BY DEF IInv, Framed, RefillFails, fileVars, outVars
<1> QED
  BY <1>1, <1>2, <1>3 DEF IInv

\* iconv() moves on to the end of another character: what it has converted joins the
\* run in outBuffer, and what memmove() leaves of inBuffer is the run from there.
LEMMA ConvertKeeps ==
  ASSUME IInv, Convert
  PROVE  /\ IInv'
         /\ text.units[Taken'] - Len(outBuffer') = text.units[Taken] - Len(outBuffer)
<1> DEFINE a == Taken
           b == Stop(text, inBuffer, Room)
           ua == text.units[a]
           ub == text.units[b]
           n == Len(outBuffer)
<1>1. /\ TextRecord(text) /\ text.size \in Nat
      /\ fetched \in Nat /\ fetched <= text.size
      /\ a \in text.ends /\ a \in Nat /\ a = fetched - Len(inBuffer)
      /\ n \in Nat /\ n <= ua /\ ua \in Nat
      /\ Len(inBuffer) \in Nat
  BY PlaceFacts
<1>2. /\ inBufferUsed = Len(inBuffer) /\ inBufferUsed # 0
      /\ ~Illegal(text, inBuffer, Room) /\ ~Full
      /\ UNCHANGED <<fileVars, pc, numChars, outBufferSize, delivered>>
  BY DEF Convert, IInv, Framed
<1>3. inBuffer = Span(a, fetched) /\ outBuffer = Span(ua - n, ua)
  BY DEF IInv, Conservation
<1>4. Room \in Nat /\ outBufferSize \in Nat /\ Room = outBufferSize - n
  BY <1>1, <1>2 DEF IInv, TypeOK, Full, Room
<1>5. fetched \in a + 1 .. text.size
  BY <1>1, <1>2
<1> HIDE DEF a
<1>6. /\ From(inBuffer) = a
      /\ b \in text.ends /\ a <= b /\ b <= fetched
      /\ ub - ua <= Room
  BY <1>1, <1>2, <1>3, <1>4, <1>5, StopFacts
<1>7. b \in Nat /\ ub \in Nat /\ ua <= ub
  BY <1>1, <1>6 DEF TextRecord
<1> HIDE DEF b
<1>8. inBuffer' = Consecutive(b, fetched)
  <2>1. inBuffer' = SubSeq(inBuffer, b - a + 1, Len(inBuffer))
    BY <1>6 DEF Convert, Leftover, b
  <2>2. inBuffer' = SubSeq(Consecutive(a, fetched), b - a + 1, fetched - a)
    <3>1. Len(inBuffer) = fetched - a
      BY <1>1
    <3> QED
      BY <1>3, <2>1, <3>1, SpanIsRun
  <2>3. SubSeq(Consecutive(a, fetched), b - a + 1, fetched - a)
          = Consecutive(a + (b - a + 1) - 1, a + (fetched - a))
    <3>1. /\ b - a + 1 \in Int /\ fetched - a \in Int /\ fetched \in Int /\ a \in Int
          /\ 1 <= b - a + 1 /\ (b - a + 1) - 1 <= fetched - a /\ fetched - a <= fetched - a
      BY <1>1, <1>6, <1>7
    <3> QED
      BY <3>1, ConsecutivePart, Zenon
  <2>4. a + (b - a + 1) - 1 = b /\ a + (fetched - a) = fetched
    BY <1>1, <1>7
  <2> QED
    BY <2>2, <2>3, <2>4
<1>9. outBuffer' = Consecutive(ua - n, ub)
  <2>1. outBuffer' = Consecutive(ua - n, ua) \o Consecutive(ua, ub)
    BY <1>3, <1>6, SpanIsRun DEF Convert, Converted, b
  <2>2. ua - n \in Int /\ ua \in Int /\ ub \in Int /\ ua - n <= ua
    BY <1>1, <1>7
  <2> QED
    BY <1>7, <2>1, <2>2, ConsecutiveJoin
<1>10. /\ Len(inBuffer') = fetched - b
       /\ Len(outBuffer') = ub - ua + n /\ ub - Len(outBuffer') = ua - n
  <2> HIDE DEF ua, ub, n
  <2>1. Len(inBuffer') = fetched - b
    <3>1. fetched \in Int /\ b \in Int /\ b <= fetched
      BY <1>1, <1>6, <1>7
    <3> QED
      BY <1>8, <3>1, ConsecutiveFacts
  <2>2. ua - n \in Int /\ ub \in Int /\ ua - n <= ub /\ ub - (ua - n) = ub - ua + n
    BY <1>1, <1>7
  <2>3. Len(outBuffer') = ub - (ua - n)
    BY <1>9, <2>2, ConsecutiveFacts
  <2> QED
    BY <1>1, <1>7, <2>1, <2>2, <2>3
<1>11. Taken' = b /\ text' = text /\ fetched' = fetched
  BY <1>1, <1>2, <1>7, <1>10 DEF Taken, fileVars
<1>12. TypeOK'
  <2>1. inBuffer' \in Seq(Offsets)
    <3>1. \A x \in b + 1 .. fetched : x \in Offsets
      BY <1>1, <1>7 DEF Offsets
    <3> QED
      BY <1>1, <1>6, <1>7, <1>8, <3>1, ConsecutiveOf
  <2>2. outBuffer' \in Seq(Places)
    <3>1. ua - n \in Int /\ ub \in Int /\ ua - n <= ub
          /\ \A x \in (ua - n) + 1 .. ub : x \in Places
      BY <1>1, <1>7 DEF Places
    <3>2. Consecutive(ua - n, ub) \in Seq(Places)
      BY <3>1, ConsecutiveOf, Zenon
    <3> QED
      BY <1>9, <3>2
  <2>3. Len(inBuffer') <= InSize /\ inBufferUsed' \in 0 .. SizeMax
    <3>1. Len(inBuffer) <= InSize /\ Len(inBuffer') <= Len(inBuffer) /\ Len(inBuffer') \in Nat
      BY <1>1, <1>6, <1>7, <1>10 DEF IInv, TypeOK
    <3> QED
      BY <3>1, SizesAssumption, SizeMaxAssumption DEF Convert
  <2>4. Len(outBuffer') <= outBufferSize
    <3> HIDE DEF ua, ub, n
    <3> QED
      BY <1>1, <1>4, <1>6, <1>7, <1>10
  <2> QED
    BY <1>2, <2>1, <2>2, <2>3, <2>4 DEF IInv, TypeOK, Offsets, Places, fileVars
<1>13. Conservation'
  <2>1. inBuffer' = Span(Taken', fetched')
    BY <1>8, <1>11, SpanIsRun
  <2>2. outBuffer' = Span(text'.units[Taken'] - Len(outBuffer'), text'.units[Taken'])
    BY <1>9, <1>10, <1>11, SpanIsRun
  <2> QED
    BY <1>6, <1>11, <2>1, <2>2 DEF Conservation
<1>14. Framed'
  BY <1>2 DEF Framed, Convert, IInv
<1>15. text.units[Taken'] - Len(outBuffer') = text.units[Taken] - Len(outBuffer)
  BY <1>10, <1>11 DEF a
<1> QED
  BY <1>12, <1>13, <1>14, <1>15 DEF IInv

LEMMA ConvertThrowsKeeps ==
  ASSUME IInv, ConvertThrows
  PROVE  IInv'
<1>1. TypeOK'
  BY DEF IInv, TypeOK, ConvertThrows, fileVars, inVars, Offsets, Places
<1>2. Conservation'
  <2>1. text.units[Taken] \in Nat
    BY PlaceFacts
  <2>2. Span(text.units[Taken] - 0, text.units[Taken]) = <<>>
    BY <2>1, SpanIsRun, ConsecutiveEmpty
  <2>3. /\ text' = text /\ Taken' = Taken /\ outBuffer' = <<>>
        /\ inBuffer' = inBuffer /\ fetched' = fetched
    BY DEF ConvertThrows, fileVars, inVars, Taken
  <2> QED
    BY <2>2, <2>3 DEF IInv, Conservation
<1>3. Framed'
  BY DEF IInv, Framed, ConvertThrows, fileVars, inVars
<1> QED
  BY <1>1, <1>2, <1>3 DEF IInv

LEMMA NextKeeps == IInv /\ [Next]_vars => IInv'
<1> SUFFICES ASSUME IInv, [Next]_vars PROVE IInv'
  OBVIOUS
<1>1. CASE UNCHANGED vars
  BY <1>1 DEF vars, fileVars, inVars, outVars, IInv, TypeOK, Conservation, Framed,
              Taken, Offsets, Places
<1>2. CASE \E n \in 0 .. MaxN : Call(n)
  BY <1>2, CallKeeps
<1>3. CASE ReturnFull \/ ReturnAtEof
  BY <1>3, ReturnKeeps DEF ReturnFull, ReturnAtEof
<1>4. CASE Grow
  BY <1>4, GrowKeeps
<1>5. CASE \E num \in 1 .. InSize : Refill(num)
  BY <1>5, RefillKeeps
<1>6. CASE Convert
  BY <1>6, ConvertKeeps
<1>7. CASE ConvertThrows
  BY <1>7, ConvertThrowsKeeps
<1>8. CASE RefillFails
  BY <1>8, RefillFailsKeeps
<1> QED
  BY <1>1, <1>2, <1>3, <1>4, <1>5, <1>6, <1>7, <1>8 DEF Next, Turn

-----------------------------------------------------------------------------
\* TypeOK: neither read(2) nor iconv() ever has more in inBuffer or outBuffer than was
\* allocated for it, for all sizes and all texts.
THEOREM TypeCorrect == Spec => []TypeOK
<1>1. IInv => TypeOK
  BY DEF IInv
<1> QED
  BY <1>1, InitHolds, NextKeeps, PTL DEF Spec

\* Conservation: whatever short reads, split characters, full buffers and throwing
\* calls do to the text, the two buffers hold consecutive parts of it that meet where
\* iconv() is.
THEOREM ConservationHolds == Spec => []Conservation
<1>1. IInv => Conservation
  BY DEF IInv
<1> QED
  BY <1>1, InitHolds, NextKeeps, PTL DEF Spec

-----------------------------------------------------------------------------
(* The refinement.  These are what total, passed and want of CharStream    *)
(* stand for.                                                              *)

Total  == text.units[Max(text.ends)]
Passed == text.units[Taken] - Len(outBuffer)
Want   == IF pc = "idle" THEN -1 ELSE numChars

LEMMA AbstractFacts ==
  ASSUME IInv
  PROVE  /\ Total \in Nat /\ Passed \in Nat /\ Passed + Len(outBuffer) = text.units[Taken]
         /\ text.units[Taken] <= Total
         /\ Len(outBuffer) \in Nat /\ numChars \in Nat
<1>1. /\ TextRecord(text) /\ Taken \in text.ends /\ text.units[Taken] \in Nat
      /\ Len(outBuffer) \in Nat /\ Len(outBuffer) <= text.units[Taken]
  BY PlaceFacts
<1>2. /\ Max(text.ends) \in text.ends
      /\ text.units[Taken] <= text.units[Max(text.ends)]
  BY <1>1, LastEndFacts
<1>3. Total \in Nat
  BY <1>1, <1>2 DEF TextRecord, Total
<1> QED
  BY <1>1, <1>2, <1>3, SizesAssumption DEF Passed, Total, IInv, TypeOK

\* With an empty file read, iconv() is at the last character's end.
LEMMA AtEofFacts ==
  ASSUME IInv, pc = "loop", inBufferUsed = 0, AtEof
  PROVE  text.units[Taken] = Total
<1>1. /\ TextRecord(text) /\ Taken \in text.ends
      /\ Taken = fetched - Len(inBuffer) /\ fetched \in Nat
  BY PlaceFacts
<1>2. Len(inBuffer) = 0
  BY DEF IInv, Framed
<1>3. Taken = text.size
  BY <1>1, <1>2 DEF AtEof
<1>4. Max(text.ends) \in text.ends /\ Taken <= Max(text.ends)
  BY <1>1, LastEndFacts
<1>5. Max(text.ends) = Taken
  BY <1>1, <1>3, <1>4 DEF TextRecord
<1> QED
  BY <1>5 DEF Total

LEMMA InitRefines == Init => Chars!Init
<1> SUFFICES ASSUME Init PROVE Chars!Init
  OBVIOUS
<1>1. IInv
  BY InitHolds
<1>2. Total \in Nat
  BY <1>1, AbstractFacts
<1>3. Passed = 0
  <2>1. fetched = 0 /\ Len(inBuffer) = 0 /\ Len(outBuffer) = 0
    BY DEF Init
  <2>2. text.units[0] = 0
    BY TextsAssumption DEF Init, TextRecord
  <2> QED
    BY <2>1, <2>2 DEF Passed, Taken
<1> QED
  BY <1>2, <1>3 DEF Init, Chars!Init, Chars!Idle, Total, Passed

\* Both returns deliver the units in outBuffer, which are as many as were asked for or
\* all that are left.
LEMMA ReturnRefines ==
  ASSUME IInv, ReturnFull \/ ReturnAtEof
  PROVE  Chars!Finish
<1> DEFINE n == Len(outBuffer)
<1>1. /\ Total \in Nat /\ Passed \in Nat /\ Passed + n = text.units[Taken]
      /\ text.units[Taken] <= Total /\ n \in Nat /\ numChars \in Nat
  BY AbstractFacts
<1>2. pc = "loop" /\ Return
  BY DEF ReturnFull, ReturnAtEof
<1>3. Passed' = Passed + n
  <2>1. Passed' = text.units[Taken] - 0
    BY <1>2 DEF Return, fileVars, inVars, Passed, Taken
  <2>2. text.units[Taken] \in Nat
    BY PlaceFacts
  <2> QED
    BY <1>1, <2>1, <2>2
<1>4. outBuffer = Consecutive(Passed, Passed + n)
  BY <1>1, SpanIsRun DEF IInv, Conservation, Passed
<1>5. n = IF numChars = 0 \/ numChars > Total - Passed THEN Total - Passed ELSE numChars
  <2>1. CASE ReturnFull
    <3>1. numChars # 0 /\ n = numChars
      BY <1>1, <2>1 DEF ReturnFull, Full, Done, IInv, TypeOK, Framed
    <3> QED
      BY <1>1, <3>1
  <2>2. CASE ReturnAtEof
    <3>1. text.units[Taken] = Total
      BY <1>2, <2>2, AtEofFacts DEF ReturnAtEof
    <3>2. numChars # 0 => n < numChars
      BY <1>1, <1>2, <2>2 DEF ReturnAtEof, Full, IInv, TypeOK, Framed
    <3> QED
      BY <1>1, <3>1, <3>2
  <2> QED
    BY <2>1, <2>2
<1>6. /\ Total' = Total /\ delivered' = delivered \o outBuffer
      /\ Want = numChars /\ Want' = -1
  BY <1>2 DEF Return, fileVars, Total, Want
<1> HIDE DEF n
<1>7. Passed' = Passed + (IF Want = 0 \/ Want > Total - Passed THEN Total - Passed ELSE Want)
  BY <1>1, <1>3, <1>5, <1>6
<1>8. delivered' = delivered \o Consecutive(Passed, Passed')
  BY <1>3, <1>4, <1>6
<1>9. delivered' = delivered \o Chars!Span(Passed, Passed')
  BY <1>8 DEF Chars!Span, Consecutive
<1>10. Want # -1
  BY <1>1, <1>6
<1> QED
  BY <1>6, <1>7, <1>9, <1>10
  DEF Chars!Finish, Chars!Left, Chars!Idle, Total, Passed, Want

\* A call that throws loses what it had, which is less than it was asked for.
LEMMA ThrowRefines ==
  ASSUME IInv, ConvertThrows
  PROVE  Chars!Throw
<1> DEFINE n == Len(outBuffer)
<1>1. /\ Total \in Nat /\ Passed \in Nat /\ Passed + n = text.units[Taken]
      /\ text.units[Taken] <= Total /\ n \in Nat /\ numChars \in Nat
  BY AbstractFacts
<1>2. Passed' = Passed + n
  <2>1. Passed' = text.units[Taken] - 0
    BY DEF ConvertThrows, fileVars, inVars, Passed, Taken
  <2>2. text.units[Taken] \in Nat
    BY PlaceFacts
  <2> QED
    BY <1>1, <2>1, <2>2
<1>3. numChars = 0 \/ n < numChars
  BY <1>1 DEF ConvertThrows, Full, IInv, TypeOK, Framed
<1>4. Total' = Total /\ delivered' = delivered /\ Want = numChars /\ Want' = -1
  BY DEF ConvertThrows, fileVars, Total, Want
<1> HIDE DEF n
<1>5. Passed' \in Passed .. Total /\ (Want = 0 \/ Passed' - Passed < Want)
  BY <1>1, <1>2, <1>3, <1>4
<1> QED
  BY <1>1, <1>4, <1>5 DEF Chars!Throw, Chars!Idle, Total, Passed, Want

\* The steps in the middle of a call do not show.
LEMMA StepStutters ==
  ASSUME IInv, Grow \/ (\E num \in 1 .. InSize : Refill(num)) \/ RefillFails \/ Convert
  PROVE  UNCHANGED Chars!charVars
<1>1. Total' = Total /\ delivered' = delivered /\ Want' = Want
  BY DEF Grow, Refill, RefillFails, Convert, fileVars, outVars, Total, Want
<1>2. Passed' = Passed
  <2>1. CASE Convert
    BY <2>1, ConvertKeeps DEF Passed, Convert, fileVars
  <2>2. CASE Grow \/ RefillFails
    BY <2>2 DEF Grow, RefillFails, fileVars, inVars, outVars, Passed, Taken
  <2>3. ASSUME NEW num \in 1 .. InSize, Refill(num)
        PROVE  Passed' = Passed
    <3>1. Taken = fetched /\ fetched \in Int /\ num \in Nat
      BY <2>3, PlaceFacts DEF IInv, Framed, Refill
    <3>2. Len(inBuffer') = num
      BY <2>3, <3>1, SpanIsRun, RunFacts, Zenon DEF Refill
    <3>3. Taken' = Taken
      BY <2>3, <3>1, <3>2 DEF Refill, Taken
    <3> QED
      BY <2>3, <3>3 DEF Refill, outVars, Passed
  <2> QED
    BY <2>1, <2>2, <2>3
<1> QED
  BY <1>1, <1>2 DEF Chars!charVars, Total, Passed, Want

LEMMA CallRefines ==
  ASSUME IInv, NEW n \in 0 .. MaxN, Call(n)
  PROVE  Chars!Begin
<1>1. outBuffer = <<>> /\ n \in Nat
  BY SizesAssumption DEF IInv, Framed, Call
<1>2. Total' = Total /\ Passed' = Passed /\ delivered' = delivered /\ Want = -1 /\ Want' = n
  BY <1>1 DEF Call, fileVars, inVars, Total, Passed, Taken, Want
<1> QED
  BY <1>1, <1>2 DEF Chars!Begin, Chars!Idle, Total, Passed, Want

LEMMA NextRefines == IInv /\ [Next]_vars => [Chars!Next]_(Chars!charVars)
<1> SUFFICES ASSUME IInv, [Next]_vars PROVE [Chars!Next]_(Chars!charVars)
  OBVIOUS
<1>1. CASE UNCHANGED vars
  BY <1>1 DEF vars, fileVars, inVars, outVars, Chars!charVars, Taken
<1>2. CASE \E n \in 0 .. MaxN : Call(n)
  BY <1>2, CallRefines DEF Chars!Next
<1>3. CASE ReturnFull \/ ReturnAtEof
  BY <1>3, ReturnRefines DEF Chars!Next
<1>4. CASE ConvertThrows
  BY <1>4, ThrowRefines DEF Chars!Next
<1>5. CASE Grow \/ (\E num \in 1 .. InSize : Refill(num)) \/ RefillFails \/ Convert
  BY <1>5, StepStutters
<1> QED
  BY <1>1, <1>2, <1>3, <1>4, <1>5 DEF Next, Turn

\* IsCharStream: for its callers read() is a stream of characters, whatever the sizes of
\* the buffers: each unit of the text once and in order, n at a time, fewer only at
\* the end.
THEOREM Refinement == Spec => IsCharStream
BY InitHolds, NextKeeps, InitRefines, NextRefines, PTL DEF Spec, IsCharStream, Chars!Spec
=============================================================================
