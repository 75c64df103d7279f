----------------------------- MODULE LineReader -----------------------------
(***************************************************************************)
(* The line methods of TextInputStream (lib/io-engine.js) on a CharStream: *)
(* each is a loop of read(1).  The units of the text are named by their    *)
(* place, as in CharStream; `breaks' are the places that hold a "\n".      *)
(*                                                                         *)
(* A program makes one call after the other, but forEach gives control     *)
(* back to it between lines, and its block may read from the same stream.  *)
(***************************************************************************)
EXTENDS Integers, SequencesExt

CONSTANTS
  MaxUnits,     \* bound on the length of the text
  MayThrow      \* may read(1) throw (an illegal byte in the file)?

ASSUME UnitsAssumption == MaxUnits \in Nat /\ MayThrow \in BOOLEAN

VARIABLES
  total, passed, got, want,   \* the stream: see CharStream
  breaks,             \* the places of the newlines
  method,             \* the method under way, or "none"
  pc,                 \* "line": in _readLine; "block": in forEach's block;
                      \* "nested": in a readLine of the block; "after": after that
  buffer,             \* of _readLine
  lines,              \* of readLines
  received,           \* ghost: the lines the program has received
  outcome,            \* how the last call ended
  failed              \* ghost: has a read(1) thrown?

streamVars == <<total, passed, got, want, breaks>>
callVars   == <<method, pc, buffer, lines>>
vars       == <<streamVars, callVars, received, outcome, failed>>

Chars == INSTANCE CharStream

Methods == {"readLine", "next", "readLines", "forEach", "copy"}
Loops   == {"readLines", "forEach", "copy"}

-----------------------------------------------------------------------------
(* Mutants *)
BugLine(joined)     == joined
BugContinues(line)  == Len(line) > 1
BugEndless(line)    == TRUE
BugEndsLine(last)   == ToSet(last) \cap breaks # {}

\* What read(1) returns: a unit or "".
Answered == IF Chars!Left = 0 THEN <<>> ELSE <<passed + 1>>

\* last === "\n" || last === "": nothing in it but newlines.
EndsLine(last) == ToSet(last) \subseteq breaks

\* buffer.join("").slice(0, -1)
Line(joined) == IF joined = <<>> THEN <<>> ELSE Front(joined)

\* The buffer that _readLine begins with.
Fresh == <<>>

\* The condition of the loops, and of next() not throwing StopIteration.
Continues(line) == Len(line) > 0

-----------------------------------------------------------------------------
Init ==
  /\ total \in 0 .. MaxUnits
  /\ breaks \in SUBSET (1 .. total)
  /\ passed = 0 /\ got = <<>> /\ want = Chars!Idle
  /\ method = "none" /\ pc = "line"
  /\ buffer = <<>> /\ lines = <<>>
  /\ received = <<>> /\ outcome = "value" /\ failed = FALSE

Invoke(m) ==
  /\ method = "none"
  /\ method' = m /\ pc' = "line"
  /\ buffer' = <<>> /\ lines' = <<>>
  /\ UNCHANGED <<streamVars, received, outcome, failed>>

\* The call of read(1) in _readLine.
Ask ==
  /\ method # "none" /\ pc \in {"line", "nested"}
  /\ want' = 1 /\ Chars!Begin
  /\ UNCHANGED <<breaks, callVars, received, outcome, failed>>

Answer == Chars!Finish /\ UNCHANGED breaks

\* It returns a unit in the middle of a line.
MidLine ==
  /\ Answer /\ ~EndsLine(Answered)
  /\ buffer' = buffer \o Answered
  /\ UNCHANGED <<method, pc, lines, received, outcome, failed>>

Return(how) ==
  /\ method' = "none" /\ pc' = "line"
  /\ buffer' = <<>> /\ lines' = <<>>
  /\ outcome' = how

\* The program has a line; a blank one tells it nothing.
Receives(line) == received' = IF line = <<>> THEN received ELSE Append(received, line)

\* _readLine returns, and the method that called it goes on.
AfterLine(line) ==
  \/ /\ pc = "nested"
     /\ Receives(line)
     /\ pc' = "after" /\ buffer' = <<>>
     /\ UNCHANGED <<method, lines, outcome>>
  \/ /\ pc = "line" /\ method \in {"readLine", "next"}
     /\ Receives(line)
     /\ Return(IF method = "next" /\ ~Continues(line) THEN "stop" ELSE "value")
  \/ /\ pc = "line" /\ method \in Loops /\ Continues(line)
     /\ IF method = "readLines"
        THEN lines' = Append(lines, line) /\ UNCHANGED received
        ELSE Receives(line) /\ UNCHANGED lines
     /\ pc' = (IF method = "forEach" THEN "block" ELSE "line")
     /\ buffer' = Fresh
     /\ UNCHANGED <<method, outcome>>
  \/ /\ pc = "line" /\ method \in Loops /\ ~Continues(line)
     /\ received' = received \o lines
     /\ Return("value")

EndOfLine ==
  /\ Answer /\ EndsLine(Answered)
  /\ AfterLine(Line(buffer \o Answered))
  /\ UNCHANGED failed

\* read(1) throws.  Nothing catches it but forEach, and forEach takes any
\* exception of next() for StopIteration.  What the call had read is gone.
ReadThrows ==
  /\ MayThrow
  /\ Chars!Throw
  /\ failed' = TRUE
  /\ Return(IF method = "forEach" /\ pc = "line" THEN "value" ELSE "threw")
  /\ UNCHANGED <<breaks, received>>

\* The block of a forEach: it may read a line, and it may throw.
BlockReads ==
  /\ pc = "block"
  /\ pc' = "nested" /\ buffer' = Fresh
  /\ UNCHANGED <<streamVars, method, lines, received, outcome, failed>>

BlockReturns ==
  /\ pc \in {"block", "after"}
  /\ pc' = "line" /\ buffer' = Fresh
  /\ UNCHANGED <<streamVars, method, lines, received, outcome, failed>>

BlockThrows ==
  /\ pc \in {"block", "after"}
  /\ Return("threw")
  /\ UNCHANGED <<streamVars, received, failed>>

Step == Ask \/ MidLine \/ EndOfLine \/ BlockReads \/ BlockReturns

Next == (\E m \in Methods : Invoke(m)) \/ Step \/ ReadThrows \/ BlockThrows

\* A method that has control goes on to its next read(1).  Nothing obliges read(1) to
\* answer - TextInput says when it does not - or the block of a forEach to return.
Spec == Init /\ [][Next]_vars /\ WF_vars(Ask)

-----------------------------------------------------------------------------
Units == Seq(1 .. total)

TypeOK ==
  /\ total \in 0 .. MaxUnits /\ breaks \subseteq 1 .. total
  /\ got \in Units /\ passed \in 0 .. total /\ want \in {Chars!Idle, 1}
  /\ method \in Methods \cup {"none"}
  /\ pc \in {"line", "block", "nested", "after"}
  /\ buffer \in Units
  /\ {lines, received} \subseteq Seq(Units \ {<<>>})
  /\ lines # <<>> => method = "readLines"
  /\ pc # "line" => method = "forEach"
  /\ outcome \in {"value", "stop", "threw"}
  /\ failed \in BOOLEAN

\* The reference: the lines, blank ones left out, that end in the first k units. At its
\* end the text has one that need not end in a newline; _readLine takes the last unit
\* off that as off the others.
Ends(k) == {b \in breaks : b <= k} \cup ({k} \cap {total})

OneLine(a, b) == a < b - 1 /\ breaks \cap (a + 1 .. b - 1) = {}

LinesIn(k) ==
  {Chars!Span(l[1], l[2] - 1) :
     l \in {l \in (breaks \cup {0}) \X Ends(k) : OneLine(l[1], l[2])}}

\* A piece of the text with nothing left out of it.
Stretch(line) == \A i \in DOMAIN line : line[i] = line[1] + i - 1

\* However calls follow each other, block and nested calls included, the
\* program has received every line that is not blank, whole, once and in order
\* - but for a last line without a newline, which comes without its end.
\* With reads that throw lines get lost, or lose what they begin with, but none is received
\* twice, out of order, or mixed with another.
LinesOnce ==
  LET all == Append(received \o lines, buffer)
  IN  /\ method = "none" /\ ~failed =>
           /\ Len(got) \in breaks \cup {0, total}
           /\ ToSet(received) = LinesIn(Len(got))
      /\ \A i \in DOMAIN all : Stretch(all[i])
      /\ \A i, j \in DOMAIN all :
           i < j => \A u \in ToSet(all[i]), v \in ToSet(all[j]) : u < v
      /\ \A line \in ToSet(received) : breaks \cap ToSet(line) = {}

\* u holds the newline of a blank line.
Blank(u) == u \in breaks /\ u - 1 \in breaks \cup {0}

\* readLines, forEach and copy end of themselves at the end of the stream or
\* after a blank line, and nowhere else: with no blank line in it and a newline
\* at its end, they deliver a text whole.
StopsAtBlankOrEnd ==
  [][(method \in Loops /\ method' = "none" /\ outcome' = "value" /\ ~failed')
       => (Len(got') = total \/ Blank(Len(got')))]_vars

\* What a call waits for: an answer of read(1), or the program's block.
Waits == want # Chars!Idle \/ pc \in {"block", "after"}

\* A call returns that is never left waiting for good: however short the text, with or
\* without a newline at its end, and whatever a block reads of it, no loop goes on
\* asking at the end of the stream.  That read(1) answers is not promised: on a
\* surrogate pair, or a character split by inBuffer, it spins (ReadEndsUnlessStuck).
CallsEnd == []<>~Waits => (method # "none" ~> method = "none")
=============================================================================
