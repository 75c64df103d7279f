----------------------------- MODULE Transcode ------------------------------
(***************************************************************************)
(* transcode() of binary-engine.cc and the three functions around it:      *)
(* B_ENCODE (from a copy of a JavaScript string to new Bytes), B_DECODE    *)
(* (from Bytes to a string) and B_TRANSCODE (from Bytes to new Bytes).     *)
(* The source of the last two is what lies srcLength bytes long behind     *)
(* their offset; that neither is checked is a matter of Bytes, and here    *)
(* they are inside of the object, and ten times the length is an int.      *)
(* A call allocates a destination and a converter, and its exits differ in *)
(* what they give back; `leaked' is what nobody can free any more.         *)
(***************************************************************************)
EXTENDS Iconv

CONSTANTS
  Texts,      \* the sources
  Expand      \* units of destination per byte of source (10 bytes in the code)

ASSUME TranscodeAssumption ==
  /\ \A t \in Texts : TextRecord(t)
  /\ Expand \in Nat \ {0} /\ Texts # {}

VARIABLES
  function,   \* the function under way, or the last one
  source,     \* its text
  stage,      \* "idle", "calloc", "open", "loop", "after"
  used,       \* how much of the source is converted: srcLength - src_bytes_left
  dst,        \* the units in the destination
  live,       \* what the call holds: "src", "dst", "cd"
  outcome,    \* of the last call: "ok", "error"
  returned,   \* what it has returned: the contents of Bytes, or a string
  leaked      \* ghost: what the last call held and did not give back

transcodeVars == <<function, source, stage, used, dst, live, outcome, returned, leaked>>

Callers == {"B_ENCODE", "B_DECODE", "B_TRANSCODE"}
Resources  == {"src", "dst", "cd"}

-----------------------------------------------------------------------------
Bug_dst_length == Expand * source.size + 1

\* dst_length
dst_length == Expand * source.size

DstLeft == dst_length - Len(dst)

SrcLeft == source.size - used

Pending == Span(used, source.size)

(* Mutants *)
BugFatal           == Illegal(source, Pending, DstLeft)
BugComplete        == TRUE

\* The condition of the loop and the break at the head of its body.
GoesOn == DstLeft > 0 /\ SrcLeft > 0

\* The last check: nothing of the source may be left.
Complete == SrcLeft = 0

\* iconv() returns -1 and errno != EINVAL.
Fatal == Illegal(source, Pending, DstLeft) \/ TooBig(source, Pending, DstLeft)

\* What the functions free when all went well: B_ENCODE its copy of the string,
\* B_DECODE the destination, which the string copied.
Frees(f) == CASE f = "B_ENCODE" -> {"src"} [] f = "B_DECODE" -> {"dst"}
              [] f = "B_TRANSCODE" -> {}

\* What the Bytes object that they return owns from then on.
Owns(f) == IF f = "B_DECODE" THEN {} ELSE {"dst"}

-----------------------------------------------------------------------------
TranscodeInit ==
  /\ function = "B_ENCODE" /\ source = CHOOSE t \in Texts : TRUE
  /\ stage = "idle"
  /\ used = 0 /\ dst = <<>> /\ live = {}
  /\ outcome = "ok" /\ returned = <<>>
  /\ leaked = {}

\* A function is called and calls transcode() for the text t: a copy of the string, or
\* the window of the object that the offset and the length name.
Call(f, t) ==
  /\ stage = "idle"
  /\ function' = f /\ source' = t
  /\ stage' = "calloc"
  /\ live' = IF f = "B_ENCODE" THEN {"src"} ELSE {}
  /\ returned' = <<>> /\ leaked' = {}
  /\ UNCHANGED <<used, dst, outcome>>

\* "return 0", and the THROW of the caller: neither frees anything.
Fail(held) ==
  /\ stage' = "idle" /\ outcome' = "error"
  /\ leaked' = held
  /\ live' = {} /\ used' = 0 /\ dst' = <<>>
  /\ UNCHANGED <<function, source, returned>>

Calloc ==
  /\ stage = "calloc"
  /\ live' = live \cup {"dst"} /\ stage' = "open"
  /\ UNCHANGED <<function, source, used, dst, outcome, returned, leaked>>

CallocFails == stage = "calloc" /\ Fail(live)

IconvOpen ==
  /\ stage = "open"
  /\ live' = live \cup {"cd"} /\ stage' = "loop"
  /\ UNCHANGED <<function, source, used, dst, outcome, returned, leaked>>

\* No such codec.
IconvOpenFails == stage = "open" /\ Fail(live)

\* A turn in which iconv() succeeds or says EINVAL: both go round again.
Convert ==
  /\ stage = "loop" /\ GoesOn /\ ~Fatal
  /\ used' = Stop(source, Pending, DstLeft)
  /\ dst' = dst \o Span(source.units[used], source.units[used'])
  /\ UNCHANGED <<function, source, stage, live, outcome, returned, leaked>>

\* Any other error.
ConvertFails ==
  /\ stage = "loop" /\ GoesOn /\ Fatal
  /\ Fail(live)

\* After the loop the converter is closed, whatever comes next.
IconvClose ==
  /\ stage = "loop" /\ ~GoesOn
  /\ live' = live \ {"cd"} /\ stage' = "after"
  /\ UNCHANGED <<function, source, used, dst, outcome, returned, leaked>>

Incomplete == stage = "after" /\ ~Complete /\ Fail(live)

Succeed ==
  /\ stage = "after" /\ Complete
  /\ stage' = "idle" /\ outcome' = "ok"
  /\ returned' = dst
  /\ leaked' = live \ (Frees(function) \cup Owns(function))
  /\ live' = {} /\ used' = 0 /\ dst' = <<>>
  /\ UNCHANGED <<function, source>>

Step == Calloc \/ IconvOpen \/ Convert \/ ConvertFails \/ IconvClose \/ Incomplete \/ Succeed

TranscodeNext ==
  \/ \E f \in Callers, t \in Texts : Call(f, t)
  \/ Step
  \/ CallocFails
  \/ IconvOpenFails

-----------------------------------------------------------------------------
\* The units of a text, if it is one from end to end.
Legal(t) == t.illegal = {} /\ t.size \in t.ends
Units(t) == Span(0, t.units[Max(t.ends)])

TranscodeTypeOK ==
  /\ function \in Callers /\ source \in Texts
  /\ stage \in {"idle", "calloc", "open", "loop", "after"}
  /\ used \in source.ends /\ dst \in Seq(Nat \ {0})
  /\ Len(dst) <= Expand * source.size
  /\ live \subseteq Resources
  /\ leaked \subseteq Resources
  /\ outcome \in {"ok", "error"}
  /\ stage \in {"open", "loop", "after"} <=> "dst" \in live

\* A call that succeeds has converted a legal text, to its last byte, into
\* what the destination could hold, and whichever function it is and however
\* the loop went, it leaks nothing: only errors do.
WholeOrError ==
  [][(stage = "after" /\ outcome' = "ok" /\ stage' = "idle")
       => (Legal(source) /\ returned' = Units(source) /\ leaked' = {})]_transcodeVars

\* iconv() says EINVAL and nothing moves: the source stops inside a character.
Stuck == stage = "loop" /\ GoesOn /\ source.size \notin source.ends
           /\ used = Max(source.ends)

\* Every call returns or throws, except on a source that stops inside a
\* character: there transcode() spins for ever.
EndsUnlessTruncated == (stage # "idle") ~> (stage = "idle" \/ Stuck)
=============================================================================
