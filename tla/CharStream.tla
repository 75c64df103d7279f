----------------------------- MODULE CharStream -----------------------------
(***************************************************************************)
(* What TextInputStream.read promises its callers, with no buffer, no      *)
(* descriptor and no converter in sight.  A text is `total' UTF-16 units,  *)
(* named 1, 2, ... by their place.  read(n) hands over the next n of them, *)
(* or what is left; read() and read(0) hand over all that is left.  Units  *)
(* come in order, each one once.  A read may throw (on bytes that are no   *)
(* text), and then takes with it what it had, which is less than it was to *)
(* deliver.                                                                *)
(***************************************************************************)
EXTENDS Integers, Sequences

VARIABLES
  total,     \* how many units the text has
  passed,    \* how many have been returned or thrown away
  got,       \* the units that the caller has received
  want       \* the n of the read that is under way, Idle between reads

charVars == <<total, passed, got, want>>

Idle == -1

\* The places a + 1, ..., b.
Span(a, b) == [i \in 1 .. (b - a) |-> a + i]

Init ==
  /\ total \in Nat
  /\ passed = 0
  /\ got = <<>>
  /\ want = Idle

Begin ==
  /\ want = Idle
  /\ want' \in Nat
  /\ UNCHANGED <<total, passed, got>>

Left == total - passed

Finish ==
  /\ want # Idle
  /\ passed' = passed + (IF want = 0 \/ want > Left THEN Left ELSE want)
  /\ got' = got \o Span(passed, passed')
  /\ want' = Idle
  /\ UNCHANGED total

Throw ==
  /\ want # Idle
  /\ passed' \in passed .. total
  /\ want = 0 \/ passed' - passed < want
  /\ want' = Idle
  /\ UNCHANGED <<total, got>>

Next == Begin \/ Finish \/ Throw

Spec == Init /\ [][Next]_charVars
=============================================================================
