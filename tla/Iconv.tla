------------------------------- MODULE Iconv --------------------------------
(***************************************************************************)
(* iconv(3), external, by what it does for the code that calls it.         *)
(*                                                                         *)
(* A text is what a charset makes of some bytes: a byte is named by its    *)
(* offset 1 .. size, a unit of the output (an NWChar of UTF-16, say) by    *)
(* its place.  `ends' are the offsets at which a character ends (and 0),   *)
(* `units' says how many units the characters up to there make, and a byte *)
(* sequence that is no character begins after each offset of `illegal'.    *)
(***************************************************************************)
EXTENDS Integers, Sequences, FiniteSetsExt

\* The places a + 1, ..., b, in order.
Span(a, b) == [i \in 1 .. (b - a) |-> a + i]

TextRecord(t) ==
  /\ t.size \in Nat
  /\ t.ends \subseteq 0 .. t.size /\ 0 \in t.ends
  /\ t.units \in [t.ends -> Nat]
  /\ t.units[0] = 0
  /\ \A a, b \in t.ends : a <= b => t.units[a] <= t.units[b]
  /\ t.illegal \subseteq t.ends \ {t.size}

\* iconv() works on bytes s of t, which begin after offset From(s).
From(s) == s[1] - 1

\* The offsets up to which it can convert: the bytes are there, in order and
\* legal, and the units they make fit in room.
Convertible(t, s, room) ==
  {b \in t.ends :
     /\ From(s) \in t.ends
     /\ From(s) <= b /\ b - From(s) <= Len(s)
     /\ SubSeq(s, 1, b - From(s)) = Span(From(s), b)
     /\ \A a \in t.illegal : ~(From(s) <= a /\ a < b)
     /\ t.units[b] - t.units[From(s)] <= room}

\* Where it stops: as far as it can go.
Stop(t, s, room) == Max(Convertible(t, s, room))

\* EILSEQ: what comes next is no character.
Illegal(t, s, room) ==
  \/ Convertible(t, s, room) = {}
  \/ /\ Stop(t, s, room) \in t.illegal
     /\ Stop(t, s, room) - From(s) < Len(s)

\* E2BIG: the next character is all there, but there is no room for it.
\* (The other way to stop early is EINVAL: it is not all there.)
TooBig(t, s, room) ==
  \E b \in t.ends : Stop(t, s, room) < b /\ b - From(s) <= Len(s)

-----------------------------------------------------------------------------
\* A character for texts that are made by hand: its bytes and its units.
Char(width, units) == [width |-> width, units |-> units, legal |-> TRUE]
Rubbish            == [width |-> 1, units |-> 0, legal |-> FALSE]

\* The text that a sequence of characters makes.
TextOf(chars) ==
  LET at[i \in 0 .. Len(chars)]    == IF i = 0 THEN 0 ELSE at[i - 1] + chars[i].width
      units[i \in 0 .. Len(chars)] == IF i = 0 THEN 0 ELSE units[i - 1] + chars[i].units
      Ends == {at[i] : i \in 0 .. Len(chars)}
      CharAt(b) == CHOOSE i \in 0 .. Len(chars) : at[i] = b
  IN  [size    |-> at[Len(chars)],
       ends    |-> Ends,
       units   |-> [b \in Ends |-> units[CharAt(b)]],
       illegal |-> {at[i - 1] : i \in {j \in 1 .. Len(chars) : ~chars[j].legal}}]

\* All texts of at most n characters out of a set.
TextsOf(chars, n) == {TextOf(s) : s \in UNION {[1 .. k -> chars] : k \in 0 .. n}}

\* t, when the file stops a byte into one more character.
Truncated(t) == [t EXCEPT !.size = @ + 1]
=============================================================================
