-------------------------- MODULE LineReaderProofs --------------------------
(***************************************************************************)
(* The lines that the methods of TextInputStream hand to a program, for    *)
(* texts of any length and any sequence of calls.                          *)
(***************************************************************************)
EXTENDS LineReader, DataFacts

-----------------------------------------------------------------------------
(* The inductive invariant.                                                *)

\* Where the line that is being read begins; between lines, where the last one ended.
Start == passed - Len(buffer)

\* The lines that are on their way to the program, or there.
Sent == received \o lines

\* Nothing is under way that the place in the code does not account for.
Framed ==
  /\ method = "none" => buffer = <<>> /\ lines = <<>> /\ want = Chars!Idle
  /\ pc \in {"block", "after"} => buffer = <<>> /\ want = Chars!Idle

\* read(1) hands the units over one after the other, and those of the line that is
\* being read are the last of them.
Reading ==
  /\ got = Consecutive(0, passed)
  /\ Len(buffer) <= passed
  /\ buffer = Consecutive(Start, passed)
  /\ breaks \cap (Start + 1 .. passed) = {}

\* Lines are pieces of the text without a newline, in order, none of it beyond k.
InOrder(sent, k) ==
  /\ \A i \in DOMAIN sent :
       /\ Stretch(sent[i])
       /\ breaks \cap ToSet(sent[i]) = {}
       /\ \A u \in ToSet(sent[i]) : u <= k
  /\ \A i, j \in DOMAIN sent :
       i < j => \A u \in ToSet(sent[i]), v \in ToSet(sent[j]) : u < v

\* So are those that were sent, and the one that is being read comes after them.
Ordered == InOrder(Sent, Start)

\* Until a read throws, they are all the lines there are up to Start.
Whole ==
  ~failed => Start \in breaks \cup {0, total} /\ ToSet(Sent) = LinesIn(Start)

IInv == TypeOK /\ Framed /\ Reading /\ Ordered /\ Whole

-----------------------------------------------------------------------------
(* The reference.                                                          *)

SpanIs(a, b) == Chars!Span(a, b) = Consecutive(a, b)

LEMMA SpanFacts == \A a, b \in Int : SpanIs(a, b)
BY DEF SpanIs, Chars!Span, Consecutive

LEMMA EndsFacts ==
  \A k, e : e \in Ends(k) <=> (e \in breaks /\ e <= k) \/ (e = k /\ k = total)
BY Zenon DEF Ends

\* The line between p and b, if it is not blank.
LinesBetween(p, b) == IF p < b - 1 THEN {Consecutive(p, b - 1)} ELSE {}

\* With the next newline, or the end of the text, one line comes to those there were.
LEMMA NextLine ==
  ASSUME total \in Nat, breaks \subseteq 1 .. total,
         NEW p \in breaks \cup {0}, NEW b \in breaks \cup {total}, p < b,
         breaks \cap (p + 1 .. b - 1) = {}
  PROVE  LinesIn(b) = LinesIn(p) \cup LinesBetween(p, b)
<1> DEFINE begins == breaks \cup {0}
           P(k) == {l \in begins \X Ends(k) : OneLine(l[1], l[2])}
<1>1. /\ p \in Nat /\ b \in Nat /\ b <= total /\ \A a \in begins : a \in Nat
      /\ \A e \in breaks : e \in Nat /\ 1 <= e /\ e <= total
  OBVIOUS
<1>2. Ends(b) = Ends(p) \cup {b}
  <2>1. \A e : e \in Ends(b) <=> (e \in breaks /\ e <= b) \/ (e = b /\ b = total)
    BY EndsFacts, Zenon
  <2>2. \A e : e \in Ends(p) <=> (e \in breaks /\ e <= p) \/ (e = p /\ p = total)
    BY EndsFacts, Zenon
  <2>3. p # total
    BY <1>1
  <2>4. \A e \in breaks : e <= b <=> e <= p \/ e = b
    BY <1>1
  <2>5. \A e : e \in Ends(b) <=> e \in Ends(p) \/ e = b
    BY <2>1, <2>2, <2>3, <2>4
  <2> QED
    BY <2>5
<1>4. \A a \in begins : OneLine(a, b) <=> a = p /\ p < b - 1
  <2> SUFFICES ASSUME NEW a \in begins PROVE OneLine(a, b) <=> a = p /\ p < b - 1
    OBVIOUS
  <2>1. a \in Int
    BY <1>1
  <2>2. CASE a = p
    BY <2>2 DEF OneLine
  <2>3. CASE a > p
    <3>1. a \in breaks
      BY <1>1, <2>1, <2>3
    <3>2. ~(a < b - 1)
      BY <1>1, <2>1, <2>3, <3>1
    <3> QED
      BY <2>3, <3>2, <1>1, <2>1 DEF OneLine
  <2>4. CASE a < p
    <3>1. p \in breaks
      BY <1>1, <2>1, <2>4
    <3>2. p \in a + 1 .. b - 1
      BY <1>1, <2>1, <2>4
    <3> QED
      BY <3>1, <3>2, <2>4, <1>1, <2>1 DEF OneLine
  <2> QED
    BY <1>1, <2>1, <2>2, <2>3, <2>4
<1>5. \A l : l \in P(b) <=> l \in P(p) \/ (l = <<p, b>> /\ p < b - 1)
  <2>1. p \in begins
    OBVIOUS
  <2> HIDE DEF begins
  <2>2. \A k, l : l \in P(k) <=> l \in begins \X Ends(k) /\ OneLine(l[1], l[2])
    BY Zenon
  <2>3. \A l : l \in begins \X Ends(b) <=> l \in begins \X Ends(p) \/ l \in begins \X {b}
    BY <1>2
  <2>4. \A l : l \in begins \X {b} /\ OneLine(l[1], l[2]) <=> l = <<p, b>> /\ p < b - 1
    <3>1. \A l \in begins \X {b} : l = <<l[1], b>> /\ l[1] \in begins /\ l[2] = b
      OBVIOUS
    <3>2. <<p, b>> \in begins \X {b} /\ <<p, b>>[1] = p /\ <<p, b>>[2] = b
      BY <2>1
    <3>3. OneLine(p, b) <=> p < b - 1
      BY <1>4, <2>1
    <3> QED
      BY <1>4, <3>1, <3>2, <3>3
  <2> HIDE DEF P
  <2> QED
    BY <2>2, <2>3, <2>4
<1>6. LinesIn(b) = {Chars!Span(l[1], l[2] - 1) : l \in P(b)}
      /\ LinesIn(p) = {Chars!Span(l[1], l[2] - 1) : l \in P(p)}
  BY DEF LinesIn
<1>7. Chars!Span(p, b - 1) = Consecutive(p, b - 1)
  BY <1>1, SpanFacts DEF SpanIs
<1> HIDE DEF P, begins
<1>8. CASE p < b - 1
  <2> DEFINE F(l) == Chars!Span(l[1], l[2] - 1)
  <2>1. P(b) = P(p) \cup {<<p, b>>}
    BY <1>5, <1>8
  <2>2. F(<<p, b>>) = Consecutive(p, b - 1)
    BY <1>7
  <2>3. LinesIn(b) = {F(l) : l \in P(b)} /\ LinesIn(p) = {F(l) : l \in P(p)}
    BY <1>6
  <2> HIDE DEF F
  <2>4. LinesIn(b) = LinesIn(p) \cup {F(<<p, b>>)}
    BY <2>1, <2>3
  <2> QED
    BY <1>8, <2>2, <2>4 DEF LinesBetween
<1>9. CASE ~(p < b - 1)
  <2>1. P(b) = P(p)
    BY <1>5, <1>9, Zenon
  <2> QED
    BY <1>6, <1>9, <2>1 DEF LinesBetween
<1> QED
  BY <1>8, <1>9

\* Before the first unit there is no line.
LEMMA NoLinesAtStart ==
  ASSUME total \in Nat, breaks \subseteq 1 .. total
  PROVE  LinesIn(0) = {}
<1>1. \A e \in Ends(0) : e = 0
  <2>1. \A e \in breaks : e \in Int /\ e > 0
    OBVIOUS
  <2> SUFFICES ASSUME NEW e \in Ends(0) PROVE e = 0
    OBVIOUS
  <2>2. (e \in breaks /\ e <= 0) \/ e = 0
    BY EndsFacts, Zenon
  <2>3. CASE e \in breaks /\ e <= 0
    BY <2>1, <2>3
  <2> QED
    BY <2>2, <2>3
<1>2. \A a \in breaks \cup {0} : ~OneLine(a, 0)
  BY DEF OneLine
<1> QED
  BY <1>1, <1>2 DEF LinesIn

-----------------------------------------------------------------------------
(* Sequences of lines.                                                     *)

LEMMA ToSetAppend ==
  ASSUME NEW S, NEW s \in Seq(S), NEW e \in S
  PROVE  ToSet(Append(s, e)) = ToSet(s) \cup {e}
<1> DEFINE t == Append(s, e)
<1>1. Len(s) \in Nat /\ DOMAIN s = 1 .. Len(s) /\ DOMAIN t = 1 .. Len(s) + 1
  OBVIOUS
<1>2. t[Len(s) + 1] = e /\ \A i \in 1 .. Len(s) : t[i] = s[i]
  OBVIOUS
<1> HIDE DEF t
<1>3. \A i \in DOMAIN t : i \in DOMAIN s \/ i = Len(s) + 1
  BY <1>1
<1>4. \A x : x \in ToSet(t) <=> x \in ToSet(s) \/ x = e
  <2>1. \A x : x \in ToSet(t) <=> \E i \in DOMAIN t : x = t[i]
    BY Zenon DEF ToSet
  <2>2. \A x : x \in ToSet(s) <=> \E i \in DOMAIN s : x = s[i]
    BY Zenon DEF ToSet
  <2> QED
    BY <1>1, <1>2, <1>3, <2>1, <2>2
<1>5. ToSet(t) = ToSet(s) \cup {e}
  BY <1>4
<1> QED
  BY <1>5 DEF t

LEMMA ToSetFacts ==
  ASSUME NEW a \in Int, NEW b \in Int, a <= b
  PROVE  ToSet(Consecutive(a, b)) = a + 1 .. b
<1> DEFINE s == Consecutive(a, b)
<1>1. s \in Seq(Int) /\ Len(s) = b - a /\ \A i \in 1 .. (b - a) : s[i] = a + i
  BY ConsecutiveFacts
<1> HIDE DEF s
<1>2. DOMAIN s = 1 .. (b - a)
  BY <1>1
<1>3. \A x \in a + 1 .. b : x - a \in 1 .. (b - a) /\ s[x - a] = x
  BY <1>1
<1>4. ToSet(s) = a + 1 .. b
  BY <1>1, <1>2, <1>3 DEF ToSet
<1> QED
  BY <1>4 DEF s

LEMMA StretchFacts ==
  ASSUME NEW a \in Int, NEW b \in Int, a <= b
  PROVE  Stretch(Consecutive(a, b))
<1> DEFINE s == Consecutive(a, b)
<1>1. s \in Seq(Int) /\ Len(s) = b - a /\ \A i \in 1 .. (b - a) : s[i] = a + i
  BY ConsecutiveFacts
<1> HIDE DEF s
<1>2. Stretch(s)
  BY <1>1 DEF Stretch
<1> QED
  BY <1>2 DEF s

-----------------------------------------------------------------------------
(* The answers of read(1).                                                 *)

Texts == Units \ {<<>>}

LEMMA TypeFacts ==
  ASSUME TypeOK
  PROVE  /\ total \in Nat /\ passed \in Nat /\ passed <= total
         /\ breaks \subseteq 1 .. total
         /\ buffer \in Seq(1 .. total) /\ Len(buffer) \in Nat
         /\ received \in Seq(Texts) /\ lines \in Seq(Texts)
BY UnitsAssumption DEF TypeOK, Units, Texts

LEMMA StartFacts ==
  ASSUME IInv
  PROVE  /\ Start \in Nat /\ Start <= passed
         /\ Len(buffer) = passed - Start
         /\ buffer = <<>> <=> Start = passed
<1>1. passed \in Nat /\ Len(buffer) \in Nat /\ Len(buffer) <= passed /\ buffer \in Seq(1 .. total)
  BY TypeFacts DEF IInv, Reading
<1>2. buffer = <<>> <=> Len(buffer) = 0
  BY <1>1
<1> QED
  BY <1>1, <1>2 DEF Start

\* read(1) returns the next unit, or nothing at the end.
LEMMA AnswerFacts ==
  ASSUME IInv, Answer
  PROVE  /\ method # "none" /\ pc \in {"line", "nested"}
         /\ total' = total /\ breaks' = breaks /\ want' = Chars!Idle
         /\ got' = Consecutive(0, passed')
         /\ \/ passed < total /\ passed' = passed + 1 /\ Answered = <<passed + 1>>
            \/ passed = total /\ passed' = passed /\ Answered = <<>>
         /\ buffer \o Answered = Consecutive(Start, passed')
<1>1. want = 1 /\ method # "none" /\ pc \in {"line", "nested"}
  BY DEF Answer, Chars!Finish, Chars!Idle, IInv, TypeOK, Framed
<1>2. /\ total' = total /\ breaks' = breaks /\ want' = Chars!Idle
      /\ passed' = passed + (IF 1 > total - passed THEN total - passed ELSE 1)
      /\ got' = got \o Chars!Span(passed, passed')
  BY <1>1 DEF Answer, Chars!Finish, Chars!Left
<1>3. total \in Nat /\ passed \in Nat /\ passed <= total
  BY TypeFacts DEF IInv
<1>4. Start \in Nat /\ Start <= passed
  BY StartFacts
<1>5. got = Consecutive(0, passed) /\ buffer = Consecutive(Start, passed)
  BY DEF IInv, Reading
<1>6. CASE passed < total
  <2>1. passed' = passed + 1
    BY <1>2, <1>3, <1>6
  <2>2. Answered = <<passed + 1>>
    BY <1>3, <1>6 DEF Answered, Chars!Left
  <2>3. Consecutive(passed, passed + 1) = <<passed + 1>>
    BY <1>3 DEF Consecutive
  <2>0. /\ 0 \in Int /\ Start \in Int /\ passed \in Int /\ passed + 1 \in Int
        /\ 0 <= passed /\ Start <= passed /\ passed <= passed + 1
    BY <1>3, <1>4
  <2>4. Consecutive(0, passed) \o Consecutive(passed, passed + 1) = Consecutive(0, passed + 1)
    BY <2>0, ConsecutiveJoin, Zenon
  <2>5. Consecutive(Start, passed) \o Consecutive(passed, passed + 1) = Consecutive(Start, passed + 1)
    BY <2>0, ConsecutiveJoin, Zenon
  <2>6. Chars!Span(passed, passed') = Consecutive(passed, passed + 1)
    BY <1>3, <2>1, SpanFacts DEF SpanIs
  <2> QED
    BY <1>1, <1>2, <1>5, <1>6, <2>1, <2>2, <2>3, <2>4, <2>5, <2>6
<1>7. CASE passed = total
  <2>1. passed' = passed
    BY <1>2, <1>3, <1>7
  <2>2. Answered = <<>>
    BY <1>3, <1>7 DEF Answered, Chars!Left
  <2>3. Chars!Span(passed, passed') = <<>>
    BY <1>3, <2>1 DEF Chars!Span
  <2>4. Consecutive(0, passed) \in Seq(Int) /\ Consecutive(Start, passed) \in Seq(Int)
    BY <1>3, <1>4, ConsecutiveFacts
  <2> QED
    BY <1>1, <1>2, <1>5, <1>7, <2>1, <2>2, <2>3, <2>4
<1> QED
  BY <1>3, <1>6, <1>7

\* A line ends at a newline or at the end of the text.
LEMMA EndsLineFacts ==
  ASSUME IInv, Answer
  PROVE  EndsLine(Answered) <=> passed = total \/ passed + 1 \in breaks
<1>1. \/ passed < total /\ Answered = <<passed + 1>>
      \/ passed = total /\ Answered = <<>>
  BY AnswerFacts
<1>2. ToSet(<<passed + 1>>) = {passed + 1} /\ ToSet(<<>>) = {}
  BY DEF ToSet
<1>3. total \in Nat /\ passed \in Nat
  BY TypeFacts DEF IInv
<1> QED
  BY <1>1, <1>2, <1>3 DEF EndsLine

\* What _readLine returns: the line without its last unit.
LEMMA LineFacts ==
  ASSUME NEW a \in Nat, NEW b \in Nat, a <= b
  PROVE  /\ Line(Consecutive(a, b)) = IF a < b THEN Consecutive(a, b - 1) ELSE <<>>
         /\ Line(Consecutive(a, b)) = <<>> <=> ~(a < b - 1)
         /\ ~(a < b - 1) => LinesBetween(a, b) = {}
         /\ a < b - 1 => LinesBetween(a, b) = {Line(Consecutive(a, b))}
                         /\ Line(Consecutive(a, b)) = Consecutive(a, b - 1)
<1>1. CASE a = b
  <2>1. Consecutive(a, b) = <<>>
    BY <1>1, ConsecutiveEmpty
  <2> QED
    BY <1>1, <2>1 DEF Line, LinesBetween
<1>2. CASE a < b
  <2>1. Len(Consecutive(a, b)) = b - a /\ Consecutive(a, b) # <<>>
    <3>1. Consecutive(a, b) \in Seq(Int) /\ Len(Consecutive(a, b)) = b - a
      BY ConsecutiveFacts
    <3> QED
      BY <1>2, <3>1
  <2>2. SubSeq(Consecutive(a, b), 1, b - a - 1) = Consecutive(a + 1 - 1, a + (b - a - 1))
    <3>1. /\ a \in Int /\ b \in Int /\ 1 \in Int /\ b - a - 1 \in Int
          /\ 1 <= 1 /\ 1 - 1 <= b - a - 1 /\ b - a - 1 <= b - a
      BY <1>2
    <3> QED
      BY <3>1, ConsecutivePart, Zenon
  <2>3. Line(Consecutive(a, b)) = Consecutive(a, b - 1)
    <3>1. a + 1 - 1 = a /\ a + (b - a - 1) = b - 1 /\ (b - a) - 1 = b - a - 1
      OBVIOUS
    <3> QED
      BY <2>1, <2>2, <3>1 DEF Line, Front
  <2>4. Consecutive(a, b - 1) \in Seq(Int) /\ Len(Consecutive(a, b - 1)) = b - 1 - a
    <3>1. a \in Int /\ b - 1 \in Int /\ a <= b - 1
      BY <1>2
    <3> QED
      BY <3>1, ConsecutiveFacts, Zenon
  <2>5. Consecutive(a, b - 1) = <<>> <=> ~(a < b - 1)
    BY <1>2, <2>4
  <2> QED
    BY <1>2, <2>3, <2>5 DEF LinesBetween
<1> QED
  BY <1>1, <1>2

-----------------------------------------------------------------------------
(* Steps that move no unit and no line.                                    *)

Still == UNCHANGED <<total, breaks, passed, got, buffer, received, lines, failed>>

LEMMA SameLines ==
  ASSUME total' = total, breaks' = breaks
  PROVE  \A k : LinesIn(k)' = LinesIn(k)
BY DEF LinesIn, Ends, OneLine, Chars!Span

LEMMA StillKeeps ==
  ASSUME IInv, Still
  PROVE  Reading' /\ Ordered' /\ Whole'
<1>1. Start' = Start /\ Sent' = Sent /\ breaks' = breaks /\ failed' = failed /\ total' = total
  BY DEF Still, Start, Sent
<1>2. Reading'
  BY <1>1 DEF Still, IInv, Reading
<1>3. Ordered'
  BY <1>1 DEF IInv, Ordered, InOrder
<1>4. LinesIn(Start)' = LinesIn(Start)
  BY <1>1, SameLines DEF LinesIn, Ends, OneLine, Chars!Span
<1>5. Whole'
  BY <1>1, <1>4 DEF IInv, Whole
<1> QED
  BY <1>2, <1>3, <1>5

LEMMA TypesStill ==
  ASSUME TypeOK, Still,
         want' \in {Chars!Idle, 1}, method' \in Methods \cup {"none"},
         pc' \in {"line", "block", "nested", "after"},
         lines # <<>> => method' = "readLines", pc' # "line" => method' = "forEach",
         outcome' \in {"value", "stop", "threw"}
  PROVE  TypeOK'
BY DEF TypeOK, Still, Units, Methods

LEMMA InvokeKeeps ==
  ASSUME IInv, NEW m \in Methods, Invoke(m)
  PROVE  IInv'
<1>1. Still /\ lines = <<>>
  BY DEF IInv, Framed, Invoke, Still, streamVars
<1>2. TypeOK'
  BY <1>1, TypesStill DEF IInv, TypeOK, Invoke, streamVars
<1>3. Framed'
  BY DEF Invoke, Framed, Methods
<1> QED
  BY <1>1, <1>2, <1>3, StillKeeps DEF IInv

LEMMA AskKeeps ==
  ASSUME IInv, Ask
  PROVE  IInv'
<1>1. Still
  BY DEF Ask, Chars!Begin, callVars, Still
<1>2. TypeOK'
  BY <1>1, TypesStill DEF IInv, TypeOK, Ask, callVars
<1>3. Framed'
  BY DEF Ask, Framed, callVars
<1> QED
  BY <1>1, <1>2, <1>3, StillKeeps DEF IInv

LEMMA BlockKeeps ==
  ASSUME IInv, BlockReads \/ BlockReturns \/ BlockThrows
  PROVE  IInv'
<1>1. pc \in {"block", "after"} /\ buffer = <<>> /\ want = Chars!Idle
  BY DEF BlockReads, BlockReturns, BlockThrows, IInv, Framed
<1>2. method = "forEach" /\ lines = <<>>
  BY <1>1 DEF IInv, TypeOK
<1>3. Still /\ want' = want
  BY <1>1, <1>2 DEF BlockReads, BlockReturns, BlockThrows, Return, Fresh, streamVars, Still
<1>4. \/ method' = "forEach" /\ pc' \in {"nested", "line"} /\ outcome' = outcome
      \/ method' = "none" /\ pc' = "line" /\ outcome' = "threw"
  BY <1>2 DEF BlockReads, BlockReturns, BlockThrows, Return
<1>5. TypeOK'
  BY <1>1, <1>2, <1>3, <1>4, TypesStill DEF IInv, TypeOK, Methods
<1>6. Framed'
  BY <1>1, <1>2, <1>3, <1>4 DEF Framed, Still
<1> QED
  BY <1>3, <1>5, <1>6, StillKeeps DEF IInv

-----------------------------------------------------------------------------
(* Steps that move a unit or a line.                                       *)

LEMMA MidLineKeeps ==
  ASSUME IInv, MidLine
  PROVE  IInv'
<1>1. Answer /\ ~EndsLine(Answered)
  BY DEF MidLine
<1>2. /\ total \in Nat /\ passed \in Nat /\ passed < total /\ passed' = passed + 1
      /\ passed + 1 \notin breaks
      /\ buffer' = Consecutive(Start, passed + 1)
      /\ got' = Consecutive(0, passed + 1)
      /\ total' = total /\ breaks' = breaks /\ want' = Chars!Idle
      /\ method # "none" /\ pc \in {"line", "nested"}
  BY <1>1, AnswerFacts, EndsLineFacts, TypeFacts DEF MidLine, IInv
<1>3. Start \in Nat /\ Start <= passed
  BY StartFacts
<1>4. Len(buffer') = (passed + 1) - Start /\ buffer' \in Seq(1 .. total) /\ got' \in Seq(1 .. total)
  <2>1. /\ Start \in Int /\ 0 \in Int /\ passed + 1 \in Int
        /\ Start <= passed + 1 /\ 0 <= passed + 1
    BY <1>2, <1>3
  <2>2. /\ \A x \in Start + 1 .. passed + 1 : x \in 1 .. total
        /\ \A x \in 0 + 1 .. passed + 1 : x \in 1 .. total
    BY <1>2, <1>3
  <2>3. Len(Consecutive(Start, passed + 1)) = (passed + 1) - Start
    BY <2>1, ConsecutiveFacts, Zenon
  <2>4. Consecutive(Start, passed + 1) \in Seq(1 .. total)
    BY <2>1, <2>2, ConsecutiveOf, Zenon
  <2>5. Consecutive(0, passed + 1) \in Seq(1 .. total)
    BY <2>1, <2>2, ConsecutiveOf, Zenon
  <2> QED
    BY <1>2, <2>3, <2>4, <2>5, Zenon
<1>5. Start' = Start
  <2>1. Start' = passed' - Len(buffer')
    BY DEF Start
  <2> QED
    BY <1>2, <1>3, <1>4, <2>1
<1>6. Sent' = Sent /\ failed' = failed
  BY DEF MidLine, Sent
<1>7. TypeOK'
  BY <1>2, <1>4 DEF MidLine, IInv, TypeOK, Units
<1>8. Framed'
  BY <1>2 DEF MidLine, Framed
<1>9. Reading'
  <2>1. breaks \cap (Start + 1 .. passed + 1) = {}
    <3>1. \A x \in Start + 1 .. passed + 1 : x \in Start + 1 .. passed \/ x = passed + 1
      BY <1>2, <1>3
    <3> QED
      BY <1>2, <3>1 DEF IInv, Reading
  <2>2. Len(buffer') <= passed'
    BY <1>2, <1>3, <1>4
  <2> QED
    BY <1>2, <1>5, <2>1, <2>2 DEF Reading
<1>10. Ordered'
  BY <1>2, <1>5, <1>6 DEF IInv, Ordered, InOrder
<1>11. LinesIn(Start)' = LinesIn(Start)
  BY <1>2, <1>5 DEF LinesIn, Ends, OneLine, Chars!Span
<1>12. Whole'
  BY <1>2, <1>5, <1>6, <1>11 DEF IInv, Whole
<1> QED
  BY <1>7, <1>8, <1>9, <1>10, <1>12 DEF IInv

LEMMA SentFacts ==
  ASSUME TypeOK
  PROVE  /\ Sent \in Seq(Texts)
         /\ \A i \in DOMAIN received : i \in DOMAIN Sent /\ Sent[i] = received[i]
         /\ lines = <<>> => Sent = received
<1>1. received \in Seq(Texts) /\ lines \in Seq(Texts)
  BY TypeFacts
<1> QED
  BY <1>1 DEF Sent

LEMMA ReadThrowsKeeps ==
  ASSUME IInv, ReadThrows
  PROVE  IInv'
<1>1. want = 1 /\ method # "none"
  BY DEF ReadThrows, Chars!Throw, Chars!Idle, IInv, TypeOK, Framed
<1>2. /\ total \in Nat /\ passed \in Nat /\ passed <= total
      /\ got' = got /\ total' = total /\ breaks' = breaks /\ want' = Chars!Idle
      /\ passed' \in passed .. total /\ passed' - passed < 1
  BY <1>1, TypeFacts DEF ReadThrows, Chars!Throw, IInv
<1>3. passed' = passed
  <2>1. \A p \in passed .. total : p - passed < 1 => p = passed
    BY <1>2
  <2> QED
    BY <1>2, <2>1, Zenon
<1>4. /\ method' = "none" /\ pc' = "line" /\ buffer' = <<>> /\ lines' = <<>>
      /\ outcome' \in {"value", "threw"} /\ failed' /\ failed' \in BOOLEAN /\ received' = received
  BY DEF ReadThrows, Return
<1>5. Start' = passed
  BY <1>2, <1>3, <1>4 DEF Start
<1>6. TypeOK'
  BY <1>2, <1>3, <1>4 DEF IInv, TypeOK, Units
<1>7. Framed'
  BY <1>2, <1>4 DEF Framed
<1>8. Reading'
  <2>1. Consecutive(passed, passed) = <<>> /\ passed + 1 .. passed = {}
    BY <1>2, ConsecutiveEmpty
  <2> QED
    BY <1>2, <1>3, <1>4, <1>5, <2>1 DEF IInv, Reading
<1>9. Sent' = received
  BY <1>4, TypeFacts DEF Sent, IInv
<1>10. Ordered'
  <2>1. \A i \in DOMAIN received : i \in DOMAIN Sent /\ Sent[i] = received[i]
    BY SentFacts DEF IInv
  <2>2. Start \in Nat /\ Start <= passed
    BY StartFacts
  <2>3. \A i \in DOMAIN received :
          /\ Stretch(received[i]) /\ breaks \cap ToSet(received[i]) = {}
          /\ \A u \in ToSet(received[i]) : u <= Start
    BY <2>1 DEF IInv, Ordered, InOrder
  <2>4. \A i \in DOMAIN received : \A u \in ToSet(received[i]) : u <= passed
    <3> SUFFICES ASSUME NEW i \in DOMAIN received, NEW u \in ToSet(received[i]) PROVE u <= passed
      OBVIOUS
    <3>1. received[i] \in Seq(1 .. total)
      BY TypeFacts DEF IInv, Texts, Units
    <3>2. u \in Int
      BY <3>1, <1>2 DEF ToSet
    <3> QED
      BY <1>2, <2>2, <2>3, <3>2
  <2>5. \A i, j \in DOMAIN received :
          i < j => \A u \in ToSet(received[i]), v \in ToSet(received[j]) : u < v
    BY <2>1 DEF IInv, Ordered, InOrder
  <2> QED
    BY <1>2, <1>5, <1>9, <2>3, <2>4, <2>5 DEF Ordered, InOrder
<1>11. Whole'
  BY <1>4 DEF Whole
<1> QED
  BY <1>6, <1>7, <1>8, <1>10, <1>11 DEF IInv

\* The end of a line: what the methods have is what they had, and the line.
LEMMA EndOfLineFacts ==
  ASSUME IInv, EndOfLine
  PROVE  /\ buffer' = <<>> /\ failed' = failed
         /\ \E line \in Units :
              /\ line = Line(Consecutive(Start, passed'))
              /\ AfterLine(line)
              /\ Sent' = IF line = <<>> THEN Sent ELSE Append(Sent, line)
<1>1. Answer /\ EndsLine(Answered) /\ failed' = failed
  BY DEF EndOfLine
<1> DEFINE p == passed'
           line == Line(Consecutive(Start, p))
<1>2. total \in Nat /\ p \in Nat /\ p <= total /\ Start \in Nat /\ Start <= p
  BY <1>1, AnswerFacts, StartFacts, TypeFacts DEF IInv
<1>3. AfterLine(line)
  BY <1>1, AnswerFacts DEF EndOfLine
<1>4. line \in Units
  <2> HIDE DEF p
  <2>1. CASE Start < p
    <3>1. line = Consecutive(Start, p - 1)
      BY <1>2, <2>1, LineFacts
    <3>2. /\ Start \in Int /\ p - 1 \in Int /\ Start <= p - 1
          /\ \A x \in Start + 1 .. p - 1 : x \in 1 .. total
      BY <1>2, <2>1
    <3>3. Consecutive(Start, p - 1) \in Seq(1 .. total)
      BY <3>2, ConsecutiveOf, Zenon
    <3> QED
      BY <3>1, <3>3 DEF Units
  <2>2. CASE ~(Start < p)
    <3>1. line = <<>>
      BY <1>2, <2>2, LineFacts
    <3> QED
      BY <3>1 DEF Units
  <2> QED
    BY <2>1, <2>2
<1> HIDE DEF line
<1>5. received \in Seq(Texts) /\ lines \in Seq(Texts) /\ (line # <<>> => line \in Texts)
  BY <1>4, TypeFacts DEF IInv, Texts
<1>6. lines # <<>> => method = "readLines" /\ pc = "line"
  BY DEF IInv, TypeOK
<1>7. ASSUME lines = <<>>, lines' = <<>>, Receives(line)
      PROVE  Sent' = IF line = <<>> THEN Sent ELSE Append(Sent, line)
  BY <1>5, <1>7 DEF Receives, Sent
<1>8. buffer' = <<>> /\ Sent' = IF line = <<>> THEN Sent ELSE Append(Sent, line)
  <2>1. CASE /\ pc = "nested"
             /\ Receives(line)
             /\ pc' = "after" /\ buffer' = <<>>
             /\ UNCHANGED <<method, lines, outcome>>
    BY <1>6, <1>7, <2>1
  <2>2. CASE /\ pc = "line" /\ method \in {"readLine", "next"}
             /\ Receives(line)
             /\ Return(IF method = "next" /\ ~Continues(line) THEN "stop" ELSE "value")
    BY <1>6, <1>7, <2>2 DEF Return
  <2>3. CASE /\ pc = "line" /\ method \in Loops /\ Continues(line)
             /\ IF method = "readLines"
                THEN lines' = Append(lines, line) /\ UNCHANGED received
                ELSE Receives(line) /\ UNCHANGED lines
             /\ pc' = (IF method = "forEach" THEN "block" ELSE "line")
             /\ buffer' = Fresh
             /\ UNCHANGED <<method, outcome>>
    <3>1. line # <<>>
      BY <2>3 DEF Continues
    <3>2. CASE method = "readLines"
      <4>1. received \o Append(lines, line) = Append(received \o lines, line)
        BY <1>5, <3>1
      <4> QED
        BY <2>3, <3>1, <3>2, <4>1 DEF Sent, Fresh
    <3>3. CASE method # "readLines"
      BY <1>6, <1>7, <2>3, <3>3 DEF Fresh
    <3> QED
      BY <3>2, <3>3
  <2>4. CASE /\ pc = "line" /\ method \in Loops /\ ~Continues(line)
             /\ received' = received \o lines
             /\ Return("value")
    <3>1. line = <<>>
      BY <1>4, <2>4 DEF Continues, Units
    <3>2. Sent' = Sent
      BY <1>5, <2>4 DEF Sent, Return
    <3> QED
      BY <2>4, <3>1, <3>2 DEF Return
  <2> QED
    BY <1>3, <2>1, <2>2, <2>3, <2>4 DEF AfterLine
<1> QED
  BY <1>1, <1>3, <1>4, <1>8 DEF line, p

\* One more line in order, all of it read before anything else is.
LEMMA LineComesLast ==
  ASSUME IInv, NEW line \in Texts, NEW p \in Nat, Start <= p,
         line = Consecutive(Start, p - 1), breaks \cap (Start + 1 .. p - 1) = {}
  PROVE  InOrder(Append(Sent, line), p)
<1> DEFINE sent == Append(Sent, line)
<1>1. Start \in Nat /\ total \in Nat
  BY StartFacts, TypeFacts DEF IInv
<1>2. Sent \in Seq(Texts) /\ Len(Sent) \in Nat
  BY SentFacts DEF IInv
<1>3. Start <= p - 1
  <2>1. CASE Start = p
    <3>1. line = <<>>
      BY <1>1, <2>1 DEF Consecutive
    <3> QED
      BY <3>1 DEF Texts
  <2> QED
    BY <1>1, <2>1
<1>4. Stretch(line) /\ ToSet(line) = Start + 1 .. p - 1
  <2>1. Start \in Int /\ p - 1 \in Int
    BY <1>1
  <2> QED
    BY <1>3, <2>1, StretchFacts, ToSetFacts, Zenon
<1>5. /\ DOMAIN sent = 1 .. Len(Sent) + 1 /\ DOMAIN Sent = 1 .. Len(Sent)
      /\ sent[Len(Sent) + 1] = line
      /\ \A i \in DOMAIN Sent : sent[i] = Sent[i]
  BY <1>2
<1> HIDE DEF sent
<1>6. \A i \in DOMAIN Sent : /\ Stretch(Sent[i]) /\ breaks \cap ToSet(Sent[i]) = {}
                             /\ \A u \in ToSet(Sent[i]) : u \in Nat /\ u <= Start
  <2>1. \A i \in DOMAIN Sent : \A u \in ToSet(Sent[i]) : u \in Nat
    <3> SUFFICES ASSUME NEW i \in DOMAIN Sent, NEW u \in ToSet(Sent[i]) PROVE u \in Nat
      OBVIOUS
    <3>1. Sent[i] \in Seq(1 .. total)
      BY <1>2 DEF Texts, Units
    <3> QED
      BY <3>1, <1>1 DEF ToSet
  <2> QED
    BY <2>1 DEF IInv, Ordered, InOrder
<1>7. ASSUME NEW i \in DOMAIN sent
      PROVE  /\ Stretch(sent[i]) /\ breaks \cap ToSet(sent[i]) = {}
             /\ \A u \in ToSet(sent[i]) : u <= p
  <2>1. CASE i = Len(Sent) + 1
    <3>1. \A u \in Start + 1 .. p - 1 : u <= p
      BY <1>1
    <3> QED
      BY <1>4, <1>5, <2>1, <3>1
  <2>2. CASE i \in DOMAIN Sent
    <3>1. \A u \in Nat : u <= Start => u <= p
      BY <1>1
    <3> QED
      BY <1>5, <1>6, <2>2, <3>1
  <2> QED
    BY <1>2, <1>5, <2>1, <2>2
<1>8. ASSUME NEW i \in DOMAIN sent, NEW j \in DOMAIN sent, i < j,
             NEW u \in ToSet(sent[i]), NEW v \in ToSet(sent[j])
      PROVE  u < v
  <2>1. i \in DOMAIN Sent
    BY <1>2, <1>5, <1>8
  <2>2. CASE j = Len(Sent) + 1
    <3>1. u \in Nat /\ u <= Start /\ v \in Start + 1 .. p - 1
      BY <1>4, <1>5, <1>6, <2>1, <2>2
    <3> QED
      BY <1>1, <3>1
  <2>3. CASE j \in DOMAIN Sent
    BY <1>5, <1>8, <2>1, <2>3 DEF IInv, Ordered, InOrder
  <2> QED
    BY <1>2, <1>5, <2>2, <2>3
<1>9. InOrder(sent, p)
  BY <1>7, <1>8, Zenon DEF InOrder
<1> QED
  BY <1>9 DEF sent

\* The ways in which a method goes on after a line.
LEMMA EndOfLineTypes ==
  ASSUME IInv, EndOfLine
  PROVE  TypeOK' /\ Framed'
<1>1. Answer
  BY DEF EndOfLine
<1>2. PICK line \in Units : AfterLine(line)
  BY EndOfLineFacts
<1>3. /\ buffer' = <<>> /\ failed' = failed /\ failed \in BOOLEAN
      /\ received \in Seq(Texts) /\ lines \in Seq(Texts) /\ (line # <<>> => line \in Texts)
      /\ method \in Methods
      /\ lines # <<>> => method = "readLines"
      /\ pc # "line" => method = "forEach"
      /\ outcome \in {"value", "stop", "threw"}
  BY <1>1, AnswerFacts, EndOfLineFacts, TypeFacts DEF IInv, TypeOK, Texts
<1>4. /\ total' = total /\ breaks' = breaks /\ want' = Chars!Idle
      /\ total \in 0 .. MaxUnits /\ breaks \subseteq 1 .. total
      /\ passed' \in 0 .. total /\ got' \in Seq(1 .. total)
  <2>1. /\ total' = total /\ breaks' = breaks /\ want' = Chars!Idle
        /\ got' = Consecutive(0, passed')
        /\ total \in Nat /\ passed \in Nat /\ passed <= total
        /\ (passed < total /\ passed' = passed + 1) \/ (passed = total /\ passed' = passed)
    BY <1>1, AnswerFacts, TypeFacts DEF IInv
  <2>2. passed' \in 0 .. total
    BY <2>1
  <2>3. \A p \in 0 .. total : 0 \in Int /\ p \in Int /\ 0 <= p /\ \A x \in 0 + 1 .. p : x \in 1 .. total
    BY <2>1
  <2>4. \A p \in 0 .. total : Consecutive(0, p) \in Seq(1 .. total)
    BY <2>3, ConsecutiveOf
  <2> QED
    BY <2>1, <2>2, <2>4 DEF IInv, TypeOK
<1>5. /\ received' \in Seq(Texts) /\ lines' \in Seq(Texts)
      /\ lines' # <<>> => method' = "readLines"
      /\ method' \in Methods \cup {"none"} /\ (method' = "none" => lines' = <<>>)
      /\ pc' \in {"line", "block", "after"} /\ (pc' # "line" => method' = "forEach")
      /\ outcome' \in {"value", "stop", "threw"}
  <2>1. Receives(line) => received' \in Seq(Texts)
    BY <1>3 DEF Receives
  <2>2. CASE /\ pc = "nested"
             /\ Receives(line)
             /\ pc' = "after" /\ buffer' = <<>>
             /\ UNCHANGED <<method, lines, outcome>>
    BY <1>3, <2>1, <2>2 DEF Methods
  <2>3. CASE /\ pc = "line" /\ method \in {"readLine", "next"}
             /\ Receives(line)
             /\ Return(IF method = "next" /\ ~Continues(line) THEN "stop" ELSE "value")
    BY <1>3, <2>1, <2>3 DEF Return
  <2>4. CASE /\ pc = "line" /\ method \in Loops /\ Continues(line)
             /\ IF method = "readLines"
                THEN lines' = Append(lines, line) /\ UNCHANGED received
                ELSE Receives(line) /\ UNCHANGED lines
             /\ pc' = (IF method = "forEach" THEN "block" ELSE "line")
             /\ buffer' = Fresh
             /\ UNCHANGED <<method, outcome>>
    <3>1. line \in Texts
      BY <1>3, <2>4 DEF Continues
    <3>2. CASE method = "readLines"
      BY <1>3, <2>4, <3>1, <3>2 DEF Methods
    <3>3. CASE method # "readLines"
      BY <1>3, <2>1, <2>4, <3>3 DEF Methods
    <3> QED
      BY <3>2, <3>3
  <2>5. CASE /\ pc = "line" /\ method \in Loops /\ ~Continues(line)
             /\ received' = received \o lines
             /\ Return("value")
    BY <1>3, <2>5 DEF Return
  <2> QED
    BY <1>2, <2>2, <2>3, <2>4, <2>5 DEF AfterLine
<1>6. TypeOK'
  BY <1>3, <1>4, <1>5 DEF TypeOK, Units, Texts
<1>7. Framed'
  BY <1>3, <1>4, <1>5 DEF Framed
<1> QED
  BY <1>6, <1>7

LEMMA EndOfLineKeeps ==
  ASSUME IInv, EndOfLine
  PROVE  IInv'
<1>1. Answer /\ EndsLine(Answered)
  BY DEF EndOfLine
<1>2. PICK p : p = passed'
  OBVIOUS
<1>3. /\ total \in Nat /\ passed \in Nat /\ passed <= total /\ breaks \subseteq 1 .. total
      /\ p \in Nat /\ p <= total
      /\ Start \in Nat /\ Start <= passed /\ Start <= p
      /\ \/ passed < total /\ p = passed + 1 /\ p \in breaks
         \/ passed = total /\ p = passed
      /\ total' = total /\ breaks' = breaks /\ got' = Consecutive(0, p)
  BY <1>1, <1>2, AnswerFacts, EndsLineFacts, StartFacts, TypeFacts DEF IInv
<1>4. PICK line \in Units :
         /\ line = Line(Consecutive(Start, p))
         /\ Sent' = IF line = <<>> THEN Sent ELSE Append(Sent, line)
  BY <1>2, EndOfLineFacts
<1>5. buffer' = <<>> /\ failed' = failed
  BY EndOfLineFacts
<1>6. Start' = p
  <2>1. Start' = p - Len(<<>>)
    BY <1>2, <1>5, Zenon DEF Start
  <2> QED
    BY <1>3, <2>1
<1>7. Reading'
  <2>1. Consecutive(p, p) = <<>> /\ p + 1 .. p = {}
    BY <1>3, ConsecutiveEmpty
  <2>2. Len(<<>>) <= p /\ breaks \cap {} = {}
    BY <1>3
  <2>3. Reading' <=> /\ got' = Consecutive(0, p) /\ Len(buffer') <= p
                     /\ buffer' = Consecutive(p, p) /\ breaks \cap (p + 1 .. p) = {}
    BY <1>2, <1>3, <1>6 DEF Reading
  <2> QED
    BY <1>3, <1>5, <2>1, <2>2, <2>3
<1>8. breaks \cap (Start + 1 .. p - 1) = {}
  <2>1. \A x \in Start + 1 .. p - 1 : x \in Start + 1 .. passed
    BY <1>3
  <2> QED
    BY <2>1 DEF IInv, Reading
<1>9. Ordered'
  <2>1. CASE line = <<>>
    <3>1. Sent' = Sent
      BY <1>4, <2>1
    <3>2. \A i \in DOMAIN Sent : \A u \in ToSet(Sent[i]) : u <= p
      <4> SUFFICES ASSUME NEW i \in DOMAIN Sent, NEW u \in ToSet(Sent[i]) PROVE u <= p
        OBVIOUS
      <4>1. Sent[i] \in Seq(1 .. total)
        BY SentFacts DEF IInv, Texts, Units
      <4>2. u \in Int
        BY <4>1, <1>3 DEF ToSet
      <4>3. u <= Start
        BY DEF IInv, Ordered, InOrder
      <4> QED
        BY <1>3, <4>2, <4>3
    <3> QED
      BY <1>3, <1>6, <3>1, <3>2 DEF IInv, Ordered, InOrder
  <2>2. CASE line # <<>>
    <3>1. line \in Texts
      BY <2>2 DEF Texts
    <3>2. Start < p - 1 /\ line = Consecutive(Start, p - 1)
      BY <1>3, <1>4, <2>2, LineFacts
    <3>3. InOrder(Append(Sent, line), p)
      BY <1>3, <1>8, <3>1, <3>2, LineComesLast
    <3> QED
      BY <1>3, <1>4, <1>6, <2>2, <3>3 DEF Ordered, InOrder
  <2> QED
    BY <2>1, <2>2
<1>10. Whole'
  <2> SUFFICES ASSUME ~failed PROVE p \in breaks \cup {0, total} /\ ToSet(Sent') = LinesIn(p)
    <3>1. LinesIn(Start)' = LinesIn(p)
      BY <1>3, <1>6 DEF LinesIn, Ends, OneLine, Chars!Span
    <3> QED
      BY <1>3, <1>5, <1>6, <3>1 DEF Whole
  <2>1. Start \in breaks \cup {0, total} /\ ToSet(Sent) = LinesIn(Start)
    BY DEF IInv, Whole
  <2>2. p \in breaks \cup {total}
    BY <1>3
  <2>3. ToSet(Sent') = ToSet(Sent) \cup LinesBetween(Start, p)
    <3>1. CASE line = <<>>
      <4>1. LinesBetween(Start, p) = {}
        BY <1>3, <1>4, <3>1, LineFacts
      <4> QED
        BY <1>4, <3>1, <4>1
    <3>2. CASE line # <<>>
      <4>1. LinesBetween(Start, p) = {line}
        BY <1>3, <1>4, <3>2, LineFacts
      <4>2. line \in Texts /\ Sent \in Seq(Texts)
        BY <3>2, SentFacts DEF Texts, IInv
      <4>3. ToSet(Append(Sent, line)) = ToSet(Sent) \cup {line}
        BY <4>2, ToSetAppend
      <4> QED
        BY <1>4, <3>2, <4>1, <4>3
    <3> QED
      BY <3>1, <3>2
  <2>4. CASE Start < p
    <3>1. Start \in breaks \cup {0}
      BY <1>3, <2>1, <2>4
    <3>2. LinesIn(p) = LinesIn(Start) \cup LinesBetween(Start, p)
      BY <1>3, <1>8, <2>2, <2>4, <3>1, NextLine
    <3> QED
      BY <2>1, <2>2, <2>3, <3>2
  <2>5. CASE Start = p
    <3>1. LinesBetween(Start, p) = {}
      BY <1>3, <2>5 DEF LinesBetween
    <3> QED
      BY <2>1, <2>2, <2>3, <2>5, <3>1
  <2> QED
    BY <1>3, <2>4, <2>5
<1> QED
  BY <1>7, <1>9, <1>10, EndOfLineTypes DEF IInv

-----------------------------------------------------------------------------
(* The theorems.                                                           *)

LEMMA InitHolds == Init => IInv
<1> SUFFICES ASSUME Init PROVE IInv
  OBVIOUS
<1>1. /\ total \in 0 .. MaxUnits /\ breaks \subseteq 1 .. total /\ passed = 0 /\ got = <<>>
      /\ buffer = <<>> /\ lines = <<>> /\ received = <<>> /\ want = Chars!Idle
      /\ total \in Nat /\ Len(<<>>) = 0
  BY UnitsAssumption DEF Init
<1>2. Start = 0 /\ Sent = <<>>
  <2>1. <<>> \o <<>> = <<>>
    BY ConcatEmptySeq, EmptySeq, Zenon
  <2>2. Sent = <<>> \o <<>> /\ Start = 0 - Len(<<>>)
    BY <1>1, Zenon DEF Start, Sent
  <2>3. 0 - Len(<<>>) = 0
    <3>1. 0 - 0 = 0
      OBVIOUS
    <3> QED
      BY <1>1, <3>1, Zenon
  <2> QED
    BY <2>1, <2>2, <2>3, Zenon
<1>3. TypeOK
  <2>1. <<>> \in Seq(1 .. total) /\ <<>> \in Seq(Seq(1 .. total) \ {<<>>}) /\ 0 \in 0 .. total
    BY <1>1
  <2> QED
    BY <1>1, <2>1 DEF TypeOK, Init, Units
<1>4. Framed
  BY <1>1 DEF Framed, Init
<1>5. Reading
  BY <1>1, <1>2, ConsecutiveEmpty DEF Reading
<1>6. Ordered
  BY <1>2 DEF Ordered, InOrder
<1>7. Whole
  <2>1. LinesIn(0) = {} /\ ToSet(<<>>) = {}
    BY <1>1, NoLinesAtStart DEF ToSet
  <2> QED
    BY <1>2, <2>1 DEF Whole
<1> QED
  BY <1>3, <1>4, <1>5, <1>6, <1>7 DEF IInv

LEMMA StepHolds == IInv /\ [Next]_vars => IInv'
<1> SUFFICES ASSUME IInv, [Next]_vars PROVE IInv'
  OBVIOUS
<1>1. CASE UNCHANGED vars
  <2>1. Still
    BY <1>1 DEF vars, streamVars, callVars, Still
  <2>2. TypeOK' /\ Framed'
    BY <1>1 DEF IInv, TypeOK, Framed, Units, vars, streamVars, callVars
  <2> QED
    BY <2>1, <2>2, StillKeeps DEF IInv
<1>2. CASE \E m \in Methods : Invoke(m)
  BY <1>2, InvokeKeeps
<1>3. CASE Ask
  BY <1>3, AskKeeps
<1>4. CASE MidLine
  BY <1>4, MidLineKeeps
<1>5. CASE EndOfLine
  BY <1>5, EndOfLineKeeps
<1>6. CASE BlockReads \/ BlockReturns \/ BlockThrows
  BY <1>6, BlockKeeps
<1>7. CASE ReadThrows
  BY <1>7, ReadThrowsKeeps
<1> QED
  BY <1>1, <1>2, <1>3, <1>4, <1>5, <1>6, <1>7 DEF Next, Step

LEMMA Invariance == Spec => []IInv
BY InitHolds, StepHolds, PTL DEF Spec

\* TypeOK: the stream, the lines and the place in the code stay what they can be.
THEOREM TypeCorrect == Spec => []TypeOK
<1>1. IInv => TypeOK
  BY DEF IInv
<1> QED
  BY <1>1, Invariance, PTL

\* LinesOnce: whatever methods are called, and whatever a block does between two lines
\* of forEach, the lines of the text come to the program whole, once and in order.
THEOREM LinesOnceHolds == Spec => []LinesOnce
<1>1. IInv => LinesOnce
  <2> SUFFICES ASSUME IInv PROVE LinesOnce
    OBVIOUS
  <2> DEFINE all == Append(Sent, buffer)
  <2>1. /\ total \in Nat /\ passed \in Nat /\ passed <= total
        /\ Start \in Nat /\ Start <= passed /\ buffer \in Seq(1 .. total)
        /\ Sent \in Seq(Texts) /\ Len(Sent) \in Nat
    BY TypeFacts, StartFacts, SentFacts DEF IInv
  <2>2. /\ DOMAIN all = 1 .. Len(Sent) + 1 /\ DOMAIN Sent = 1 .. Len(Sent)
        /\ all[Len(Sent) + 1] = buffer
        /\ \A i \in DOMAIN Sent : all[i] = Sent[i]
    BY <2>1
  <2>3. Stretch(buffer) /\ ToSet(buffer) = Start + 1 .. passed
    BY <2>1, StretchFacts, ToSetFacts DEF IInv, Reading
  <2> HIDE DEF all
  <2>4. ASSUME method = "none", ~failed
        PROVE  Len(got) \in breaks \cup {0, total} /\ ToSet(received) = LinesIn(Len(got))
    <3>1. buffer = <<>> /\ lines = <<>>
      BY <2>4 DEF IInv, Framed
    <3>2. Start = passed /\ Sent = received
      BY <3>1, StartFacts, SentFacts DEF IInv
    <3>3. Len(got) = passed
      <4>1. 0 \in Int /\ passed \in Int /\ 0 <= passed /\ passed - 0 = passed
        BY <2>1
      <4>2. Len(Consecutive(0, passed)) = passed - 0
        BY <4>1, ConsecutiveFacts, Zenon
      <4> QED
        BY <4>1, <4>2 DEF IInv, Reading
    <3> QED
      BY <2>4, <3>2, <3>3 DEF IInv, Whole
  <2>5. ASSUME NEW i \in DOMAIN all PROVE Stretch(all[i])
    BY <2>1, <2>2, <2>3 DEF IInv, Ordered, InOrder
  <2>6. ASSUME NEW i \in DOMAIN all, NEW j \in DOMAIN all, i < j,
               NEW u \in ToSet(all[i]), NEW v \in ToSet(all[j])
        PROVE  u < v
    <3>1. i \in DOMAIN Sent
      BY <2>1, <2>2, <2>6
    <3>2. CASE j \in DOMAIN Sent
      BY <2>2, <2>6, <3>1, <3>2 DEF IInv, Ordered, InOrder
    <3>3. CASE j = Len(Sent) + 1
      <4>1. Sent[i] \in Seq(1 .. total)
        BY <2>1, <3>1 DEF Texts, Units
      <4>2. u \in Int /\ u <= Start
        BY <2>1, <2>2, <3>1, <4>1 DEF ToSet, IInv, Ordered, InOrder
      <4>3. v \in Start + 1 .. passed
        BY <2>2, <2>3, <3>3
      <4> QED
        BY <2>1, <4>2, <4>3
    <3> QED
      BY <2>1, <2>2, <3>2, <3>3
  <2>7. ASSUME NEW line \in ToSet(received) PROVE breaks \cap ToSet(line) = {}
    <3>1. PICK i \in DOMAIN received : line = received[i]
      BY DEF ToSet
    <3>2. i \in DOMAIN Sent /\ Sent[i] = line
      BY <3>1, SentFacts DEF IInv
    <3> QED
      BY <3>2 DEF IInv, Ordered, InOrder
  <2> QED
    BY <2>4, <2>5, <2>6, <2>7, Zenon DEF LinesOnce, all, Sent
<1> QED
  BY <1>1, Invariance, PTL

\* StopsAtBlankOrEnd: the loops of readLines, forEach and copy take a blank line and the
\* end of the stream for the end (io-engine.js:124-157), and nothing else.
THEOREM StopsAtBlankOrEndHolds == Spec => StopsAtBlankOrEnd
<1> DEFINE A == (method \in Loops /\ method' = "none" /\ outcome' = "value" /\ ~failed')
                  => (Len(got') = total \/ Blank(Len(got')))
<1>1. IInv /\ [Next]_vars => [A]_vars
  <2> SUFFICES ASSUME IInv, Next, method \in Loops, method' = "none", outcome' = "value", ~failed'
               PROVE  Len(got') = total \/ Blank(Len(got'))
    OBVIOUS
  <2>1. EndOfLine
    <3>1. method # "none" /\ Chars!Idle # 1
      BY DEF Loops, Chars!Idle
    <3>2. ~\E m \in Methods : Invoke(m)
      BY <3>1 DEF Invoke
    <3>3. ~Ask /\ ~MidLine /\ ~BlockReads /\ ~BlockReturns
      BY <3>1 DEF Ask, MidLine, BlockReads, BlockReturns, callVars
    <3>4. ~ReadThrows /\ ~BlockThrows
      BY DEF ReadThrows, BlockThrows, Return
    <3> QED
      BY <3>2, <3>3, <3>4 DEF Next, Step
  <2>2. PICK p : p = passed'
    OBVIOUS
  <2>3. /\ total \in Nat /\ passed \in Nat /\ passed <= total /\ p \in Nat
        /\ Start \in Nat /\ Start <= p
        /\ \/ passed < total /\ p = passed + 1 /\ p \in breaks
           \/ passed = total /\ p = passed
        /\ got' = Consecutive(0, p)
    BY <2>1, <2>2, AnswerFacts, EndsLineFacts, StartFacts, TypeFacts DEF IInv, EndOfLine
  <2>4. Len(got') = p
    <3>1. 0 \in Int /\ p \in Int /\ 0 <= p /\ p - 0 = p
      BY <2>3
    <3>2. Len(Consecutive(0, p)) = p - 0
      BY <3>1, ConsecutiveFacts, Zenon
    <3> QED
      BY <2>3, <3>1, <3>2
  <2>5. PICK line \in Units : line = Line(Consecutive(Start, p)) /\ AfterLine(line)
    BY <2>1, <2>2, EndOfLineFacts
  <2>6. line = <<>>
    <3>1. ~Continues(line)
      BY <2>5 DEF AfterLine, Loops
    <3> QED
      BY <3>1 DEF Continues, Units
  <2>7. ~(Start < p - 1)
    BY <2>3, <2>5, <2>6, LineFacts
  <2>8. ~failed
    BY <2>1 DEF EndOfLine
  <2>9. Start \in breaks \cup {0, total}
    BY <2>8 DEF IInv, Whole
  <2>10. CASE passed < total
    <3>1. Start = p - 1 /\ p - 1 \in breaks \cup {0}
      BY <2>3, <2>7, <2>9, <2>10, StartFacts
    <3> QED
      BY <2>3, <2>4, <2>10, <3>1 DEF Blank
  <2>11. CASE passed = total
    BY <2>3, <2>4, <2>11
  <2> QED
    BY <2>3, <2>10, <2>11
<1>2. Spec => [][A]_vars
  BY <1>1, Invariance, PTL DEF Spec
<1> QED
  BY <1>2 DEF StopsAtBlankOrEnd
=============================================================================
