-------------------------- MODULE IOTransferProofs --------------------------
(***************************************************************************)
(* The invariants of IOTransfer, for any size of the source, the memory    *)
(* and a size_t.                                                           *)
(***************************************************************************)
EXTENDS IOTransfer, SequenceTheorems, TLAPS

-----------------------------------------------------------------------------
(* int and size_t.                                                         *)

\* Numbers that a size_t can hold survive the conversion.
LEMMA SizeTIdentity ==
  ASSUME NEW i \in 0 .. SizeMax
  PROVE  SizeT(i) = i
BY SizesAssumption DEF SizeT

\* -1 becomes the largest size_t.
LEMMA SizeTMinusOne == SizeT(-1) = SizeMax
BY SizesAssumption DEF SizeT

\* The range check (io-engine.cc:63) does its work for offsets in the memory.
LEMMA TooSmallIsRight ==
  ASSUME NEW o \in 0 .. BytesLength, NEW len \in -1 .. BytesLength + 1
  PROVE  ~TooSmall(o, len) => o + len <= BytesLength
<1>1. SizeT(BytesLength - o) = BytesLength - o
  BY SizeTIdentity, SizesAssumption
<1>2. CASE len = -1
  BY <1>2, SizeTMinusOne, SizesAssumption
<1>3. CASE len >= 0 /\ len <= SizeMax
  <2>1. SizeT(len) = len
    BY <1>3, SizeTIdentity, SizesAssumption
  <2> QED
    BY <1>1, <2>1, SizesAssumption DEF TooSmall
<1> QED
  BY <1>2, <1>3, SizesAssumption

-----------------------------------------------------------------------------
(* The inductive invariant, action by action.                              *)

LEMMA InitHolds == Init => IInv
<1> SUFFICES ASSUME Init PROVE IInv
  OBVIOUS
<1>1. Blank \in [1 .. BytesLength -> 0 .. FileSize]
  BY SizesAssumption DEF Blank
<1>2. TypeOK
  <2>1. taken \in 0 .. FileSize /\ count \in 0 .. taken /\ length \in -1 .. BytesLength + 1
    BY SizesAssumption DEF Init
  <2>2. offset \in 0 .. MaxOffset + MaxFrom
    BY SizesAssumption DEF Init
  <2>3. sink \in Seq(1 .. FileSize)
    BY DEF Init
  <2> QED
    BY <1>1, <2>1, <2>2, <2>3 DEF Init, TypeOK
<1>3. RefusesWhatDoesNotFit /\ Framed
  BY SizesAssumption DEF Init, RefusesWhatDoesNotFit, Framed
<1>4. ReadExact
  BY DEF Init, ReadExact
<1>5. CopyConserves
  BY DEF Init, CopyConserves, InFlight, ToSet
<1> QED
  BY <1>2, <1>3, <1>4, <1>5 DEF IInv

\* Beginning a loop of readInto: memory is `mem', and nothing is in flight.
LEMMA EnterFacts ==
  ASSUME IInv, NEW m \in {"readInto", "copy"}, NEW o \in 0 .. MaxOffset + MaxFrom,
         NEW len \in -1 .. BytesLength + 1,
         NEW mem \in [1 .. BytesLength -> 0 .. FileSize],
         o <= BytesLength => o + len <= BytesLength,
         m = "copy" => o = 0 /\ len = BytesLength,
         Enter(m, o, len, mem)
  PROVE  RefusesWhatDoesNotFit' /\ ReadExact' /\ Framed' /\ InFlight' = {}
<1>1. RefusesWhatDoesNotFit' /\ Framed'
  BY DEF Enter, RefusesWhatDoesNotFit, Framed
<1>2. ReadExact'
  BY DEF Enter, ReadExact
<1>3. InFlight' = {}
  BY DEF Enter, InFlight, IInv, TypeOK
<1> QED
  BY <1>1, <1>2, <1>3

\* A call begins while no other is under way: bytes do not change hands.
LEMMA BeginPreserves ==
  ASSUME IInv, method = "none", NEW m \in {"readInto", "copy"},
         NEW o \in 0 .. MaxOffset + MaxFrom, NEW len \in -1 .. BytesLength + 1,
         NEW mem \in [1 .. BytesLength -> 0 .. FileSize],
         o <= BytesLength => o + len <= BytesLength,
         m = "copy" => o = 0 /\ len = BytesLength,
         Enter(m, o, len, mem), UNCHANGED <<sink, lost>>
  PROVE  IInv'
<1>1. RefusesWhatDoesNotFit' /\ ReadExact' /\ Framed' /\ InFlight' = {}
  BY EnterFacts
<1>2. TypeOK'
  <2>1. taken \in Nat
    BY SizesAssumption DEF IInv, TypeOK
  <2>3. failed' \in BOOLEAN
    BY Zenon DEF Enter
  <2>4. UNCHANGED <<taken, direct>>
    BY DEF Enter
  <2>2. /\ memory' = mem /\ before' = mem /\ offset' = o /\ length' = len /\ count' = 0
        /\ method' = m /\ pc' = "read"
    BY DEF Enter
  <2> QED
    BY <2>1, <2>2, <2>3, <2>4 DEF IInv, TypeOK
<1>3. InFlight = {}
  BY DEF IInv, Framed, InFlight
<1>4. CopyConserves'
  BY <1>1, <1>3 DEF IInv, CopyConserves, Enter
<1> QED
  BY <1>1, <1>2, <1>4 DEF IInv

LEMMA ReadTurnPreserves ==
  ASSUME IInv, NEW k \in 1 .. BytesLength, ReadTurn(k)
  PROVE  IInv'
<1> USE SizesAssumption DEF IInv, ghosts
<1>1. /\ taken \in Nat /\ count \in 0 .. taken /\ offset \in Nat
      /\ length \in Int /\ k \in Nat \ {0} /\ FileSize \in Nat
      /\ pc = "read" /\ count + k <= length /\ taken + k <= FileSize
  BY DEF TypeOK, ReadTurn, More
<1>2. TypeOK'
  <2>1. memory' = [i \in 1 .. BytesLength |->
                     IF Arrival(i) \in 1 .. k THEN taken + Arrival(i) ELSE memory[i]]
    BY DEF TypeOK, ReadTurn
  <2>2. \A a \in 1 .. k : taken + a \in 0 .. FileSize
    BY <1>1
  <2>3. \A i \in 1 .. BytesLength : memory[i] \in 0 .. FileSize
    BY DEF TypeOK
  <2>4. ASSUME NEW i \in 1 .. BytesLength
        PROVE  (IF Arrival(i) \in 1 .. k THEN taken + Arrival(i) ELSE memory[i])
                 \in 0 .. FileSize
    BY <2>2, <2>3, Zenon
  <2>5. memory' \in [1 .. BytesLength -> 0 .. FileSize]
    BY <2>1, <2>4, Zenon
  <2> QED
    BY <1>1, <2>5 DEF TypeOK, ReadTurn
<1>3. RefusesWhatDoesNotFit' /\ Framed'
  BY DEF ReadTurn, RefusesWhatDoesNotFit, Framed
<1>4. ReadExact'
  <2> SUFFICES ASSUME NEW i \in 1 .. BytesLength
               PROVE  memory'[i] = IF i \in offset + 1 .. offset + (count + k)
                                   THEN taken + k - (count + k) + (i - offset)
                                   ELSE before[i]
    BY <1>2 DEF ReadTurn, ReadExact, TypeOK
  <2>1. memory'[i] = IF i - (offset + count) \in 1 .. k
                     THEN taken + (i - (offset + count)) ELSE memory[i]
    BY DEF ReadTurn, Arrival, TypeOK
  <2>2. memory[i] = IF i \in offset + 1 .. offset + count
                    THEN taken - count + (i - offset) ELSE before[i]
    BY DEF ReadExact, TypeOK
  <2> QED
    BY <1>1, <2>1, <2>2
<1>5. CopyConserves'
  <2>1. InFlight' = InFlight \cup taken + 1 .. taken + k
    BY <1>1 DEF InFlight, ReadTurn
  <2>2. 1 .. taken' = 1 .. taken \cup taken + 1 .. taken + k
    BY <1>1 DEF ReadTurn
  <2>3. 1 .. taken \cap taken + 1 .. taken + k = {}
    BY <1>1
  <2>4. /\ ToSet(sink) \subseteq 1 .. taken
        /\ lost \cup direct \subseteq 1 .. taken
    BY DEF CopyConserves
  <2> QED
    BY <2>1, <2>2, <2>3, <2>4 DEF CopyConserves, ReadTurn
<1> QED
  BY <1>2, <1>3, <1>4, <1>5

LEMMA ReturnPreserves ==
  ASSUME IInv, pc = "read", ReturnCount, failed' \in BOOLEAN
  PROVE  IInv'
<1> USE SizesAssumption DEF IInv
<1>1. taken \in Nat /\ FileSize \in Nat /\ taken <= FileSize /\ count \in 0 .. taken
  BY DEF TypeOK
<1>2. method \in {"readInto", "copy"}
  BY DEF TypeOK, Framed
<1>3. InFlight = taken - count + 1 .. taken
  BY DEF InFlight
<1>4. TypeOK'
  <2>1. direct' \subseteq 1 .. FileSize
    BY <1>1 DEF ReturnCount, TypeOK
  <2> QED
    BY <2>1 DEF ReturnCount, TypeOK
<1>5. RefusesWhatDoesNotFit' /\ Framed' /\ ReadExact'
  BY <1>2 DEF ReturnCount, RefusesWhatDoesNotFit, Framed, ReadExact
<1>6. CopyConserves'
  <2>1. CASE method = "readInto"
    <3>1. direct' = direct \cup InFlight /\ InFlight' = {}
      BY <1>3, <2>1 DEF ReturnCount, InFlight
    <3> QED
      BY <3>1 DEF ReturnCount, CopyConserves
  <2>2. CASE method = "copy"
    <3>1. direct' = direct /\ InFlight' = InFlight
      BY <1>1, <1>3, <2>2 DEF ReturnCount, InFlight
    <3> QED
      BY <3>1 DEF ReturnCount, CopyConserves
  <2> QED
    BY <1>2, <2>1, <2>2
<1> QED
  BY <1>4, <1>5, <1>6

-----------------------------------------------------------------------------
(* One IO_writeInto of copy.                                               *)

\* What a part of memory holds.
LEMMA PartOfMemory ==
  ASSUME TypeOK, NEW a \in 1 .. BytesLength + 1, NEW b \in 0 .. BytesLength, a <= b + 1
  PROVE  LET s == SubSeq(memory, a, b)
         IN  /\ s \in Seq(0 .. FileSize)
             /\ DOMAIN s = 1 .. b - a + 1
             /\ Len(s) = b - a + 1
             /\ \A i \in 1 .. b - a + 1 : s[i] = memory[a + i - 1]
<1> DEFINE s == SubSeq(memory, a, b)
<1>1. \A i \in a .. b : memory[i] \in 0 .. FileSize
  BY SizesAssumption DEF TypeOK
<1>2. /\ s \in Seq(0 .. FileSize)
      /\ Len(s) = IF a <= b THEN b - a + 1 ELSE 0
      /\ \A i \in 1 .. b - a + 1 : s[i] = memory[a + i - 1]
  BY <1>1, SizesAssumption, SubSeqProperties
<1>3. DOMAIN s = 1 .. Len(s)
  BY <1>2, LenProperties
<1>4. Len(s) = b - a + 1
  BY <1>2, SizesAssumption
<1> QED
  BY <1>2, <1>3, <1>4

\* copy's buffer, from place 1 on, holds the bytes in flight in order.
LEMMA BufferInOrder ==
  ASSUME IInv, pc = "write"
  PROVE  /\ taken \in Nat /\ count \in 0 .. BytesLength /\ count <= taken
         /\ \A i \in 1 .. count : memory[i] = taken - count + i
         /\ InFlight = taken - count + 1 .. taken
<1>1. offset = 0 /\ length = BytesLength
  BY DEF IInv, Framed
<1>2. taken \in Nat /\ count \in 0 .. BytesLength /\ count <= taken
  BY <1>1, SizesAssumption DEF IInv, TypeOK
<1>3. ASSUME NEW i \in 1 .. count PROVE memory[i] = taken - count + i
  <2>1. i \in DOMAIN memory /\ i \in 1 .. count
    BY <1>2, SizesAssumption DEF IInv, TypeOK
  <2> QED
    BY <1>1, <1>2, <2>1 DEF IInv, ReadExact
<1> QED
  BY <1>2, <1>3 DEF InFlight

LEMMA CopyWritesPreserves ==
  ASSUME IInv, NEW n \in 0 .. BytesLength, CopyWrites(n)
  PROVE  IInv'
<1> DEFINE part == BytesAt(0, n)
           rest == SubSeq(memory, n + 1, count)
<1>1. /\ taken \in Nat /\ count \in 0 .. BytesLength /\ count <= taken
      /\ \A i \in 1 .. count : memory[i] = taken - count + i
      /\ InFlight = taken - count + 1 .. taken
      /\ n <= count /\ n \in Nat /\ BytesLength \in Nat /\ FileSize \in Nat /\ taken <= FileSize
  BY BufferInOrder, SizesAssumption DEF CopyWrites, IInv, TypeOK
<1>2. Blank \in [1 .. BytesLength -> 0 .. FileSize]
  BY SizesAssumption DEF Blank
<1>3. Enter("copy", 0, BytesLength, Blank)
  BY DEF CopyWrites
<1>4. RefusesWhatDoesNotFit' /\ ReadExact' /\ Framed' /\ InFlight' = {}
  BY <1>1, <1>2, <1>3, EnterFacts, SizesAssumption
<1>5. /\ part \in Seq(1 .. FileSize) /\ Len(part) = n /\ DOMAIN part = 1 .. n
      /\ \A i \in 1 .. n : part[i] = taken - count + i
  <2>1. part = SubSeq(memory, 1, n)
    BY <1>1 DEF BytesAt
  <2>2. /\ Len(part) = n /\ DOMAIN part = 1 .. n /\ part \in Seq(0 .. FileSize)
        /\ \A i \in 1 .. n : part[i] = memory[1 + i - 1]
    BY <1>1, <2>1, PartOfMemory DEF IInv
  <2>3. \A i \in 1 .. n : part[i] = taken - count + i
    BY <1>1, <2>2
  <2>4. \A i \in 1 .. n : part[i] \in 1 .. FileSize
    BY <1>1, <2>3
  <2> HIDE DEF part
  <2>5. \A i \in 1 .. Len(part) : part[i] \in 1 .. FileSize
    BY <2>2, <2>4
  <2>6. part \in [1 .. Len(part) -> 1 .. FileSize]
    BY <2>2, <2>5, LenProperties
  <2>7. part \in Seq(1 .. FileSize)
    BY <1>1, <2>2, <2>6, SeqDef
  <2> QED
    BY <2>2, <2>3, <2>7
<1>6. ToSet(part) = taken - count + 1 .. taken - count + n
  <2> HIDE DEF part
  <2>1. ToSet(part) = {taken - count + i : i \in 1 .. n}
    BY <1>5 DEF ToSet
  <2>2. ASSUME NEW v \in taken - count + 1 .. taken - count + n
        PROVE  v \in {taken - count + i : i \in 1 .. n}
    <3>1. v - (taken - count) \in 1 .. n /\ v = taken - count + (v - (taken - count))
      BY <1>1
    <3> QED
      BY <3>1
  <2>3. \A i \in 1 .. n : taken - count + i \in taken - count + 1 .. taken - count + n
    BY <1>1
  <2> QED
    BY <2>1, <2>2, <2>3
<1>7. ToSet(rest) = taken - count + n + 1 .. taken
  <2>1. /\ DOMAIN rest = 1 .. count - n
        /\ \A i \in 1 .. count - n : rest[i] = memory[n + i]
    BY <1>1, PartOfMemory DEF IInv
  <2>2. \A i \in 1 .. count - n : rest[i] = taken - count + n + i
    BY <1>1, <2>1
  <2> HIDE DEF rest
  <2>3. ToSet(rest) = {taken - count + n + i : i \in 1 .. count - n}
    BY <2>1, <2>2 DEF ToSet
  <2>4. ASSUME NEW v \in taken - count + n + 1 .. taken
        PROVE  v \in {taken - count + n + i : i \in 1 .. count - n}
    <3>1. /\ v - (taken - count + n) \in 1 .. count - n
          /\ v = taken - count + n + (v - (taken - count + n))
      BY <1>1
    <3> QED
      BY <3>1
  <2>5. \A i \in 1 .. count - n : taken - count + n + i \in taken - count + n + 1 .. taken
    BY <1>1
  <2> QED
    BY <2>3, <2>4, <2>5
<1>8. sink' = sink \o part /\ lost' = lost \cup ToSet(rest) /\ UNCHANGED <<taken, direct>>
  BY <1>3 DEF CopyWrites, Enter
<1> HIDE DEF part, rest
<1>9. InFlight = ToSet(part) \cup ToSet(rest) /\ ToSet(part) \cap ToSet(rest) = {}
  BY <1>1, <1>6, <1>7
<1>10. /\ sink' \in Seq(1 .. FileSize)
       /\ DOMAIN sink' = 1 .. Len(sink) + n
       /\ \A i \in DOMAIN sink : sink'[i] = sink[i]
       /\ \A i \in 1 .. n : sink'[Len(sink) + i] = part[i]
       /\ sink \in Seq(1 .. FileSize) /\ DOMAIN sink = 1 .. Len(sink) /\ Len(sink) \in Nat
  <2>1. /\ sink \in Seq(1 .. FileSize) /\ DOMAIN sink = 1 .. Len(sink)
        /\ Len(sink) \in Nat
    BY LenProperties DEF IInv, TypeOK
  <2>2. /\ sink' \in Seq(1 .. FileSize) /\ Len(sink') = Len(sink) + n
        /\ \A i \in 1 .. Len(sink) + n :
             sink'[i] = IF i <= Len(sink) THEN sink[i] ELSE part[i - Len(sink)]
    BY <1>5, <1>8, <2>1, ConcatProperties
  <2>3. DOMAIN sink' = 1 .. Len(sink) + n
    BY <2>2, LenProperties
  <2>4. \A i \in DOMAIN sink : sink'[i] = sink[i]
    BY <1>1, <2>1, <2>2
  <2>5. ASSUME NEW i \in 1 .. n PROVE sink'[Len(sink) + i] = part[i]
    <3>1. /\ Len(sink) + i \in 1 .. Len(sink) + n /\ ~(Len(sink) + i <= Len(sink))
          /\ Len(sink) + i - Len(sink) = i
      BY <1>1, <2>1
    <3> QED
      BY <2>2, <3>1
  <2> QED
    BY <2>1, <2>2, <2>3, <2>4, <2>5
<1>11. ToSet(sink') = ToSet(sink) \cup ToSet(part)
  <2>1. ASSUME NEW i \in DOMAIN sink' PROVE sink'[i] \in ToSet(sink) \cup ToSet(part)
    <3>1. CASE i \in DOMAIN sink
      BY <1>10, <3>1 DEF ToSet
    <3>2. CASE i \notin DOMAIN sink
      <4>1. i - Len(sink) \in 1 .. n /\ i = Len(sink) + (i - Len(sink))
        BY <1>1, <1>10, <3>2
      <4> QED
        BY <1>5, <1>10, <4>1 DEF ToSet
    <3> QED
      BY <3>1, <3>2
  <2>2. \A i \in DOMAIN sink : i \in DOMAIN sink' /\ sink[i] = sink'[i]
    BY <1>1, <1>10
  <2>3. ASSUME NEW i \in DOMAIN part
        PROVE  \E j \in DOMAIN sink' : part[i] = sink'[j]
    <3>1. i \in 1 .. n /\ n \in Nat /\ Len(sink) \in Nat
      BY <1>1, <1>5, <1>10
    <3>2. Len(sink) + i \in 1 .. Len(sink) + n
      BY <3>1
    <3> QED
      BY <1>10, <3>1, <3>2
  <2>4. ToSet(sink') \subseteq ToSet(sink) \cup ToSet(part)
    BY <2>1 DEF ToSet
  <2>5. ToSet(sink) \subseteq ToSet(sink')
    BY <2>2 DEF ToSet
  <2>6. ToSet(part) \subseteq ToSet(sink')
    BY <2>3 DEF ToSet
  <2> QED
    BY <2>4, <2>5, <2>6
<1>12. TypeOK'
  <2>1. lost' \subseteq 1 .. FileSize
    BY <1>1, <1>7, <1>8 DEF IInv, TypeOK
  <2>2. failed' \in BOOLEAN
    BY <1>3, Zenon DEF Enter
  <2>3. /\ memory' = Blank /\ before' = Blank /\ offset' = 0 /\ length' = BytesLength
        /\ count' = 0 /\ method' = "copy" /\ pc' = "read"
    BY <1>3 DEF Enter
  <2>4. /\ taken' \in 0 .. FileSize /\ direct' \subseteq 1 .. FileSize
        /\ sink' \in Seq(1 .. FileSize)
    BY <1>8, <1>10 DEF IInv, TypeOK
  <2>5. /\ offset' \in 0 .. MaxOffset + MaxFrom /\ length' \in -1 .. BytesLength + 1
        /\ count' \in 0 .. taken'
    BY <1>1, <1>8, <2>3, SizesAssumption
  <2> QED
    BY <1>2, <2>1, <2>2, <2>3, <2>4, <2>5 DEF TypeOK
<1>13. ASSUME NEW i \in DOMAIN sink', NEW j \in DOMAIN sink', i < j
       PROVE  sink'[i] < sink'[j]
  <2>1. /\ i \in Nat /\ j \in Nat /\ Len(sink) \in Nat /\ n \in Nat
        /\ i <= Len(sink) + n /\ j <= Len(sink) + n
    BY <1>1, <1>10
  <2>2. \A k \in DOMAIN sink : sink[k] \in ToSet(sink) /\ sink[k] \in 1 .. taken
    BY DEF ToSet, IInv, CopyConserves
  <2>3. \A k \in DOMAIN sink : sink[k] <= taken - count
    BY <1>1, <2>2 DEF IInv, CopyConserves
  <2>4. CASE j <= Len(sink)
    BY <1>10, <1>13, <2>4 DEF IInv, CopyConserves
  <2>5. CASE i <= Len(sink) /\ j > Len(sink)
    <3>1. i \in DOMAIN sink /\ j - Len(sink) \in 1 .. n /\ j = Len(sink) + (j - Len(sink))
      BY <1>10, <1>13, <2>5
    <3>2. sink'[j] = taken - count + (j - Len(sink))
      BY <1>5, <1>10, <3>1
    <3> QED
      BY <1>1, <1>10, <2>2, <2>3, <3>1, <3>2
  <2>6. CASE i > Len(sink)
    <3>1. /\ i - Len(sink) \in 1 .. n /\ i = Len(sink) + (i - Len(sink))
          /\ j - Len(sink) \in 1 .. n /\ j = Len(sink) + (j - Len(sink))
      BY <1>13, <2>1, <2>6
    <3>2. /\ sink'[i] = taken - count + (i - Len(sink))
          /\ sink'[j] = taken - count + (j - Len(sink))
      BY <1>5, <1>10, <3>1
    <3> QED
      BY <1>1, <1>10, <1>13, <3>2
  <2> QED
    BY <2>1, <2>4, <2>5, <2>6
<1>14. CopyConserves'
  BY <1>4, <1>8, <1>9, <1>11, <1>13 DEF IInv, CopyConserves
<1> QED
  BY <1>4, <1>12, <1>14 DEF IInv

-----------------------------------------------------------------------------
(* The theorems.                                                           *)

LEMMA NextPreserves == IInv /\ [Next]_vars => IInv'
<1> SUFFICES ASSUME IInv, [Next]_vars PROVE IInv'
  OBVIOUS
<1>1. ASSUME NEW o \in 0 .. MaxOffset, NEW len \in -1 .. BytesLength + 1,
             NEW from \in 0 .. MaxFrom, IO_readInto(o, len, from)
      PROVE  IInv'
  <2>1. o + from \in 0 .. MaxOffset + MaxFrom /\ o + from \in Nat
    BY SizesAssumption
  <2>2. o + from <= BytesLength => o + from + len <= BytesLength
    BY <1>1, <2>1, TooSmallIsRight, SizesAssumption DEF IO_readInto
  <2>3. memory \in [1 .. BytesLength -> 0 .. FileSize]
    BY DEF IInv, TypeOK
  <2> QED
    BY <1>1, <2>1, <2>2, <2>3, BeginPreserves DEF IO_readInto
<1>2. CASE Copy
  <2>1. Blank \in [1 .. BytesLength -> 0 .. FileSize]
    BY SizesAssumption DEF Blank
  <2>2. /\ 0 \in 0 .. MaxOffset + MaxFrom /\ BytesLength \in -1 .. BytesLength + 1
        /\ 0 + BytesLength <= BytesLength
    BY SizesAssumption
  <2> QED
    BY <1>2, <2>1, <2>2, BeginPreserves DEF Copy
<1>3. ASSUME NEW k \in 1 .. BytesLength, ReadTurn(k) PROVE IInv'
  BY <1>3, ReadTurnPreserves
<1>4. CASE ReadEnds
  <2>1. failed' \in BOOLEAN
    BY <1>4, Zenon DEF ReadEnds, IInv, TypeOK
  <2> QED
    BY <1>4, <2>1, ReturnPreserves DEF ReadEnds
<1>5. CASE ReadFails
  <2>1. failed' \in BOOLEAN
    BY <1>5, Zenon DEF ReadFails
  <2> QED
    BY <1>5, <2>1, ReturnPreserves DEF ReadFails
<1>6. ASSUME NEW n \in 0 .. BytesLength, CopyWrites(n) PROVE IInv'
  BY <1>6, CopyWritesPreserves
<1>7. CASE UNCHANGED vars
  BY <1>7 DEF vars, frameVars, ghosts, IInv, TypeOK, RefusesWhatDoesNotFit, ReadExact,
              CopyConserves, InFlight, Framed
<1> QED
  BY <1>1, <1>2, <1>3, <1>4, <1>5, <1>6, <1>7 DEF Next

\* The inductive invariant of readInto and copy.
THEOREM Invariance == Spec => []IInv
BY InitHolds, NextPreserves, PTL DEF Spec

\* Counts, places and buffers stay in their bounds.
THEOREM TypeCorrect == Spec => []TypeOK
<1>1. IInv => TypeOK
  BY DEF IInv
<1> QED
  BY <1>1, Invariance, PTL

\* The range check of IO_readInto (io-engine.cc:63) lets nothing pass that does
\* not fit, as long as the offset is in the memory.
THEOREM RefusesWhatDoesNotFitHolds == Spec => []RefusesWhatDoesNotFit
<1>1. IInv => RefusesWhatDoesNotFit
  BY DEF IInv
<1> QED
  BY <1>1, Invariance, PTL

\* IO_readInto puts what it reads, in however many pieces, where the caller
\* wanted it, and nowhere else.
THEOREM ReadExactHolds == Spec => []ReadExact
<1>1. IInv => ReadExact
  BY DEF IInv
<1> QED
  BY <1>1, Invariance, PTL

\* IO.prototype.copy writes every byte once and in order, except for those that
\* a write(2) whose result nobody looks at does not take.
THEOREM CopyConservesHolds == Spec => []CopyConserves
<1>1. IInv => CopyConserves
  BY DEF IInv
<1> QED
  BY <1>1, Invariance, PTL

\* A readInto that comes back short, and a copy that ends, are at the end of the
\* file, or hide that read(2) failed.
THEOREM EndsOnlyAtEndHolds == Spec => EndsOnlyAtEnd
<1> DEFINE A == method # "none" /\ method' = "none" /\ (method = "copy" \/ count < length)
                  => (taken = FileSize \/ failed')
<1>1. IInv /\ [Next]_vars => [A]_vars
  <2> SUFFICES ASSUME IInv, Next, method # "none", method' = "none",
                      method = "copy" \/ count < length
               PROVE  taken = FileSize \/ failed'
    OBVIOUS
  <2>1. ReadEnds \/ ReadFails
    BY DEF Next, IO_readInto, Copy, Enter, ReadTurn, CopyWrites
  <2>2. CASE ReadFails
    BY <2>2 DEF ReadFails
  <2>3. CASE ReadEnds
    <3>1. method = "copy" => count = 0 /\ length = BytesLength
      BY <2>3 DEF ReadEnds, ReturnCount, IInv, TypeOK, Framed
    <3>2. More
      BY <3>1, SizesAssumption DEF More
    <3> QED
      BY <2>3, <3>2 DEF ReadEnds, Eof
  <2> QED
    BY <2>1, <2>2, <2>3
<1>2. Spec => [][A]_vars
  BY <1>1, Invariance, PTL DEF Spec
<1> QED
  BY <1>2 DEF EndsOnlyAtEnd
=============================================================================
