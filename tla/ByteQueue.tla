----------------------------- MODULE ByteQueue -----------------------------
(***************************************************************************)
(* What a ByteIO promises its users: a first-in first-out queue of bytes,  *)
(* one call at a time.                                                     *)
(***************************************************************************)
EXTENDS Integers, Sequences

VARIABLES
  queue,      \* the bytes that have been written and not been read
  result,     \* the bytes that the last read has returned
  want        \* the read that is under way: a length, Peek, or Idle

queueVars == <<queue, result, want>>

Idle == -1
Peek == -2     \* toByteString()

Init == queue = <<>> /\ result = <<>> /\ want = Idle

\* Some bytes at the end of the queue.
Write ==
  /\ want = Idle
  /\ Len(queue') >= Len(queue)
  /\ SubSeq(queue', 1, Len(queue)) = queue
  /\ UNCHANGED <<result, want>>

Begin == want = Idle /\ want' \in Nat \cup {Peek} /\ UNCHANGED <<queue, result>>

\* The first n bytes leave the queue, or all of them if there are fewer.
Read ==
  /\ want \in Nat
  /\ LET n == IF want > Len(queue) THEN Len(queue) ELSE want
     IN  /\ result' = SubSeq(queue, 1, n)
         /\ queue' = SubSeq(queue, n + 1, Len(queue))
  /\ want' = Idle

\* All bytes are returned, and stay.
PeekAll == want = Peek /\ result' = queue /\ want' = Idle /\ UNCHANGED queue

Next == Write \/ Begin \/ Read \/ PeekAll

Safety == Init /\ [][Next]_queueVars

\* A call that begins ends.
Liveness == WF_queueVars(Read \/ PeekAll)
=============================================================================
