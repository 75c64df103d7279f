------------------------------- MODULE Binary -------------------------------
(***************************************************************************)
(* The three users of the memory behind Bytes objects: programs with Bytes *)
(* objects of their own, programs with a ByteIO, and transcode().  The     *)
(* memory that a ByteIO works on is reached by nothing but its calls of    *)
(* B_ALLOC and B_COPY, and transcode() works on buffers that nobody else   *)
(* knows yet and on a source that nobody writes to while it runs.  So the  *)
(* steps of the three commute, and no property here is about two of them:  *)
(* a behaviour has steps of one of them only.                              *)
(***************************************************************************)
EXTENDS ByteIO, Bytes, Transcode

VARIABLE part      \* which of the three

binaryVars == <<vars, bytesVars, transcodeVars, part>>

BinaryInit ==
  Init /\ BytesInit /\ TranscodeInit /\ part \in {"ByteIO", "Bytes", "transcode"}

BinaryNext ==
  /\ UNCHANGED part
  /\ \/ part = "ByteIO" /\ Next /\ UNCHANGED <<bytesVars, transcodeVars>>
     \/ part = "Bytes" /\ BytesNext /\ UNCHANGED <<vars, transcodeVars>>
     \/ part = "transcode" /\ TranscodeNext /\ UNCHANGED <<vars, bytesVars>>

\* A read() of a ByteIO, and a call of transcode(), keeps running.
BinarySpec ==
  BinaryInit /\ [][BinaryNext]_binaryVars /\ WF_vars(Loop) /\ WF_transcodeVars(Step)

BinaryTypeOK == TypeOK /\ BytesTypeOK
=============================================================================
