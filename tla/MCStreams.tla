----------------------------- MODULE MCStreams -----------------------------
(***************************************************************************)
(* Instance of Streams for TLC: two files and two text streams next to     *)
(* the standard ones, and a table of four descriptors, so that closes and  *)
(* opens reuse every number and the table is also full at times.           *)
(***************************************************************************)
EXTENDS Streams, TLC

MCModes == AllModes

Symmetry == Permutations(FileIOs) \cup Permutations(TextStreams)
=============================================================================
