---------------------------- MODULE MCLineReader ----------------------------
(* Instance of LineReader for TLC: see MCLineReader.cfg for the bounds.    *)
EXTENDS LineReader
=============================================================================
