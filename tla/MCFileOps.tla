----------------------------- MODULE MCFileOps ------------------------------
(* Instance of FileOps for TLC: see MCFileOps.cfg for the bound.           *)
EXTENDS FileOps
=============================================================================
