------------------------------ MODULE MCPopen ------------------------------
(***************************************************************************)
(* Instance of Popen for TLC: one file next to the standard streams, two   *)
(* calls, and a table in which two calls just fit: with the file open, the *)
(* second one meets the limit.  An uninitialized descriptor may be none or *)
(* one that is in use.                                                     *)
(***************************************************************************)
EXTENDS Popen

MCModes == {[NoMode EXCEPT !.read = TRUE], [NoMode EXCEPT !.write = TRUE]}

MCGarbageFds == {-1, 3}
=============================================================================
