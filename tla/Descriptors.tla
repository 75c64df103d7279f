---------------------------- MODULE Descriptors ----------------------------
(***************************************************************************)
(* The process's table of file descriptors, as the native modules use it:  *)
(* open, pipe, dup, dup2 and close.  The kernel is not part of the         *)
(* repository; these operators say what its calls do to the table, in the  *)
(* cases that io-engine.cc, file-engine.cc and os-engine.cc can meet.      *)
(*                                                                         *)
(* A table is a function from the descriptors in use to open file          *)
(* descriptions.  A call that makes a descriptor takes the LOWEST unused   *)
(* number, which is what makes a stale number dangerous: the next open     *)
(* may hand it out again.  -1 is the kernel's (and the code's) "none".     *)
(***************************************************************************)
EXTENDS Integers, FiniteSetsExt

CONSTANT MaxFd      \* the limit on descriptors of a process (OPEN_MAX)

ASSUME MaxFdAssumption == MaxFd \in Nat \ {0}

Fd == 0 .. MaxFd - 1

Unused(t) == Fd \ DOMAIN t

\* Descriptor f now denotes description d.
Bind(t, f, d) == [g \in DOMAIN t \cup {f} |-> IF g = f THEN d ELSE t[g]]

\* open(2), and the common part of dup and pipe: the new table and the
\* descriptor, -1 when the table is full (EMFILE).
Install(t, d) ==
  IF Unused(t) = {}
  THEN [tab |-> t, fd |-> -1]
  ELSE [tab |-> Bind(t, Min(Unused(t)), d), fd |-> Min(Unused(t))]

\* close(2) of a set of descriptors; one that is not in use is EBADF.
CloseAll(t, S) == [g \in DOMAIN t \ S |-> t[g]]

\* dup(2): a second descriptor of the same description, or -1.
Dup(t, f) == IF f \in DOMAIN t THEN Install(t, t[f]) ELSE [tab |-> t, fd |-> -1]

\* dup2(2): nothing happens when from is not in use (EBADF).
Dup2(t, from, to) == IF from \in DOMAIN t THEN Bind(t, to, t[from]) ELSE t

\* pipe(2) with read end r and write end w.  When it fails (EMFILE) it does
\* not write its argument: the caller's array keeps whatever was in it.
Pipe(t, r, w, garbage) ==
  LET rd == Install(t, r)
      wr == Install(rd.tab, w)
  IN  IF rd.fd = -1 \/ wr.fd = -1
      THEN [tab |-> t, read |-> garbage[1], write |-> garbage[2]]
      ELSE [tab |-> wr.tab, read |-> rd.fd, write |-> wr.fd]
=============================================================================
