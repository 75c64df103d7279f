------------------------------- MODULE Popen -------------------------------
(***************************************************************************)
(* OS_popenImpl on top of Streams: it saves descriptors 0, 1 and 2 with    *)
(* dup, makes three pipes, puts pipe ends in the place of 0, 1 and 2,      *)
(* forks, and in the parent puts the saved ones back.  In the V8 build it  *)
(* then throws ("popen not yet implemented for V8"): no stream object is   *)
(* made for the pipes, and nothing closes the parent's ends or the saved   *)
(* copies.                                                                 *)
(*                                                                         *)
(* The call runs to its end before any other JavaScript does, and no other *)
(* process can touch this process's table, so it is one action.            *)
(*                                                                         *)
(* The children run next to the program and to each other.  Each is a      *)
(* command that reads its standard input to the end, and ends then:  it    *)
(* waits for everyone who could still write to it.                         *)
(***************************************************************************)
EXTENDS Streams, SequencesExt

CONSTANTS
  GarbageFds,     \* what the uninitialized int[2] of a failed pipe() may hold
  MaxPopens       \* bound on the calls that are explored

ASSUME GarbageAssumption == GarbageFds \subseteq Int /\ GarbageFds # {}
ASSUME MaxPopensAssumption == MaxPopens \in Nat

VARIABLES
  popens,     \* how many calls got as far as fork()
  running,    \* the program has not exited
  children,   \* the children: their tables when they exec, and do they still run?
  degraded    \* ghost: some call began without 0-2 open and nine unused numbers,
              \* or ran out of memory

popenVars == <<fds, descs, io, given, stream, popens, running, children, degraded>>

Std == 0 .. 2

\* What a call needs to save three descriptors and to make three pipes.
Prepared == Std \subseteq DOMAIN fds /\ Cardinality(Unused(fds)) >= 9

PipeEnd(n, access) == [id |-> descs + n, access |-> access]

-----------------------------------------------------------------------------
(* The parts of the call, on tables.                                       *)

(* Mutants *)
BugChildCloses(p)     == {p.in.read, p.in.write, p.out.read, p.err.read, p.err.write}
BugParentLeavesErr(p) == {p.out.read, p.in.write}
BugParentClosesOut(p) == {p.out.read, p.out.write, p.in.write, p.err.write}
BugRedirects(p)       == <<p.out.read, p.err.write, p.in.write>>
BugRestoreTwice(s)    == <<s[1], s[2], s[2]>>

\* dup() of 0, 1 and 2, in that order: the table and where the copies are.
SaveStd(t) ==
  LET a == Dup(t, 0)
      b == Dup(a.tab, 1)
      c == Dup(b.tab, 2)
  IN  [tab |-> c.tab, saved |-> <<a.fd, b.fd, c.fd>>]

\* pipe(infd), pipe(outfd), pipe(errfd); g is what their arrays held before.
MakePipes(t, g) ==
  LET i == Pipe(t,     PipeEnd(0, "RDONLY"), PipeEnd(1, "WRONLY"), g[1])
      o == Pipe(i.tab, PipeEnd(2, "RDONLY"), PipeEnd(3, "WRONLY"), g[2])
      e == Pipe(o.tab, PipeEnd(4, "RDONLY"), PipeEnd(5, "WRONLY"), g[3])
  IN  [tab |-> e.tab, in |-> i, out |-> o, err |-> e]

\* close 0, 1 and 2, then dup2 of the three descriptors in src onto them.
ReplaceStd(t, src) ==
  Dup2(Dup2(Dup2(CloseAll(t, Std), src[1], 0), src[2], 1), src[3], 2)

\* What the child closes before it execs the shell: both ends of every pipe.
ChildCloses(p) == {p.in.read, p.in.write, p.out.read, p.out.write, p.err.read, p.err.write}

\* What the parent closes: the child's ends.
ParentCloses(p) == {p.out.read, p.in.write, p.err.write}

\* Which pipe ends become the child's standard streams.
Redirects(p) == <<p.out.read, p.in.write, p.err.write>>

\* Which saved descriptors go back to 0, 1 and 2 in the parent.
Restores(s) == s

-----------------------------------------------------------------------------
(* The call, up to the fork, from the current table.                       *)
Redirected(g) ==
  LET s == SaveStd(fds)
      p == MakePipes(s.tab, g)
  IN  [tab |-> ReplaceStd(p.tab, Redirects(p)), saved |-> s.saved, pipes |-> p]

\* The call returns to JavaScript by throwing.  forked is FALSE when fork()
\* fails: its -1 takes the parent's branch, and there is no child.
OS_popenImpl(g, forked) ==
  /\ running /\ popens < MaxPopens
  /\ LET r == Redirected(g)
     IN  /\ fds' = CloseAll(ReplaceStd(r.tab, Restores(r.saved)), ParentCloses(r.pipes))
         /\ children' = IF forked
                        THEN Append(children, [tab |-> CloseAll(r.tab, ChildCloses(r.pipes)),
                                               first |-> descs, whole |-> Prepared,
                                               runs |-> TRUE])
                        ELSE children
  /\ descs' = descs + 6
  /\ popens' = popens + 1
  /\ degraded' = (degraded \/ ~Prepared)
  /\ UNCHANGED <<io, given, stream, running>>

\* malloc() fails: "OOM" is thrown with the pipe ends still on 0, 1 and 2.
OS_popenImpl_OOM(g) ==
  /\ running /\ popens < MaxPopens
  /\ fds' = Redirected(g).tab
  /\ descs' = descs + 6
  /\ popens' = popens + 1
  /\ degraded' = TRUE
  /\ UNCHANGED <<io, given, stream, running, children>>

\* os.exit(), quit() or the end: the kernel closes what the program has open.
OS_exit ==
  /\ running /\ running' = FALSE
  /\ fds' = CloseAll(fds, DOMAIN fds)
  /\ UNCHANGED <<descs, io, given, stream, popens, children, degraded>>

\* The open file descriptions that anybody still has.
Open == {fds[f].id : f \in DOMAIN fds}
          \cup UNION {{c.tab[f].id : f \in DOMAIN c.tab} :
                        c \in {k \in Range(children) : k.runs}}

\* The write end of a child's standard input.
Writers(c) == {c.first + 3}

\* A child sees the end of its input and ends.  What one does that was not given its
\* streams is left open.
ChildEnds(i) ==
  /\ children[i].runs
  /\ children[i].whole => Writers(children[i]) \cap Open = {}
  /\ children' = [children EXCEPT ![i].runs = FALSE]
  /\ UNCHANGED <<fds, descs, io, given, stream, popens, running, degraded>>

Garbage == [1 .. 3 -> GarbageFds \X GarbageFds]

\* The uninitialized arrays matter only when the table may fill up.
GarbageNow == IF Prepared THEN {CHOOSE g \in Garbage : TRUE} ELSE Garbage

PopenInit ==
  /\ Init
  /\ popens = 0
  /\ running = TRUE
  /\ children = <<>>
  /\ degraded = FALSE

PopenNext ==
  \/ running /\ Next /\ UNCHANGED <<popens, running, children, degraded>>
  \/ \E g \in GarbageNow, forked \in BOOLEAN : OS_popenImpl(g, forked)
  \/ \E g \in GarbageNow : OS_popenImpl_OOM(g)
  \/ OS_exit
  \/ \E i \in DOMAIN children : ChildEnds(i)

\* The children run on whatever the program does.
PopenSpec ==
  /\ PopenInit /\ [][PopenNext]_popenVars
  /\ WF_popenVars(\E i \in DOMAIN children : ChildEnds(i))

-----------------------------------------------------------------------------
PopenTypeOK ==
  /\ TypeOK
  /\ popens \in 0 .. MaxPopens
  /\ degraded \in BOOLEAN /\ running \in BOOLEAN
  /\ \A i \in DOMAIN children : DOMAIN children[i].tab \subseteq Fd

\* A call that found 0, 1 and 2 open and nine numbers unused leaves every descriptor
\* of the caller what it was, 0, 1 and 2 included.
PreservesCallersFds ==
  [][popens' # popens /\ ~degraded' =>
       \A f \in DOMAIN fds : f \in DOMAIN fds' /\ fds'[f] = fds[f]]_popenVars

\* The price of the throw, exactly: each such call leaves six descriptors
\* that no IO object owns (three saved copies, three pipe ends).
LeaksSixPerCall ==
  running /\ ~degraded =>
    Cardinality(Orphans) = 6 * popens

\* The shell reads the second pipe and writes to the first and the third,
\* as the comments on the dup2 calls say.
Wired(c) ==
  /\ Std \subseteq DOMAIN c.tab
  /\ c.tab[0] = [id |-> c.first + 2, access |-> "RDONLY"]
  /\ c.tab[1] = [id |-> c.first + 1, access |-> "WRONLY"]
  /\ c.tab[2] = [id |-> c.first + 5, access |-> "WRONLY"]

\* A child is wired to its pipes, and keeps no write end of its own standard
\* input (it would never see the end of it) and no read end of its own outputs
\* (it would never get SIGPIPE).  Of the pipes of another child it has, at most,
\* the three ends that the program keeps itself.
ChildHoldsItsEndsOnly ==
  \A i, j \in DOMAIN children :
    LET c == children[i]
        d == children[j]
        ends == {c.tab[f].id - d.first : f \in DOMAIN c.tab}
    IN  c.whole /\ d.whole =>
          IF i = j THEN Wired(c) /\ ends \cap {0, 3, 4} = {}
          ELSE ends \cap {1, 2, 5} = {}

\* No child sees the end of its input while the program runs: the program keeps the
\* write end, and no stream object of it ever closes that.
ChildrenWait ==
  running /\ ~degraded => \A i \in DOMAIN children : children[i].runs

\* Once the program has exited all of them end, although a later child has the
\* write ends of the earlier ones: the last goes first.
ChildrenEnd ==
  ~running /\ ~degraded ~> \A i \in DOMAIN children : ~children[i].runs

\* os-engine.cc:70: "Save stdout" - a call that forks brings descriptor 1
\* back to what it was when the call began.
SavesStdout ==
  [][1 \in DOMAIN fds /\ popens' # popens /\ Cardinality(Unused(fds)) >= 9 =>
       \/ 1 \in DOMAIN fds' /\ fds'[1] = fds[1]
       \/ children' = children]_popenVars
=============================================================================
