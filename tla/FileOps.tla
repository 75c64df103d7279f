------------------------------- MODULE FileOps ------------------------------
(***************************************************************************)
(* The functions of the file module on a path: mkdirs and touch            *)
(* (lib/file-engine.js), which are sequences of system calls, and the ones *)
(* of file-engine.cc that make one system call, while another process      *)
(* works on the same path.  Part k of the path is what its first k         *)
(* components name; a system call is a step.                               *)
(*                                                                         *)
(* The last part may be a symbolic link: to a file or a directory that     *)
(* nobody else names, or to nothing.  stat() sees what a link leads to.    *)
(***************************************************************************)
EXTENDS Integers

CONSTANTS
  Depth,     \* the number of components of the path
  Times,     \* the times that touch is given, in milliseconds
  Now,       \* the time at which data is written, in seconds
  IntSize    \* how many values an int has

ASSUME DepthAssumption == Depth \in Nat \ {0}
ASSUME TimesAssumption ==
  Times \subseteq Nat /\ Now \in Nat /\ IntSize \in Nat /\ IntSize >= 4 /\ IntSize % 2 = 0

VARIABLES
  tree,      \* what each part is
  inode,     \* of what is at the path
  side,      \* what is at another path, and its inode
  call,      \* "none", "mkdirs", "touch"
  pc,        \* "test", "make", "write", "utime"
  i,         \* of mkdirs
  outcome,   \* how the last call ended: "returned", "threw"
  told,      \* the number that the last call returned, 0 if none
  blocked,   \* ghost: was a part a file, or a link that is no directory, at the start?
  others     \* ghost: what the other process has done since: "made", "removed"

files == <<tree, inode, side>>
vars  == <<files, call, pc, i, outcome, told, blocked, others>>

Parts == 1 .. Depth

\* Does a file hold data?  Its st_mtime, in seconds.
Inode(d, m) == [data |-> d, mtime |-> m]
Fresh(d) == Inode(d, Now)

\* Kinds of a part, and what stat() says of them.
Links == {"toNothing", "toFile", "toDir"}
Kinds == {"dir", "file", "none"} \cup Links
Seen(k) == CASE tree[k] = "toDir"     -> "dir"
             [] tree[k] = "toFile"    -> "file"
             [] tree[k] = "toNothing" -> "none"
             [] OTHER                 -> tree[k]

\* A part can be made where there is nothing, in a directory.
InDirectory(k) == \A j \in Parts : j = k - 1 => tree[j] = "dir"
Makeable(k)    == tree[k] = "none" /\ InDirectory(k)
Empty(k)       == \A j \in Parts : j = k + 1 => tree[j] = "none"

-----------------------------------------------------------------------------
(* Mutants *)
BugLength           == Depth - 1
BugNextIndex        == i + 2
BugDataAfterOpen    == FALSE

\* components.length
Length == Depth

\* components.slice(0, i+1)
Part == i + 1

\* The tests of file-engine.cc.  All of them ask stat(), which follows links: none
\* ever sees one.
Exists(k)      == Seen(k) # "none"
IsDirectory(k) == k \in Parts /\ Seen(k) = "dir"
IsFile(k)      == Seen(k) = "file"
IsLink(k)      == Seen(k) \in Links
LinkExists(k)  == IsFile(k) \/ IsLink(k)

NextIndex == i + 1

\* F_FileIO opens for writing without O_TRUNC.
DataAfterOpen == inode.data

\* touch passes milliseconds on to F_touch, which hands them to utime() as seconds.
Stamp(t) == t

\* JS_date takes an int: what is left of a number in one.
AsInt(n) == ((n + IntSize \div 2) % IntSize) - IntSize \div 2

-----------------------------------------------------------------------------
WellFormed(t) ==
  \A k \in Parts : /\ k > 1 /\ t[k] # "none" => t[k - 1] = "dir"
                   /\ t[k] \in Links => k = Depth

Init ==
  /\ tree \in {t \in [Parts -> Kinds] : WellFormed(t)}
  /\ \E d \in BOOLEAN : inode = Fresh(d) /\ (d => Seen(Depth) = "file")
  /\ side = [kind |-> "none", inode |-> Fresh(FALSE)]
  /\ call = "none" /\ pc = "test" /\ i = 0
  /\ outcome = "returned" /\ told = 0 /\ blocked = FALSE /\ others = {}

Becomes(k, kind, d) ==
  /\ tree' = [tree EXCEPT ![k] = kind]
  /\ inode' = IF k = Depth THEN Fresh(d) ELSE inode

Begin(c) ==
  /\ call = "none"
  /\ call' = c /\ pc' = "test" /\ i' = 0
  /\ blocked' = (\E k \in Parts : tree[k] \in {"file", "toFile", "toNothing"})
  /\ others' = {} /\ told' = 0
  /\ UNCHANGED <<files, outcome>>

End(how) == call' = "none" /\ pc' = "test" /\ i' = 0 /\ outcome' = how

\* mkdirs: the head of the loop, then isDirectory().
MkdirsTest ==
  /\ call = "mkdirs" /\ pc = "test" /\ i < Length
  /\ IF IsDirectory(Part) THEN i' = NextIndex /\ UNCHANGED pc
                          ELSE pc' = "make" /\ UNCHANGED i
  /\ UNCHANGED <<files, call, outcome, told, blocked, others>>

MkdirsReturns ==
  /\ call = "mkdirs" /\ pc = "test" /\ i >= Length
  /\ End("returned")
  /\ UNCHANGED <<files, told, blocked, others>>

\* F_mkdir throws what mkdir(2) fails with, EEXIST included.
MkdirsMake ==
  /\ pc = "make"
  /\ IF Part \in Parts /\ Makeable(Part)
     THEN Becomes(Part, "dir", FALSE) /\ i' = NextIndex /\ pc' = "test"
            /\ UNCHANGED <<call, outcome>>
     ELSE End("threw") /\ UNCHANGED <<tree, inode>>
  /\ UNCHANGED <<side, told, blocked, others>>

\* touch: exists().
TouchTest ==
  /\ call = "touch" /\ pc = "test"
  /\ pc' = IF Exists(Depth) THEN "utime" ELSE "write"
  /\ UNCHANGED <<files, call, i, outcome, told, blocked, others>>

\* file.write(path, "") (external): opens through F_FileIO and writes nothing.  A
\* link to nothing gets a file to lead to.
TouchWrites ==
  /\ pc = "write"
  /\ \/ Makeable(Depth) /\ Becomes(Depth, "file", FALSE)
     \/ tree[Depth] = "toNothing" /\ Becomes(Depth, "toFile", FALSE)
     \/ Seen(Depth) = "file" /\ inode' = [inode EXCEPT !.data = DataAfterOpen]
          /\ UNCHANGED tree
  /\ pc' = "utime"
  /\ UNCHANGED <<side, call, i, outcome, told, blocked, others>>

\* There is a directory, or none to make the file in.
TouchThrows ==
  /\ pc = "write" /\ Seen(Depth) # "file" /\ ~Makeable(Depth) /\ tree[Depth] # "toNothing"
  /\ End("threw")
  /\ UNCHANGED <<files, told, blocked, others>>

\* touchImpl: utime(2).
TouchStamps(t) ==
  /\ pc = "utime"
  /\ IF Exists(Depth)
     THEN inode' = Inode(inode.data, Stamp(t)) /\ End("returned")
     ELSE End("threw") /\ UNCHANGED inode
  /\ UNCHANGED <<tree, side, told, blocked, others>>

Own ==
  \/ MkdirsTest \/ MkdirsReturns \/ MkdirsMake
  \/ TouchTest \/ TouchWrites \/ TouchThrows
  \/ \E t \in Times : TouchStamps(t)

-----------------------------------------------------------------------------
(* The functions that make one system call.                                *)

\* What the call does when it succeeds; it throws when it fails.
Single(succeeds, effect) ==
  /\ call = "none"
  /\ IF succeeds THEN effect /\ outcome' = "returned"
                 ELSE outcome' = "threw" /\ UNCHANGED files
  /\ told' = 0
  /\ UNCHANGED <<call, pc, i, blocked, others>>

F_mkdir(k) == Single(Makeable(k), Becomes(k, "dir", FALSE) /\ UNCHANGED side)

F_rmdir(k) ==
  Single(tree[k] = "dir" /\ Empty(k), Becomes(k, "none", FALSE) /\ UNCHANGED side)

F_remove(k) ==
  Single(tree[k] \in {"file"} \cup Links, Becomes(k, "none", FALSE) /\ UNCHANGED side)

F_symlink(kind, d) ==
  Single(Makeable(Depth),
         Becomes(Depth, kind, d /\ kind = "toFile") /\ UNCHANGED side)

\* rename(2), from the path to the other or back: a directory takes the place of a
\* directory, and anything else that of anything else.
Replaces(from, to) ==
  from # "none" /\ (to # "none" => (from = "dir" <=> to = "dir"))

F_rename ==
  Single(Replaces(tree[Depth], side.kind),
         /\ side' = [kind |-> tree[Depth], inode |-> inode]
         /\ Becomes(Depth, "none", FALSE))

F_renameBack ==
  Single(Replaces(side.kind, tree[Depth]) /\ InDirectory(Depth),
         /\ tree' = [tree EXCEPT ![Depth] = side.kind] /\ inode' = side.inode
         /\ side' = [kind |-> "none", inode |-> Fresh(FALSE)])

\* They do not look at what stat() returns: without a file the number is whatever
\* the stack holds.
Returns(n, garbage) ==
  /\ call = "none"
  /\ told' \in (IF Exists(Depth) THEN {n} ELSE garbage)
  /\ outcome' = "returned"
  /\ UNCHANGED <<files, call, pc, i, blocked, others>>

F_mtime == Returns(AsInt(1000 * inode.mtime), {AsInt(1000 * m) : m \in {0, Now}})
F_size  == Returns(IF inode.data THEN 1 ELSE 0, {0, 1})

\* The tests look at it: no file is an answer.
F_test(true) == LET n == IF true THEN 1 ELSE 0 IN Returns(n, {n})

Calls ==
  \/ \E k \in Parts : F_mkdir(k) \/ F_rmdir(k) \/ F_remove(k)
  \/ \E kind \in Links, d \in BOOLEAN : F_symlink(kind, d)
  \/ F_rename \/ F_renameBack
  \/ F_mtime \/ F_size
  \/ F_test(Exists(Depth)) \/ F_test(IsDirectory(Depth)) \/ F_test(IsFile(Depth))
  \/ F_test(IsLink(Depth)) \/ F_test(LinkExists(Depth))

-----------------------------------------------------------------------------
(* The other process makes, removes and writes.                            *)
OtherMakes(k, kind) ==
  /\ Makeable(k)
  /\ Becomes(k, kind, FALSE)
  /\ others' = others \cup {"made"}
  /\ UNCHANGED <<side, call, pc, i, outcome, told, blocked>>

OtherRemoves(k) ==
  /\ tree[k] # "none" /\ Empty(k)
  /\ Becomes(k, "none", FALSE)
  /\ others' = others \cup {"removed"}
  /\ UNCHANGED <<side, call, pc, i, outcome, told, blocked>>

OtherWrites ==
  /\ Seen(Depth) = "file"
  /\ inode' = Fresh(TRUE)
  /\ UNCHANGED <<tree, side, call, pc, i, outcome, told, blocked, others>>

Other ==
  \/ \E k \in Parts, kind \in {"dir", "file"} : OtherMakes(k, kind)
  \/ \E k \in Parts : OtherRemoves(k)
  \/ OtherWrites

Next == Begin("mkdirs") \/ Begin("touch") \/ Own \/ Calls \/ Other

Spec == Init /\ [][Next]_vars

-----------------------------------------------------------------------------
Inodes == [data : BOOLEAN, mtime : Nat]

TypeOK ==
  /\ tree \in [Parts -> Kinds] /\ WellFormed(tree)
  /\ inode \in Inodes /\ (inode.data => Seen(Depth) = "file")
  /\ side \in [kind : Kinds, inode : Inodes]
  /\ call \in {"none", "mkdirs", "touch"}
  /\ pc \in {"test", "make", "write", "utime"}
  /\ i \in 0 .. Depth
  /\ outcome \in {"returned", "threw"} /\ blocked \in BOOLEAN
  /\ told \in -(IntSize \div 2) .. (IntSize \div 2) - 1
  /\ others \subseteq {"made", "removed"}

\* Whatever directories others make meanwhile, a mkdirs that returns leaves a
\* directory at the path, unless somebody removed it.  Neither mkdirs nor touch
\* throws for what it does itself: only for a file or a link in the way, for a path
\* whose parent is missing (touch), or for what others did between two of its
\* calls - for mkdirs, even a directory that they made just before it could.
MakesOrThrowsForAReason ==
  [][call # "none" /\ call' = "none" =>
       IF outcome' = "returned"
       THEN call = "mkdirs" => (IsDirectory(Depth) \/ "removed" \in others)
       ELSE blocked \/ others # {} \/ (call = "touch" /\ ~Makeable(Depth))]_vars

Holding == (IF inode.data THEN 1 ELSE 0) + (IF side.inode.data THEN 1 ELSE 0)

\* No call of the program loses the data of a file, but a remove() of it and a
\* rename() onto it, which asks nobody: not touch, when a file with data appears
\* between its exists() and its write(), and no call that throws.
KeepsData ==
  [][(Own \/ Calls) /\ Holding' < Holding =>
       /\ outcome' = "returned"
       /\ \/ F_remove(Depth)
          \/ F_rename /\ side.inode.data
          \/ F_renameBack /\ inode.data]_vars
=============================================================================
