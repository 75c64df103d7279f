--------------------------- MODULE FileOpsProofs ----------------------------
(***************************************************************************)
(* What mkdirs, touch and the calls of the file module leave at a path,    *)
(* for paths of any depth and whatever another process does meanwhile.     *)
(***************************************************************************)
EXTENDS FileOps, TLAPS

\* What stat() sees.
LEMMA SeenFacts ==
  ASSUME tree \in [Parts -> Kinds], NEW k \in Parts
  PROVE  /\ Seen(k) = "dir"  <=> tree[k] \in {"dir", "toDir"}
         /\ Seen(k) = "file" <=> tree[k] \in {"file", "toFile"}
         /\ Seen(k) = "none" <=> tree[k] \in {"none", "toNothing"}
         /\ tree[k] \in {"dir", "file", "none", "toDir", "toFile", "toNothing"}
BY DEF Seen, Kinds, Links

LEMMA SeenFactsNext ==
  ASSUME tree' \in [Parts -> Kinds], NEW k \in Parts
  PROVE  /\ Seen(k)' = "dir"  <=> tree'[k] \in {"dir", "toDir"}
         /\ Seen(k)' = "file" <=> tree'[k] \in {"file", "toFile"}
         /\ Seen(k)' = "none" <=> tree'[k] \in {"none", "toNothing"}
BY DEF Seen, Kinds, Links

LEMMA DepthFacts == Depth \in Parts /\ Depth \in Nat /\ \A k \in Parts : k \in Nat /\ 1 <= k /\ k <= Depth
BY DepthAssumption DEF Parts

-----------------------------------------------------------------------------
(* The files: every step, of whomever it is, is one of these.              *)

Makes(k, kind, d) ==
  /\ Makeable(k) /\ Becomes(k, kind, d) /\ side' = side
  /\ kind \in Kinds \ {"none"} /\ (kind \in Links => k = Depth) /\ (d => kind = "toFile")

Removes(k) == tree[k] # "none" /\ Empty(k) /\ Becomes(k, "none", FALSE) /\ side' = side

\* A link to nothing gets a file to lead to.
Fills == tree[Depth] = "toNothing" /\ Becomes(Depth, "toFile", FALSE) /\ side' = side

\* The data or the times of the file change.
Changes ==
  /\ tree' = tree /\ side' = side
  /\ inode' \in Inodes
  /\ inode'.data => Seen(Depth) = "file"

MovesAway ==
  /\ tree[Depth] # "none"
  /\ side' = [kind |-> tree[Depth], inode |-> inode]
  /\ Becomes(Depth, "none", FALSE)

MovesBack ==
  /\ side.kind # "none" /\ InDirectory(Depth)
  /\ tree' = [tree EXCEPT ![Depth] = side.kind] /\ inode' = side.inode
  /\ side' = [kind |-> "none", inode |-> Fresh(FALSE)]

FileStep ==
  \/ UNCHANGED files
  \/ \E k \in Parts, kind \in Kinds, d \in BOOLEAN : Makes(k, kind, d)
  \/ \E k \in Parts : Removes(k)
  \/ Fills \/ Changes \/ MovesAway \/ MovesBack

\* Data is in files only, at the other path too: what TypeOK leaves open, and a rename
\* brings back.
Whole(kind, nd) == nd.data => kind \in {"file", "toFile"}

FilesOK ==
  /\ tree \in [Parts -> Kinds] /\ WellFormed(tree)
  /\ inode \in Inodes /\ Whole(tree[Depth], inode)
  /\ side \in [kind : Kinds, inode : Inodes] /\ Whole(side.kind, side.inode)

LEMMA FreshFacts ==
  ASSUME NEW d \in BOOLEAN
  PROVE  Fresh(d) \in Inodes /\ Fresh(d).data = d
BY TimesAssumption DEF Fresh, Inode, Inodes

LEMMA BecomesFacts ==
  ASSUME FilesOK, NEW k \in Parts, NEW kind \in Kinds, NEW d \in BOOLEAN, Becomes(k, kind, d)
  PROVE  /\ tree' \in [Parts -> Kinds] /\ tree'[k] = kind
         /\ \A j \in Parts : j # k => tree'[j] = tree[j]
         /\ inode' \in Inodes
         /\ (d => kind \in {"file", "toFile"}) => Whole(tree'[Depth], inode')
<1>1. /\ tree' \in [Parts -> Kinds] /\ tree'[k] = kind
      /\ \A j \in Parts : j # k => tree'[j] = tree[j]
  BY DEF Becomes, FilesOK
<1>2. CASE k = Depth
  <2>1. inode' = Fresh(d)
    BY <1>2 DEF Becomes
  <2> QED
    BY <1>1, <1>2, <2>1, FreshFacts DEF Whole
<1>3. CASE k # Depth
  <2>1. inode' = inode /\ tree'[Depth] = tree[Depth]
    BY <1>1, <1>3, DepthFacts DEF Becomes
  <2> QED
    BY <1>1, <2>1 DEF FilesOK
<1> QED
  BY <1>1, <1>2, <1>3

LEMMA MakesKeeps ==
  ASSUME FilesOK, NEW k \in Parts, NEW kind \in Kinds, NEW d \in BOOLEAN, Makes(k, kind, d)
  PROVE  FilesOK'
<1>1. /\ tree' \in [Parts -> Kinds] /\ tree'[k] = kind
      /\ \A j \in Parts : j # k => tree'[j] = tree[j]
      /\ inode' \in Inodes /\ Whole(tree'[Depth], inode')
  BY BecomesFacts DEF Makes
<1>2. WellFormed(tree')
  <2> SUFFICES ASSUME NEW j \in Parts
               PROVE  /\ j > 1 /\ tree'[j] # "none" => tree'[j - 1] = "dir"
                      /\ tree'[j] \in Links => j = Depth
    BY DEF WellFormed
  <2>1. ASSUME j > 1, tree'[j] # "none" PROVE tree'[j - 1] = "dir"
    <3>1. j - 1 \in Parts /\ j \in Nat
      BY <2>1, DepthFacts DEF Parts
    <3>2. CASE j = k
      BY <1>1, <3>1, <3>2 DEF Makes, Makeable, InDirectory
    <3>3. CASE j # k
      <4>1. tree[j] # "none" /\ tree[j - 1] = "dir"
        BY <1>1, <2>1, <3>3 DEF FilesOK, WellFormed
      <4>2. tree[k] = "none"
        BY DEF Makes, Makeable
      <4> QED
        BY <1>1, <3>1, <4>1, <4>2
    <3> QED
      BY <3>2, <3>3
  <2>2. ASSUME tree'[j] \in Links PROVE j = Depth
    BY <1>1, <2>2 DEF Makes, FilesOK, WellFormed
  <2> QED
    BY <2>1, <2>2
<1> QED
  BY <1>1, <1>2 DEF Makes, FilesOK

LEMMA RemovesKeeps ==
  ASSUME FilesOK, NEW k \in Parts, Empty(k), Becomes(k, "none", FALSE)
  PROVE  /\ tree' \in [Parts -> Kinds] /\ WellFormed(tree')
         /\ inode' \in Inodes /\ Whole(tree'[Depth], inode')
<1>1. /\ tree' \in [Parts -> Kinds] /\ tree'[k] = "none"
      /\ \A j \in Parts : j # k => tree'[j] = tree[j]
      /\ inode' \in Inodes /\ Whole(tree'[Depth], inode')
  <2>1. "none" \in Kinds
    BY DEF Kinds
  <2> QED
    BY <2>1, BecomesFacts
<1>2. WellFormed(tree')
  <2> SUFFICES ASSUME NEW j \in Parts
               PROVE  /\ j > 1 /\ tree'[j] # "none" => tree'[j - 1] = "dir"
                      /\ tree'[j] \in Links => j = Depth
    BY DEF WellFormed
  <2>1. ASSUME j > 1, tree'[j] # "none" PROVE tree'[j - 1] = "dir"
    <3>1. j - 1 \in Parts /\ j \in Nat /\ (j - 1) + 1 = j
      BY <2>1, DepthFacts DEF Parts
    <3>2. tree[j] # "none" /\ tree[j - 1] = "dir"
      BY <1>1, <2>1 DEF FilesOK, WellFormed
    <3>3. k # j - 1
      BY <3>1, <3>2 DEF Empty
    <3> QED
      BY <1>1, <3>1, <3>2, <3>3
  <2>2. ASSUME tree'[j] \in Links PROVE j = Depth
    <3>1. j # k
      BY <1>1, <2>2 DEF Links
    <3> QED
      BY <1>1, <2>2, <3>1 DEF FilesOK, WellFormed
  <2> QED
    BY <2>1, <2>2
<1> QED
  BY <1>1, <1>2

LEMMA FileStepKeeps ==
  ASSUME FilesOK, FileStep
  PROVE  FilesOK'
<1>1. CASE UNCHANGED files
  BY <1>1 DEF files, FilesOK
<1>2. CASE \E k \in Parts, kind \in Kinds, d \in BOOLEAN : Makes(k, kind, d)
  BY <1>2, MakesKeeps
<1>3. CASE \E k \in Parts : Removes(k)
  BY <1>3, RemovesKeeps DEF Removes, FilesOK
<1>4. CASE Fills
  <2>1. /\ tree' \in [Parts -> Kinds] /\ tree'[Depth] = "toFile"
        /\ \A j \in Parts : j # Depth => tree'[j] = tree[j]
        /\ inode' \in Inodes /\ Whole(tree'[Depth], inode')
    <3>1. "toFile" \in Kinds
      BY DEF Kinds, Links
    <3> QED
      BY <1>4, <3>1, BecomesFacts, DepthFacts DEF Fills
  <2>2. WellFormed(tree')
    <3>1. tree[Depth] = "toNothing"
      BY <1>4 DEF Fills
    <3>2. \A j \in Parts : j > 1 => j - 1 \in Parts /\ j - 1 # Depth
      BY DepthFacts DEF Parts
    <3> QED
      BY <2>1, <3>1, <3>2, DepthFacts DEF WellFormed, FilesOK
  <2> QED
    BY <1>4, <2>1, <2>2 DEF Fills, FilesOK
<1>5. CASE Changes
  <2>1. inode'.data => tree[Depth] \in {"file", "toFile"}
    BY <1>5, SeenFacts, DepthFacts DEF Changes, FilesOK
  <2> QED
    BY <1>5, <2>1 DEF Changes, FilesOK, Whole
<1>6. CASE MovesAway
  <2>1. Empty(Depth)
    BY DepthFacts DEF Empty
  <2>2. /\ tree' \in [Parts -> Kinds] /\ WellFormed(tree')
        /\ inode' \in Inodes /\ Whole(tree'[Depth], inode')
    BY <1>6, <2>1, RemovesKeeps, DepthFacts DEF MovesAway
  <2>3. side' \in [kind : Kinds, inode : Inodes] /\ Whole(side'.kind, side'.inode)
    BY <1>6, DepthFacts DEF MovesAway, FilesOK
  <2> QED
    BY <2>2, <2>3 DEF FilesOK
<1>7. CASE MovesBack
  <2>1. /\ tree' \in [Parts -> Kinds] /\ tree'[Depth] = side.kind
        /\ \A j \in Parts : j # Depth => tree'[j] = tree[j]
        /\ inode' = side.inode
    BY <1>7, DepthFacts DEF MovesBack, FilesOK
  <2>2. WellFormed(tree')
    <3>2. \A j \in Parts : j > 1 => j - 1 \in Parts /\ j - 1 # Depth
      BY DepthFacts DEF Parts
    <3> QED
      BY <1>7, <2>1, <3>2, DepthFacts DEF WellFormed, FilesOK, MovesBack, InDirectory
  <2>3. side' \in [kind : Kinds, inode : Inodes] /\ Whole(side'.kind, side'.inode)
    BY <1>7, FreshFacts DEF MovesBack, Kinds, Whole
  <2> QED
    BY <2>1, <2>2, <2>3 DEF FilesOK
<1> QED
  BY <1>1, <1>2, <1>3, <1>4, <1>5, <1>6, <1>7 DEF FileStep

\* What a step of each kind is to the files.
LEMMA OwnIsFileStep ==
  ASSUME FilesOK, Own
  PROVE  FileStep
<1>1. CASE MkdirsTest \/ MkdirsReturns \/ TouchTest \/ TouchThrows
  BY <1>1 DEF MkdirsTest, MkdirsReturns, TouchTest, TouchThrows, FileStep
<1>2. CASE MkdirsMake
  <2>1. CASE Part \in Parts /\ Makeable(Part)
    <3>1. Makes(Part, "dir", FALSE)
      BY <1>2, <2>1 DEF MkdirsMake, Makes, Kinds, Links
    <3> QED
      BY <2>1, <3>1 DEF FileStep, Kinds
  <2>2. CASE ~(Part \in Parts /\ Makeable(Part))
    BY <1>2, <2>2 DEF MkdirsMake, FileStep, files
  <2> QED
    BY <2>1, <2>2
<1>3. CASE TouchWrites
  <2>1. CASE Makeable(Depth) /\ Becomes(Depth, "file", FALSE)
    <3>1. Makes(Depth, "file", FALSE)
      BY <1>3, <2>1 DEF TouchWrites, Makes, Kinds, Links
    <3> QED
      BY <3>1, DepthFacts DEF FileStep, Kinds
  <2>2. CASE tree[Depth] = "toNothing" /\ Becomes(Depth, "toFile", FALSE)
    BY <1>3, <2>2 DEF TouchWrites, Fills, FileStep
  <2>3. CASE Seen(Depth) = "file" /\ inode' = [inode EXCEPT !.data = DataAfterOpen] /\ tree' = tree
    <3>1. inode' = inode
      BY <2>3 DEF DataAfterOpen, FilesOK, Inodes
    <3> QED
      BY <1>3, <2>3, <3>1 DEF TouchWrites, FileStep, files
  <2> QED
    BY <1>3, <2>1, <2>2, <2>3 DEF TouchWrites
<1>4. CASE \E t \in Times : TouchStamps(t)
  <2>1. PICK t \in Times : TouchStamps(t)
    BY <1>4
  <2>2. tree' = tree /\ side' = side
    BY <2>1 DEF TouchStamps
  <2>3. CASE Exists(Depth)
    <3>1. inode' = [data |-> inode.data, mtime |-> t]
      BY <2>1, <2>3 DEF TouchStamps, Inode, Stamp
    <3>2. inode' \in Inodes
      BY <3>1, TimesAssumption DEF FilesOK, Inodes
    <3>3. inode'.data => Seen(Depth) = "file"
      BY <3>1, SeenFacts, DepthFacts DEF FilesOK, Whole
    <3> QED
      BY <2>2, <3>2, <3>3 DEF Changes, FileStep
  <2>4. CASE ~Exists(Depth)
    BY <2>1, <2>2, <2>4 DEF TouchStamps, FileStep, files
  <2> QED
    BY <2>3, <2>4
<1> QED
  BY <1>1, <1>2, <1>3, <1>4 DEF Own

\* A call that makes one system call: what it does when that succeeds.
LEMMA CallIsFileStep ==
  ASSUME FilesOK, Calls
  PROVE  FileStep
<1>1. \A succeeds, effect \in BOOLEAN :
        Single(succeeds, effect) => (succeeds /\ effect) \/ UNCHANGED files
  BY DEF Single
<1>2. ASSUME NEW k \in Parts, F_mkdir(k) PROVE FileStep
  <2>1. UNCHANGED files \/ Makes(k, "dir", FALSE)
    BY <1>2 DEF F_mkdir, Single, Makes, Kinds, Links
  <2> QED
    BY <2>1 DEF FileStep, Kinds
<1>3. ASSUME NEW k \in Parts, F_rmdir(k) PROVE FileStep
  <2>1. UNCHANGED files \/ Removes(k)
    BY <1>3 DEF F_rmdir, Single, Removes
  <2> QED
    BY <2>1 DEF FileStep
<1>4. ASSUME NEW k \in Parts, F_remove(k) PROVE FileStep
  <2>1. CASE tree[k] \in {"file"} \cup Links
    <3>1. Becomes(k, "none", FALSE) /\ side' = side
      BY <1>4, <2>1 DEF F_remove, Single
    <3>2. tree[k] # "dir" /\ tree[k] # "none"
      BY <2>1 DEF Links
    <3>3. Empty(k)
      <4> SUFFICES ASSUME NEW j \in Parts, j = k + 1 PROVE tree[j] = "none"
        BY DEF Empty
      <4>1. j > 1 /\ j - 1 = k
        BY DepthFacts
      <4> QED
        BY <3>2, <4>1 DEF FilesOK, WellFormed
    <3> QED
      BY <3>1, <3>2, <3>3 DEF Removes, FileStep
  <2>2. CASE tree[k] \notin {"file"} \cup Links
    BY <1>4, <2>2 DEF F_remove, Single, FileStep
  <2> QED
    BY <2>1, <2>2
<1>5. ASSUME NEW kind \in Links, NEW d \in BOOLEAN, F_symlink(kind, d) PROVE FileStep
  <2> DEFINE b == d /\ kind = "toFile"
  <2>1. b \in BOOLEAN /\ (b => kind = "toFile")
    OBVIOUS
  <2>2. UNCHANGED files \/ (Makeable(Depth) /\ Becomes(Depth, kind, b) /\ side' = side)
    BY <1>5 DEF F_symlink, Single
  <2> HIDE DEF b
  <2>3. kind \in Kinds \ {"none"}
    BY DEF Kinds, Links
  <2>4. UNCHANGED files \/ Makes(Depth, kind, b)
    BY <2>1, <2>2, <2>3 DEF Makes
  <2> QED
    BY <2>1, <2>3, <2>4, DepthFacts DEF FileStep
<1>6. ASSUME F_rename PROVE FileStep
  <2>1. UNCHANGED files \/ MovesAway
    BY <1>6 DEF F_rename, Single, Replaces, MovesAway
  <2> QED
    BY <2>1 DEF FileStep
<1>7. ASSUME F_renameBack PROVE FileStep
  <2>1. UNCHANGED files \/ MovesBack
    BY <1>7 DEF F_renameBack, Single, Replaces, MovesBack
  <2> QED
    BY <2>1 DEF FileStep
<1>8. \A n, garbage : Returns(n, garbage) => UNCHANGED files
  BY DEF Returns
<1>9. ASSUME \/ F_mtime \/ F_size
             \/ F_test(Exists(Depth)) \/ F_test(IsDirectory(Depth)) \/ F_test(IsFile(Depth))
             \/ F_test(IsLink(Depth)) \/ F_test(LinkExists(Depth))
      PROVE  FileStep
  BY <1>8, <1>9 DEF F_mtime, F_size, F_test, FileStep
<1> QED
  BY <1>2, <1>3, <1>4, <1>5, <1>6, <1>7, <1>9 DEF Calls

LEMMA OtherIsFileStep ==
  ASSUME FilesOK, Other
  PROVE  FileStep
<1>1. ASSUME NEW k \in Parts, NEW kind \in {"dir", "file"}, OtherMakes(k, kind) PROVE FileStep
  <2>1. Makes(k, kind, FALSE)
    BY <1>1 DEF OtherMakes, Makes, Kinds, Links
  <2> QED
    BY <2>1 DEF FileStep, Kinds
<1>2. ASSUME NEW k \in Parts, OtherRemoves(k) PROVE FileStep
  BY <1>2 DEF OtherRemoves, Removes, FileStep
<1>3. ASSUME OtherWrites PROVE FileStep
  <2>1. Changes
    BY <1>3, FreshFacts DEF OtherWrites, Changes
  <2> QED
    BY <2>1 DEF FileStep
<1> QED
  BY <1>1, <1>2, <1>3 DEF Other

LEMMA NextIsFileStep ==
  ASSUME FilesOK, [Next]_vars
  PROVE  FileStep
<1>1. CASE Begin("mkdirs") \/ Begin("touch")
  BY <1>1 DEF Begin, FileStep
<1>2. CASE UNCHANGED vars
  BY <1>2 DEF vars, FileStep
<1> QED
  BY <1>1, <1>2, OwnIsFileStep, CallIsFileStep, OtherIsFileStep DEF Next

-----------------------------------------------------------------------------
(* The call under way.                                                     *)

Control ==
  /\ call \in {"none", "mkdirs", "touch"}
  /\ pc \in {"test", "make", "write", "utime"}
  /\ i \in 0 .. Depth
  /\ outcome \in {"returned", "threw"} /\ blocked \in BOOLEAN
  /\ told \in -(IntSize \div 2) .. (IntSize \div 2) - 1
  /\ others \subseteq {"made", "removed"}

\* mkdirs has directories behind it, and unless something was in the way at the start
\* or others have been there, nothing in front of it that is not one or can become one.
Mkdirs ==
  /\ pc \in {"test", "make"} /\ (pc = "make" => i < Depth)
  /\ "removed" \notin others => \A k \in 1 .. i : Seen(k) = "dir"
  /\ ~blocked /\ others = {} =>
       \A k \in Parts : tree[k] \notin {"file", "toFile", "toNothing"}
  /\ pc = "make" /\ others = {} => Seen(Part) # "dir"

\* touch comes to utime() when it has seen or made a file.
Touch ==
  /\ pc \in {"test", "write", "utime"}
  /\ pc = "utime" /\ others = {} => Exists(Depth)

InCall ==
  /\ call = "none"   => pc = "test"
  /\ call = "mkdirs" => Mkdirs
  /\ call = "touch"  => Touch

IInv == FilesOK /\ Control /\ InCall

\* JS_date gets something that fits an int.
LEMMA AsIntFacts ==
  ASSUME NEW n \in Int
  PROVE  AsInt(n) \in -(IntSize \div 2) .. (IntSize \div 2) - 1
<1> DEFINE h == IntSize \div 2
           r == (n + h) % IntSize
<1>1. IntSize \in Nat /\ h \in Int /\ 2 * h = IntSize /\ h >= 2
  BY TimesAssumption
<1>2. n + h \in Int
  BY <1>1
<1>3. r \in 0 .. IntSize - 1
  BY <1>1, <1>2
<1> QED
  BY <1>1, <1>3 DEF AsInt

LEMMA ToldFacts ==
  /\ \A m \in Nat : AsInt(1000 * m) \in -(IntSize \div 2) .. (IntSize \div 2) - 1
  /\ {0, 1} \subseteq -(IntSize \div 2) .. (IntSize \div 2) - 1
<1>1. \A m \in Nat : AsInt(1000 * m) \in -(IntSize \div 2) .. (IntSize \div 2) - 1
  BY AsIntFacts
<1>2. (IntSize \div 2) \in Int /\ (IntSize \div 2) >= 2
  BY TimesAssumption
<1> QED
  BY <1>1, <1>2

LEMMA ControlNext ==
  ASSUME FilesOK, Control, InCall, [Next]_vars
  PROVE  Control'
<1>0. 0 \in 0 .. Depth
  BY DepthAssumption
<1>1. CASE UNCHANGED vars
  BY <1>1 DEF vars, Control
<1>2. CASE Begin("mkdirs") \/ Begin("touch")
  <2>1. told' = 0 /\ 0 \in -(IntSize \div 2) .. (IntSize \div 2) - 1
    BY <1>2, ToldFacts DEF Begin
  <2>2. i' = 0
    BY <1>2 DEF Begin
  <2>3. blocked' \in BOOLEAN
    BY <1>2 DEF Begin
  <2> QED
    BY <1>0, <1>2, <2>1, <2>2, <2>3 DEF Begin, Control
<1>3. CASE MkdirsTest
  <2>1. i' \in 0 .. Depth
    BY <1>3, DepthFacts DEF MkdirsTest, NextIndex, Length, Control
  <2> QED
    BY <1>3, <2>1 DEF MkdirsTest, Control, files
<1>4. CASE MkdirsReturns \/ TouchThrows
  BY <1>0, <1>4 DEF MkdirsReturns, TouchThrows, End, Control
<1>5. CASE MkdirsMake
  <2>1. i' \in 0 .. Depth
    <3>1. CASE Part \in Parts /\ Makeable(Part)
      <4>1. i' = i + 1 /\ i + 1 \in 1 .. Depth
        BY <1>5, <3>1 DEF MkdirsMake, NextIndex, Part, Parts
      <4> QED
        BY <4>1, DepthAssumption
    <3>2. CASE ~(Part \in Parts /\ Makeable(Part))
      BY <1>0, <1>5, <3>2 DEF MkdirsMake, End
    <3> QED
      BY <3>1, <3>2
  <2> QED
    BY <1>5, <2>1 DEF MkdirsMake, End, Control
<1>6. CASE TouchTest \/ TouchWrites
  BY <1>6 DEF TouchTest, TouchWrites, Control
<1>7. CASE \E t \in Times : TouchStamps(t)
  BY <1>0, <1>7 DEF TouchStamps, End, Control
<1>8. CASE Calls
  <2>1. ASSUME told' \in -(IntSize \div 2) .. (IntSize \div 2) - 1,
               outcome' \in {"returned", "threw"}, UNCHANGED <<call, pc, i, blocked, others>>
        PROVE  Control'
    BY <2>1 DEF Control
  <2>2. ASSUME NEW succeeds, NEW effect, Single(succeeds, effect) PROVE Control'
    BY <2>1, <2>2, ToldFacts DEF Single
  <2>3. ASSUME NEW n, NEW garbage, Returns(n, garbage),
               {n} \cup garbage \subseteq -(IntSize \div 2) .. (IntSize \div 2) - 1
        PROVE  Control'
    BY <2>1, <2>3 DEF Returns
  <2>4. CASE \/ \E k \in Parts : F_mkdir(k) \/ F_rmdir(k) \/ F_remove(k)
             \/ \E kind \in Links, d \in BOOLEAN : F_symlink(kind, d)
             \/ F_rename \/ F_renameBack
    BY <2>2, <2>4 DEF F_mkdir, F_rmdir, F_remove, F_symlink, F_rename, F_renameBack
  <2>5. CASE F_mtime
    <3>1. inode.mtime \in Nat /\ 0 \in Nat /\ Now \in Nat
      BY TimesAssumption DEF FilesOK, Inodes
    <3> QED
      BY <2>3, <2>5, <3>1, ToldFacts DEF F_mtime
  <2>6. CASE F_size
    BY <2>3, <2>6, ToldFacts DEF F_size
  <2>7. ASSUME NEW true, F_test(true) PROVE Control'
    BY <2>3, <2>7, ToldFacts DEF F_test
  <2>8. CASE \/ F_test(Exists(Depth)) \/ F_test(IsDirectory(Depth)) \/ F_test(IsFile(Depth))
             \/ F_test(IsLink(Depth)) \/ F_test(LinkExists(Depth))
    BY <2>7, <2>8, Zenon
  <2> QED
    BY <1>8, <2>4, <2>5, <2>6, <2>8 DEF Calls
<1>9. CASE Other
  BY <1>9 DEF Other, OtherMakes, OtherRemoves, OtherWrites, Control
<1> QED
  BY <1>1, <1>2, <1>3, <1>4, <1>5, <1>6, <1>7, <1>8, <1>9 DEF Next, Own

LEMMA InCallNext ==
  ASSUME FilesOK, FilesOK', Control, InCall, [Next]_vars
  PROVE  InCall'
<1>1. CASE UNCHANGED vars
  BY <1>1 DEF vars, files, InCall, Mkdirs, Touch, Seen, Part, Exists
<1>2. CASE Begin("mkdirs")
  <2>1. /\ call' = "mkdirs" /\ pc' = "test" /\ i' = 0
        /\ blocked' = (\E k \in Parts : tree[k] \in {"file", "toFile", "toNothing"})
        /\ tree' = tree
    BY <1>2 DEF Begin, files
  <2>2. ~blocked' => \A k \in Parts : tree'[k] \notin {"file", "toFile", "toNothing"}
    BY <2>1, Zenon
  <2>3. \A k \in 1 .. i' : FALSE
    BY <2>1
  <2> QED
    BY <2>1, <2>2, <2>3, DepthFacts DEF InCall, Mkdirs
<1>3. CASE Begin("touch")
  <2>1. call' = "touch" /\ pc' = "test"
    BY <1>3, Zenon DEF Begin
  <2> QED
    BY <2>1 DEF InCall, Touch
<1>4. CASE MkdirsTest
  <2>1. /\ call' = "mkdirs" /\ Mkdirs /\ i < Depth /\ pc = "test"
        /\ tree' = tree /\ blocked' = blocked /\ others' = others
    BY <1>4 DEF MkdirsTest, InCall, Length, files
  <2>2. Part \in Parts /\ i \in Nat /\ Part = i + 1
    BY <2>1, DepthFacts DEF Part, Parts, Control
  <2>3. \A k \in Parts : Seen(k)' = Seen(k)
    BY <2>1 DEF Seen
  <2>4. CASE IsDirectory(Part)
    <3>1. i' = i + 1 /\ pc' = "test"
      BY <1>4, <2>1, <2>4 DEF MkdirsTest, NextIndex
    <3>2. "removed" \notin others' => \A k \in 1 .. i' : Seen(k)' = "dir"
      <4> SUFFICES ASSUME "removed" \notin others', NEW k \in 1 .. i' PROVE Seen(k)' = "dir"
        OBVIOUS
      <4>1. k \in Parts /\ (k \in 1 .. i \/ k = Part)
        BY <2>1, <2>2, <3>1, DepthFacts DEF Parts
      <4> QED
        BY <2>1, <2>3, <2>4, <4>1 DEF Mkdirs, IsDirectory
    <3> QED
      BY <2>1, <3>1, <3>2 DEF InCall, Mkdirs
  <2>5. CASE ~IsDirectory(Part)
    <3>1. i' = i /\ pc' = "make"
      BY <1>4, <2>1, <2>5 DEF MkdirsTest
    <3>2. Part' = Part /\ Seen(Part) # "dir"
      BY <2>2, <2>5, <3>1 DEF IsDirectory, Part
    <3>3. Seen(Part)' # "dir"
      BY <2>2, <2>3, <3>2
    <3>4. "removed" \notin others' => \A k \in 1 .. i' : Seen(k)' = "dir"
      <4>1. \A k \in 1 .. i : k \in Parts
        BY <2>1, <2>2, DepthFacts DEF Parts
      <4> QED
        BY <2>1, <2>3, <3>1, <4>1 DEF Mkdirs
    <3> QED
      BY <2>1, <3>1, <3>3, <3>4 DEF InCall, Mkdirs
  <2> QED
    BY <2>4, <2>5
<1>5. CASE MkdirsMake
  <2>1. CASE Part \in Parts /\ Makeable(Part)
    <3>1. /\ call = "mkdirs" /\ call' = "mkdirs" /\ Mkdirs /\ i' = i + 1 /\ pc' = "test"
          /\ blocked' = blocked /\ others' = others
      <4>1. call = "mkdirs"
        BY <1>5 DEF MkdirsMake, InCall, Touch, Control
      <4> QED
        BY <1>5, <2>1, <4>1 DEF MkdirsMake, InCall, NextIndex
    <3>2. /\ tree' \in [Parts -> Kinds] /\ tree'[Part] = "dir"
          /\ \A j \in Parts : j # Part => tree'[j] = tree[j]
      BY <1>5, <2>1, BecomesFacts DEF MkdirsMake, Kinds
    <3>3. i \in Nat /\ i < Depth /\ Part = i + 1
      BY <2>1, DepthFacts DEF Part, Parts, Control
    <3>4. "removed" \notin others' => \A k \in 1 .. i' : Seen(k)' = "dir"
      <4> SUFFICES ASSUME "removed" \notin others', NEW k \in 1 .. i' PROVE Seen(k)' = "dir"
        OBVIOUS
      <4>1. k \in Parts /\ (k \in 1 .. i \/ k = Part)
        BY <3>1, <3>3, DepthFacts DEF Parts
      <4>2. CASE k = Part
        BY <3>2, <4>1, <4>2, SeenFactsNext
      <4>3. CASE k \in 1 .. i /\ k # Part
        <5>1. tree[k] \in {"dir", "toDir"}
          BY <3>1, <4>1, <4>3, SeenFacts DEF Mkdirs, FilesOK
        <5> QED
          BY <3>2, <4>1, <4>3, <5>1, SeenFactsNext
      <4> QED
        BY <4>1, <4>2, <4>3
    <3>5. ~blocked' /\ others' = {} =>
            \A k \in Parts : tree'[k] \notin {"file", "toFile", "toNothing"}
      BY <3>1, <3>2 DEF Mkdirs
    <3> QED
      BY <3>1, <3>4, <3>5 DEF InCall, Mkdirs
  <2>2. CASE ~(Part \in Parts /\ Makeable(Part))
    BY <1>5, <2>2 DEF MkdirsMake, End, InCall
  <2> QED
    BY <2>1, <2>2
<1>6. CASE MkdirsReturns \/ TouchThrows
  BY <1>6 DEF MkdirsReturns, TouchThrows, End, InCall
<1>7. CASE TouchTest
  <2>1. call' = "touch" /\ pc' = (IF Exists(Depth) THEN "utime" ELSE "write") /\ tree' = tree
    BY <1>7 DEF TouchTest, files
  <2>2. Exists(Depth)' = Exists(Depth)
    BY <2>1 DEF Exists, Seen
  <2> QED
    BY <2>1, <2>2 DEF InCall, Touch
<1>8. CASE TouchWrites
  <2>1. call' = "touch" /\ pc' = "utime" /\ others' = others
    BY <1>8 DEF TouchWrites, InCall, Mkdirs, Control
  <2>2. tree'[Depth] \in {"file", "toFile"}
    <3>1. CASE Makeable(Depth) /\ Becomes(Depth, "file", FALSE)
      BY <3>1, BecomesFacts, DepthFacts DEF Kinds
    <3>2. CASE tree[Depth] = "toNothing" /\ Becomes(Depth, "toFile", FALSE)
      BY <3>2, BecomesFacts, DepthFacts DEF Kinds, Links
    <3>3. CASE Seen(Depth) = "file" /\ tree' = tree
      BY <3>3, SeenFacts, DepthFacts DEF FilesOK
    <3> QED
      BY <1>8, <3>1, <3>2, <3>3 DEF TouchWrites
  <2>3. Seen(Depth)' = "file"
    BY <2>2, SeenFactsNext, DepthFacts DEF FilesOK
  <2> QED
    BY <2>1, <2>3 DEF InCall, Touch, Exists
<1>9. CASE \E t \in Times : TouchStamps(t)
  BY <1>9 DEF TouchStamps, End, InCall
<1>10. CASE Calls
  <2>1. call' = "none" /\ pc' = "test"
    <3>1. call = "none" /\ UNCHANGED <<call, pc>>
      BY <1>10 DEF Calls, F_mkdir, F_rmdir, F_remove, F_symlink, F_rename, F_renameBack,
                   F_mtime, F_size, F_test, Single, Returns
    <3> QED
      BY <3>1 DEF InCall
  <2> QED
    BY <2>1 DEF InCall
<1>11. CASE Other
  <2>1. call' = call /\ pc' = pc /\ i' = i /\ blocked' = blocked
    BY <1>11 DEF Other, OtherMakes, OtherRemoves, OtherWrites
  <2>2. CASE \E k \in Parts, kind \in {"dir", "file"} : OtherMakes(k, kind)
    <3>1. PICK k \in Parts, kind \in {"dir", "file"} : OtherMakes(k, kind)
      BY <2>2
    <3>2. /\ others' = others \cup {"made"} /\ tree[k] = "none"
          /\ tree' \in [Parts -> Kinds]
          /\ \A j \in Parts : j # k => tree'[j] = tree[j]
      BY <3>1, BecomesFacts DEF OtherMakes, Makeable, Kinds
    <3>3. ASSUME NEW j \in Parts, Seen(j) = "dir" PROVE Seen(j)' = "dir"
      BY <3>2, <3>3, SeenFacts, SeenFactsNext DEF FilesOK
    <3>4. \A j \in 1 .. i : j \in Parts
      BY DepthFacts DEF Parts, Control
    <3>5. others' # {} /\ ("removed" \notin others' => "removed" \notin others)
      BY <3>2
    <3> QED
      BY <2>1, <3>3, <3>4, <3>5 DEF InCall, Mkdirs, Touch
  <2>3. CASE \E k \in Parts : OtherRemoves(k)
    <3>1. "removed" \in others'
      BY <2>3 DEF OtherRemoves
    <3> QED
      BY <2>1, <3>1 DEF InCall, Mkdirs, Touch
  <2>4. CASE OtherWrites
    <3>1. tree' = tree /\ others' = others
      BY <2>4 DEF OtherWrites
    <3> QED
      BY <2>1, <3>1 DEF InCall, Mkdirs, Touch, Seen, Part, Exists
  <2> QED
    BY <1>11, <2>2, <2>3, <2>4 DEF Other
<1> QED
  BY <1>1, <1>2, <1>3, <1>4, <1>5, <1>6, <1>7, <1>8, <1>9, <1>10, <1>11 DEF Next, Own

LEMMA InitHolds == Init => IInv
<1> SUFFICES ASSUME Init PROVE IInv
  OBVIOUS
<1>1. FilesOK
  <2>1. tree \in [Parts -> Kinds] /\ WellFormed(tree)
    BY DEF Init
  <2>2. PICK d \in BOOLEAN : inode = Fresh(d) /\ (d => Seen(Depth) = "file")
    BY DEF Init
  <2>3. inode \in Inodes /\ Whole(tree[Depth], inode)
    BY <2>1, <2>2, FreshFacts, SeenFacts, DepthFacts DEF Whole
  <2>4. side \in [kind : Kinds, inode : Inodes] /\ Whole(side.kind, side.inode)
    BY FreshFacts DEF Init, Kinds, Whole
  <2> QED
    BY <2>1, <2>3, <2>4 DEF FilesOK
<1>2. Control
  <2>1. 0 \in 0 .. Depth
    BY DepthAssumption
  <2> QED
    BY <2>1, ToldFacts DEF Init, Control
<1>3. InCall
  BY DEF Init, InCall
<1> QED
  BY <1>1, <1>2, <1>3 DEF IInv

LEMMA StepHolds == IInv /\ [Next]_vars => IInv'
<1> SUFFICES ASSUME IInv, [Next]_vars PROVE IInv'
  OBVIOUS
<1>1. FilesOK'
  BY NextIsFileStep, FileStepKeeps DEF IInv
<1> QED
  BY <1>1, ControlNext, InCallNext DEF IInv

LEMMA Invariance == Spec => []IInv
BY InitHolds, StepHolds, PTL DEF Spec

-----------------------------------------------------------------------------
(* What follows.                                                           *)

\* A tree stays one, whoever works on it; only a file has data; and a number that
\* JS_date and F_size give back fits an int.
THEOREM TypeCorrect == Spec => []TypeOK
<1>1. IInv => TypeOK
  <2> SUFFICES ASSUME IInv PROVE TypeOK
    OBVIOUS
  <2>1. inode.data => Seen(Depth) = "file"
    BY SeenFacts, DepthFacts DEF IInv, FilesOK, Whole
  <2> QED
    BY <2>1 DEF IInv, FilesOK, Control, TypeOK
<1> QED
  BY <1>1, Invariance, PTL

\* MakesOrThrowsForAReason: a mkdirs that returns has made the directory, and neither it
\* nor touch throws but for what was in the way or for what others did.
THEOREM MakesOrThrowsForAReasonHolds == Spec => MakesOrThrowsForAReason
<1> DEFINE A == call # "none" /\ call' = "none" =>
                  IF outcome' = "returned"
                  THEN call = "mkdirs" => (IsDirectory(Depth) \/ "removed" \in others)
                  ELSE blocked \/ others # {} \/ (call = "touch" /\ ~Makeable(Depth))
<1>1. IInv /\ [Next]_vars => [A]_vars
  <2> SUFFICES ASSUME IInv, Next, call # "none", call' = "none" PROVE A
    OBVIOUS
  <2>1. CASE MkdirsReturns
    <3>1. call = "mkdirs" /\ Mkdirs /\ outcome' = "returned" /\ i >= Depth
      BY <2>1 DEF MkdirsReturns, End, Length, IInv, InCall
    <3>2. i = Depth
      BY <3>1, DepthFacts DEF IInv, Control
    <3>3. Depth \in 1 .. i
      BY <3>2, DepthFacts
    <3> QED
      BY <3>1, <3>3, DepthFacts DEF Mkdirs, IsDirectory
  <2>2. CASE MkdirsMake
    <3>1. ~(Part \in Parts /\ Makeable(Part)) /\ outcome' = "threw" /\ pc = "make"
      BY <2>2 DEF MkdirsMake, End
    <3>2. call = "mkdirs" /\ Mkdirs
      BY <3>1 DEF IInv, Control, InCall, Touch
    <3>3. i \in Nat /\ Part \in Parts /\ Part = i + 1 /\ i < Depth
      BY <3>1, <3>2, DepthFacts DEF IInv, Control, Mkdirs, Part, Parts
    <3>4. ASSUME ~blocked, others = {} PROVE FALSE
      <4>1. tree[Part] = "none"
        <5>1. tree[Part] \notin {"file", "toFile", "toNothing"} /\ Seen(Part) # "dir"
          BY <3>1, <3>2, <3>3, <3>4 DEF Mkdirs
        <5> QED
          BY <3>3, <5>1, SeenFacts DEF IInv, FilesOK
      <4>2. ASSUME NEW j \in Parts, j = Part - 1 PROVE tree[j] = "dir"
        <5>1. j \in 1 .. i /\ j # Depth
          BY <3>3, <4>2, DepthFacts
        <5>2. tree[j] \in {"dir", "toDir"}
          BY <3>2, <3>4, <5>1, SeenFacts DEF Mkdirs, IInv, FilesOK
        <5> QED
          BY <5>1, <5>2 DEF IInv, FilesOK, WellFormed, Links
      <4> QED
        BY <3>1, <3>3, <4>1, <4>2 DEF Makeable, InDirectory
    <3> QED
      BY <3>1, <3>4 DEF IInv, Control
  <2>3. CASE TouchThrows
    <3>1. call = "touch"
      BY <2>3 DEF TouchThrows, IInv, InCall, Mkdirs, Control
    <3> QED
      BY <2>3, <3>1 DEF TouchThrows, End
  <2>4. CASE \E t \in Times : TouchStamps(t)
    <3>1. call = "touch" /\ Touch /\ pc = "utime"
      BY <2>4 DEF TouchStamps, IInv, InCall, Mkdirs, Control
    <3>2. Exists(Depth) => outcome' = "returned"
      BY <2>4 DEF TouchStamps, End
    <3> QED
      BY <3>1, <3>2 DEF Touch
  <2>5. CASE MkdirsTest \/ TouchTest \/ TouchWrites \/ Other
    BY <2>5 DEF MkdirsTest, TouchTest, TouchWrites, Other, OtherMakes, OtherRemoves, OtherWrites
  <2>6. CASE Calls
    <3>1. call = "none"
      BY <2>6 DEF Calls, F_mkdir, F_rmdir, F_remove, F_symlink, F_rename, F_renameBack,
                  F_mtime, F_size, F_test, Single, Returns
    <3> QED
      BY <3>1
  <2>7. CASE Begin("mkdirs") \/ Begin("touch")
    BY <2>7 DEF Begin
  <2> QED
    BY <2>1, <2>2, <2>3, <2>4, <2>5, <2>6, <2>7 DEF Next, Own
<1>2. Spec => [][A]_vars
  BY <1>1, Invariance, PTL DEF Spec
<1> QED
  BY <1>2 DEF MakesOrThrowsForAReason

\* What is not a file has no data to lose.
LEMMA KeepsHolding ==
  ASSUME FilesOK, NEW k \in Parts, NEW kind \in Kinds, NEW d \in BOOLEAN,
         Becomes(k, kind, d), side' = side,
         k = Depth => tree[Depth] \notin {"file", "toFile"}
  PROVE  ~(Holding' < Holding)
<1>1. CASE k = Depth
  <2>1. ~inode.data
    BY <1>1 DEF FilesOK, Whole
  <2> QED
    BY <2>1 DEF Holding
<1>2. CASE k # Depth
  <2>1. inode' = inode
    BY <1>2 DEF Becomes
  <2> QED
    BY <2>1 DEF Holding
<1> QED
  BY <1>1, <1>2

\* KeepsData: of all that a program can call on a path, only a remove() of the file and a
\* rename() onto one lose what a file holds, and only when they return.
THEOREM KeepsDataHolds == Spec => KeepsData
<1> DEFINE Loses == /\ outcome' = "returned"
                    /\ \/ F_remove(Depth)
                       \/ F_rename /\ side.inode.data
                       \/ F_renameBack /\ inode.data
           A == (Own \/ Calls) /\ Holding' < Holding => Loses
<1>1. IInv /\ [Next]_vars => [A]_vars
  <2> SUFFICES ASSUME IInv, Own \/ Calls, Holding' < Holding PROVE Loses
    OBVIOUS
  <2> USE DEF IInv
  <2>0. ASSUME UNCHANGED files PROVE FALSE
    BY <2>0 DEF files, Holding
  <2>1. ASSUME NEW k \in Parts, NEW kind \in Kinds, NEW d \in BOOLEAN,
               Becomes(k, kind, d), side' = side,
               k = Depth => tree[Depth] \notin {"file", "toFile"}
        PROVE  FALSE
    BY <2>1, KeepsHolding
  <2>2. ASSUME NEW k \in Parts, Makeable(k), NEW kind \in Kinds, NEW d \in BOOLEAN,
               Becomes(k, kind, d), side' = side
        PROVE  FALSE
    BY <2>1, <2>2 DEF Makeable
  <2>3. CASE Own
    <3>1. CASE MkdirsTest \/ MkdirsReturns \/ TouchTest \/ TouchThrows
      BY <2>0, <3>1 DEF MkdirsTest, MkdirsReturns, TouchTest, TouchThrows
    <3>2. CASE MkdirsMake
      BY <2>0, <2>2, <3>2 DEF MkdirsMake, files, Kinds
    <3>3. CASE TouchWrites
      <4>1. CASE Makeable(Depth) /\ Becomes(Depth, "file", FALSE)
        BY <2>2, <3>3, <4>1, DepthFacts DEF TouchWrites, Kinds
      <4>2. CASE tree[Depth] = "toNothing" /\ Becomes(Depth, "toFile", FALSE)
        BY <2>1, <3>3, <4>2, DepthFacts DEF TouchWrites, Kinds, Links
      <4>3. CASE Seen(Depth) = "file" /\ inode' = [inode EXCEPT !.data = DataAfterOpen]
                   /\ tree' = tree
        <5>1. inode'.data = inode.data /\ side' = side
          BY <3>3, <4>3 DEF TouchWrites, DataAfterOpen, FilesOK, Inodes
        <5> QED
          BY <5>1 DEF Holding
      <4> QED
        BY <3>3, <4>1, <4>2, <4>3 DEF TouchWrites
    <3>4. CASE \E t \in Times : TouchStamps(t)
      <4>1. inode'.data = inode.data /\ side' = side
        BY <3>4 DEF TouchStamps, Inode
      <4> QED
        BY <4>1 DEF Holding
    <3> QED
      BY <2>3, <3>1, <3>2, <3>3, <3>4 DEF Own
  <2>4. ASSUME NEW k \in Parts, F_mkdir(k) PROVE FALSE
    BY <2>0, <2>2, <2>4 DEF F_mkdir, Single, Kinds
  <2>5. ASSUME NEW k \in Parts, F_rmdir(k) PROVE FALSE
    BY <2>0, <2>1, <2>5 DEF F_rmdir, Single, Kinds
  <2>6. ASSUME NEW k \in Parts, F_remove(k) PROVE Loses
    <3>1. tree[k] \in {"file"} \cup Links /\ Becomes(k, "none", FALSE) /\ side' = side
          /\ outcome' = "returned"
      BY <2>0, <2>6 DEF F_remove, Single
    <3>2. k = Depth
      BY <2>1, <3>1 DEF Kinds
    <3> QED
      BY <2>6, <3>1, <3>2
  <2>7. ASSUME NEW kind \in Links, NEW d \in BOOLEAN, F_symlink(kind, d) PROVE FALSE
    <3> DEFINE b == d /\ kind = "toFile"
    <3>1. b \in BOOLEAN /\ kind \in Kinds
      BY DEF Kinds
    <3>2. Makeable(Depth) /\ Becomes(Depth, kind, b) /\ side' = side
      BY <2>0, <2>7 DEF F_symlink, Single
    <3> HIDE DEF b
    <3> QED
      BY <2>2, <3>1, <3>2, DepthFacts
  <2>8. ASSUME F_rename PROVE Loses
    <3>1. /\ side' = [kind |-> tree[Depth], inode |-> inode]
          /\ Becomes(Depth, "none", FALSE) /\ outcome' = "returned"
      BY <2>0, <2>8 DEF F_rename, Single
    <3>2. side'.inode = inode
      BY <3>1
    <3>3. side.inode.data
      BY <3>2 DEF Holding, FilesOK, Inodes
    <3> QED
      BY <2>8, <3>1, <3>3
  <2>9. ASSUME F_renameBack PROVE Loses
    <3>1. inode' = side.inode /\ outcome' = "returned"
      BY <2>0, <2>9 DEF F_renameBack, Single
    <3>2. inode.data
      BY <3>1 DEF Holding, FilesOK, Inodes
    <3> QED
      BY <2>9, <3>1, <3>2
  <2>10. \A n, garbage : ~Returns(n, garbage)
    BY <2>0 DEF Returns
  <2>11. CASE Calls
    BY <2>4, <2>5, <2>6, <2>7, <2>8, <2>9, <2>10, <2>11 DEF Calls, F_mtime, F_size, F_test
  <2> QED
    BY <2>3, <2>11
<1>2. Spec => [][A]_vars
  BY <1>1, Invariance, PTL DEF Spec
<1> QED
  BY <1>2 DEF KeepsData
=============================================================================
