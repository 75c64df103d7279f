------------------------------ MODULE Streams ------------------------------
(***************************************************************************)
(* The stream objects of the io and file modules and the descriptors they  *)
(* hold: class IO (a pair of descriptors), F_FileIO, which opens a file    *)
(* and hands the descriptor to a new IO, and the text streams that         *)
(* io-engine.js and io-engine.cc put on top of an IO.                      *)
(*                                                                         *)
(* JavaScript runs on one thread and none of these functions calls back    *)
(* into it, so each is one action.  A call that throws before it opens     *)
(* anything changes no variable and is a stuttering step.  So is the       *)
(* collection of an unreachable object: the V8 build makes no weak handle  *)
(* for an IO, nothing ever runs IO_finalize, the descriptor stays open.    *)
(***************************************************************************)
EXTENDS Descriptors

CONSTANTS
  Stdin, Stdout, Stderr,     \* the IO objects that lib/system.js makes
  FileIOs,                   \* the IO objects that F_FileIO can make
  SysIn, SysOut, SysErr,     \* the text streams that lib/system.js makes
  TextStreams,               \* the text streams a program makes on a FileIO
  Modes                      \* the modes that programs ask for

StdIOs     == {Stdin, Stdout, Stderr}
StdStreams == {SysIn, SysOut, SysErr}

ASSUME StdFdAssumption == MaxFd >= 3
ASSUME StdIOsAssumption ==
  /\ Stdin # Stdout /\ Stdin # Stderr /\ Stdout # Stderr
  /\ StdIOs \cap FileIOs = {}
ASSUME StdStreamsAssumption ==
  /\ SysIn # SysOut /\ SysIn # SysErr /\ SysOut # SysErr
  /\ StdStreams \cap TextStreams = {}

VARIABLES
  fds,       \* the descriptor table: descriptor -> open file description
  descs,     \* how many descriptions have been opened; names the next one
  io,        \* IOPrivate of every IO object made so far
  given,     \* ghost: what each IO object was made for: description and mode
  stream     \* the text streams: class, raw object, cached descriptor

vars == <<fds, descs, io, given, stream>>

\* What file.mode() (external) makes of the mode argument.
AllModes == [read : BOOLEAN, write : BOOLEAN, append : BOOLEAN, update : BOOLEAN]

ASSUME ModesAssumption == Modes \subseteq AllModes

NoMode == [read |-> FALSE, write |-> FALSE, append |-> FALSE, update |-> FALSE]

Descriptions == [id : Nat, access : {"RDONLY", "WRONLY"}]

\* IO() that leaves the second field of IOPrivate as malloc() gave it (a mutant).
BugUninitialized(in, out) == [input |-> in, output |-> IF out = -1 THEN MaxFd ELSE out]

IO_constructor(in, out) == [input |-> in, output |-> out]

\* The descriptors that an IO object would close.
Held(o) == {io[o].input, io[o].output} \ {-1}

-----------------------------------------------------------------------------
(* Mutants: the code with a slip in it, to show that the properties bite.  *)

BugCacheOutput(o)       == io[o].output
BugNoReset(o) ==
  /\ fds' = CloseAll(fds, Held(o))
  /\ UNCHANGED <<descs, io, given, stream>>
BugCloseInputOnly(o) ==
  /\ fds' = CloseAll(fds, {io[o].input})
  /\ io'  = [io EXCEPT ![o] = IO_constructor(-1, -1)]
  /\ UNCHANGED <<descs, given, stream>>

-----------------------------------------------------------------------------
(* lib/system.js has run: three IO objects, one text stream on each.       *)

StdIO(o) == CASE o = Stdin  -> IO_constructor(0, -1)
              [] o = Stdout -> IO_constructor(-1, 1)
              [] o = Stderr -> IO_constructor(-1, 2)

StdDescription(f) == [id |-> f, access |-> IF f = 0 THEN "RDONLY" ELSE "WRONLY"]

StdStream(s) ==
  CASE s = SysIn  -> [kind |-> "input",  raw |-> Stdin,  input |-> 0]
    [] s = SysOut -> [kind |-> "output", raw |-> Stdout, input |-> -1]
    [] s = SysErr -> [kind |-> "output", raw |-> Stderr, input |-> -1]

Init ==
  /\ fds    = [f \in 0 .. 2 |-> StdDescription(f)]
  /\ descs  = 3
  /\ io     = [o \in StdIOs |-> StdIO(o)]
  /\ given  = [o \in StdIOs |->
                [desc |-> StdDescription(CASE o = Stdin  -> 0
                                           [] o = Stdout -> 1
                                           [] o = Stderr -> 2),
                 mode |-> NoMode]]
  /\ stream = [s \in StdStreams |-> StdStream(s)]

-----------------------------------------------------------------------------
(* The access mode in oflag: O_RDONLY is 0 and O_APPEND is no access mode. *)
Access(m) == IF m.write THEN "WRONLY" ELSE "RDONLY"

\* FileIO(path, mode) where open() succeeds.  With update, with no mode, and
\* when open() fails (no such file, table full) it throws: nothing changes.
F_FileIO(o, m) ==
  /\ o \in FileIOs \ DOMAIN io
  /\ ~m.update
  /\ m.write \/ m.append \/ m.read
  /\ Unused(fds) # {}
  /\ LET desc   == [id |-> descs, access |-> Access(m)]
         opened == Install(fds, desc)
     IN  /\ fds'   = opened.tab
         /\ io'    = Bind(io, o, IF m.write \/ m.append
                                 THEN IO_constructor(-1, opened.fd)
                                 ELSE IO_constructor(opened.fd, -1))
         /\ given' = Bind(given, o, [desc |-> desc, mode |-> m])
  /\ descs' = descs + 1
  /\ UNCHANGED stream

\* Which class TextIOWrapper makes for a mode that F_FileIO accepts.
WrapperKind(m) == IF m.write \/ m.append THEN "output" ELSE "input"

\* TextInputStream_constructor copies the descriptor out of its raw object.
CachedInput(o) == io[o].input

\* TextIOWrapper(raw, mode) on the raw object that FileIO(path, mode) made.
\* When iconv_open() rejects the charset the constructor throws: the raw
\* object stays as it is, with its descriptor open.
TextIOWrapper(s, o) ==
  /\ s \in TextStreams \ DOMAIN stream
  /\ o \in FileIOs \cap DOMAIN io
  /\ LET kind == WrapperKind(given[o].mode)
     IN  stream' = Bind(stream, s,
                     [kind |-> kind, raw |-> o,
                      input |-> IF kind = "input" THEN CachedInput(o) ELSE -1])
  /\ UNCHANGED <<fds, descs, io, given>>

IO_close(o) ==
  /\ fds' = CloseAll(fds, Held(o))
  /\ io'  = [io EXCEPT ![o] = IO_constructor(-1, -1)]
  /\ UNCHANGED <<descs, given, stream>>

\* TextInputStream.close and TextOutputStream.close: the cached descriptor
\* of a TextInputStream is not reset.
TextStream_close(s) == IO_close(stream[s].raw)

Next ==
  \/ \E o \in FileIOs, m \in Modes : F_FileIO(o, m)
  \/ \E s \in TextStreams, o \in FileIOs : TextIOWrapper(s, o)
  \/ \E o \in DOMAIN io : IO_close(o)
  \/ \E s \in DOMAIN stream : TextStream_close(s)

Spec == Init /\ [][Next]_vars

-----------------------------------------------------------------------------
IsOpen(o) == Held(o) # {}

\* The type invariant: the tables hold what IOPrivate and
\* TextInputStreamPrivate hold, and every stream has a raw object.
TypeOK ==
  /\ DOMAIN fds \subseteq Fd
  /\ \A f \in DOMAIN fds : fds[f] \in Descriptions
  /\ descs \in Nat
  /\ StdIOs \subseteq DOMAIN io /\ DOMAIN io \subseteq StdIOs \cup FileIOs
  /\ DOMAIN given = DOMAIN io
  /\ \A o \in DOMAIN io : /\ io[o] \in [input : Fd \cup {-1}, output : Fd \cup {-1}]
                          /\ given[o] \in [desc : Descriptions, mode : AllModes]
  /\ StdStreams \subseteq DOMAIN stream
  /\ DOMAIN stream \subseteq StdStreams \cup TextStreams
  /\ \A s \in DOMAIN stream :
       stream[s] \in [kind : {"input", "output"}, raw : DOMAIN io, input : Fd \cup {-1}]

\* However opens and closes interleave, a descriptor number in an IO object
\* still denotes the file that was opened for it: what readInto and writeInto
\* use is never a closed number, and never one the kernel has reused for
\* another file.
Ownership ==
  \A o \in DOMAIN io : \A f \in Held(o) :
    f \in DOMAIN fds /\ fds[f] = given[o].desc

\* No two IO objects hold the same descriptor, so no close takes away the
\* descriptor of another object and none is closed twice.
Exclusive ==
  \A o, p \in DOMAIN io : o # p => Held(o) \cap Held(p) = {}

\* The descriptors that no IO object would close.
Orphans == DOMAIN fds \ UNION {Held(o) : o \in DOMAIN io}

\* Every descriptor of the process belongs to an IO object that can close
\* it: opening, wrapping and closing lose none.
NoOrphans == Orphans = {}

\* As long as its raw object is open, a text stream sits on what it was made for: the
\* descriptor that a TextInputStream copied is that of the file, and can be read; a
\* TextOutputStream has one to write to.  F_FileIO and TextIOWrapper each look at the
\* mode for themselves, one in C++ and one in JavaScript, and agree.  (After raw.close()
\* the copy is stale: nothing is promised, see the README.)
StreamCoherent ==
  \A s \in DOMAIN stream :
    LET raw == stream[s].raw
    IN  IsOpen(raw) =>
          IF stream[s].kind = "input"
          THEN /\ stream[s].input \in DOMAIN fds
               /\ fds[stream[s].input] = given[raw].desc
               /\ fds[stream[s].input].access = "RDONLY"
          ELSE io[raw].output \in DOMAIN fds

\* A step releases a descriptor only by closing the object that holds it.
OnlyOwnerReleases ==
  [][\A f \in DOMAIN fds \ DOMAIN fds' :
        \E o \in DOMAIN io : f \in Held(o) /\ Held(o)' = {}]_vars

(* What makes these inductive: what an object and a stream look like while  *)
(* the object is open.                                                     *)

\* An object of F_FileIO that its mode opens for writing has an output; any
\* other has an input whose description can be read.
ModeCoherent ==
  \A o \in FileIOs \cap DOMAIN io :
    IsOpen(o) =>
      IF WrapperKind(given[o].mode) = "output"
      THEN io[o].output \in Fd
      ELSE io[o].input \in Fd /\ given[o].desc.access = "RDONLY"

\* An input stream holds a copy of its raw object's input, which is open for
\* reading; the raw object of an output stream has an output.
CacheCoherent ==
  \A s \in DOMAIN stream :
    LET raw == stream[s].raw
    IN  IsOpen(raw) =>
          IF stream[s].kind = "input"
          THEN /\ io[raw].input \in Fd
               /\ stream[s].input = io[raw].input
               /\ given[raw].desc.access = "RDONLY"
          ELSE io[raw].output \in Fd

\* The objects and the table agree, whoever else has descriptors in it.
Coherent ==
  /\ TypeOK
  /\ Ownership
  /\ Exclusive
  /\ ModeCoherent
  /\ CacheCoherent

IInv == Coherent /\ NoOrphans

\* What lib/io-engine.js:94 says a file may be opened for: "file must be opened
\* for read, write, or append mode".  An object opened to write or to append
\* holds a description that can be written.
WritableOutputs ==
  \A o \in DOMAIN io :
    io[o].output >= 0 => fds[io[o].output].access = "WRONLY"
=============================================================================
