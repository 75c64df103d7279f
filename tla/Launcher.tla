------------------------------ MODULE Launcher ------------------------------
(***************************************************************************)
(* RunMain of narwhal-v8.cc up to the shell: find the program's own file   *)
(* through symbolic links, derive the two home directories from it, set    *)
(* them, and read (ReadFile) and run bootstrap.js.                         *)
(*                                                                         *)
(* A path is a sequence of names, absolute or not; "." vanishes in it.     *)
(* Only the last name of a path is ever a link.  `executable' is a pointer *)
(* in the code, to argv[0] first and then to `buffer', into which the next *)
(* readlink() writes while it is still needed: `inBuffer' keeps track.     *)
(***************************************************************************)
EXTENDS Integers, SequencesExt, FiniteSets

CONSTANTS
  Names,       \* the names in paths
  Links,       \* the possible sets of symbolic links: locations -> targets
  Argv0,       \* the paths that argv[0] may be
  Cwds,        \* the possible working directories
  MaxSize      \* bound on the size of bootstrap.js

Path(abs, names) == [abs |-> abs, names |-> names]

Paths == [abs : BOOLEAN, names : Seq(Names)]

\* A path that somebody names is not empty.
Named(p) == p \in Paths /\ p.names # <<>>

ASSUME LauncherAssumption ==
  /\ MaxSize \in Nat /\ "env" \in Names
  /\ \A p \in Argv0 : Named(p)
  /\ \A d \in Cwds : d \in Seq(Names)
  /\ \A ls \in Links : /\ IsFiniteSet(DOMAIN ls)
                       /\ \A l \in DOMAIN ls : l \in Seq(Names) \ {<<>>} /\ Named(ls[l])

VARIABLES
  argv0, cwd, links,    \* what the process is started with and finds; constant
  overridden,           \* the homes that environment variables give; constant
  pc,                   \* "line" while the shell runs one (Engine)
  executable,           \* what the pointer points to
  inBuffer,             \* does it point to buffer?
  engineHome,           \* NARWHAL_ENGINE_HOME
  home,                 \* NARWHAL_HOME
  fileSize,             \* the length of bootstrap.js, while others edit it
  size,                 \* ReadFile: what ftell() said
  nread                 \* ReadFile: i

world == <<argv0, cwd, links, overridden>>
homes == <<engineHome, home>>
file  == <<fileSize, size, nread>>
vars  == <<world, pc, executable, inBuffer, homes, file>>

\* Where the kernel looks for a path.
Location(p) == IF p.abs THEN p.names ELSE cwd \o p.names

\* dirname(3) (external); that of a single name is ".", here the empty path.
Dirname(p) == [p EXCEPT !.names = IF @ = <<>> THEN @ ELSE Front(@)]

Join(p, q) == Path(p.abs, p.names \o q.names)

EnvHome == Path(TRUE, <<"env">>)
Unset   == Path(FALSE, <<>>)

-----------------------------------------------------------------------------
(* Mutants *)
BugResolved(target)  == IF target.abs THEN target ELSE Join(executable, target)
BugAbsolute(p)       == p

\* readlink() does not return -1.
IsLink(p) == Location(p) \in DOMAIN links

\* What a turn of the loop makes of a link's target.  dirname(executable) is
\* taken after readlink() has filled buffer; from the second turn on that is
\* the target itself, where it should be the link.
Resolved(target) ==
  IF target.abs THEN target
  ELSE Join(Dirname(IF inBuffer THEN target ELSE executable), target)

\* "make absolute"
Absolute(p) == IF p.abs THEN p ELSE Path(TRUE, cwd \o p.names)

Grandparent(p) == Dirname(Dirname(p))

\* Nothing of the launch is of use any more.
Forgets ==
  /\ argv0' = CHOOSE p \in Argv0 : TRUE
  /\ cwd' = CHOOSE d \in Cwds : TRUE
  /\ links' = CHOOSE ls \in Links : TRUE
  /\ overridden' = {} /\ inBuffer' = FALSE
  /\ executable' = Unset /\ engineHome' = Unset /\ home' = Unset
  /\ fileSize' = 0 /\ size' = 0 /\ nread' = 0

\* The end of ReadFile's loop.
ReadDone == nread >= size

-----------------------------------------------------------------------------
Init ==
  /\ argv0 \in Argv0 /\ cwd \in Cwds /\ links \in Links
  /\ overridden \in SUBSET {"engineHome", "home"}
  /\ pc = "follow"
  /\ executable = argv0 /\ inBuffer = FALSE
  /\ engineHome = Unset /\ home = Unset
  /\ fileSize \in 0 .. MaxSize /\ size = 0 /\ nread = 0

Follow ==
  /\ pc = "follow" /\ IsLink(executable)
  /\ executable' = Resolved(links[Location(executable)])
  /\ inBuffer' = TRUE
  /\ UNCHANGED <<world, pc, homes, file>>

\* Absolute paths stay.  A relative one in buffer is printed into buffer, over
\* itself: undefined.
MakeAbsolute ==
  /\ pc = "follow" /\ ~IsLink(executable)
  /\ IF ~executable.abs /\ inBuffer
     THEN pc' = "undefined" /\ UNCHANGED executable
     ELSE pc' = "homes" /\ executable' = Absolute(executable)
  /\ UNCHANGED <<world, inBuffer, homes, file>>

\* The homes: from the environment, or from the path of the program.
FindHomes ==
  /\ pc = "homes"
  /\ engineHome' = IF "engineHome" \in overridden THEN EnvHome ELSE Grandparent(executable)
  /\ home' = IF "home" \in overridden THEN EnvHome ELSE Grandparent(engineHome')
  /\ pc' = "setup"
  /\ UNCHANGED <<world, executable, inBuffer, file>>

\* The two assignments are run as scripts.  They fail when a quote in the path
\* makes them something else.
SetUp(ok) ==
  /\ pc = "setup"
  /\ pc' = IF ok THEN "open" ELSE "exit"
  /\ UNCHANGED <<world, executable, inBuffer, homes, file>>

\* ReadFile: fopen() finds no file, or ftell() its size.
Open(found) ==
  /\ pc = "open"
  /\ pc' = IF found THEN "read" ELSE "exit"
  /\ size' = IF found THEN fileSize ELSE 0
  /\ UNCHANGED <<world, executable, inBuffer, homes, fileSize, nread>>

\* A turn of its loop: fread() hands over some of what it was asked for, or
\* nothing at the end of the file.
ReadTurn(k) ==
  /\ pc = "read" /\ ~ReadDone
  /\ nread + k <= size
  /\ IF nread < fileSize THEN k > 0 /\ nread + k <= fileSize ELSE k = 0
  /\ nread' = nread + k
  /\ UNCHANGED <<world, pc, executable, inBuffer, homes, fileSize, size>>

\* bootstrap.js is run; a script that throws ends the program.  RunMain looks at
\* nothing of this again once the shell runs, and the model forgets it, which keeps
\* the states of the launcher from multiplying those of what comes after it.
Bootstrap(ok) ==
  /\ pc = "read" /\ ReadDone
  /\ IF ok
     THEN /\ pc' = "shell"
          /\ Forgets
     ELSE pc' = "exit" /\ UNCHANGED <<world, executable, inBuffer, homes, file>>

\* Somebody else edits bootstrap.js.
Edit(n) ==
  /\ pc \in {"open", "read"}
  /\ fileSize' = n
  /\ UNCHANGED <<world, pc, executable, inBuffer, homes, size, nread>>

Step ==
  \/ Follow
  \/ MakeAbsolute
  \/ FindHomes
  \/ \E ok \in BOOLEAN : SetUp(ok) \/ Open(ok) \/ Bootstrap(ok)
  \/ \E k \in 0 .. MaxSize : ReadTurn(k)

Next == Step \/ \E n \in 0 .. MaxSize : Edit(n)

\* The launcher runs on by itself, whatever others do.
Spec == Init /\ [][Next]_vars /\ WF_vars(Step)

-----------------------------------------------------------------------------
TypeOK ==
  /\ argv0 \in Argv0 /\ cwd \in Cwds /\ links \in Links
  /\ {executable, engineHome, home} \subseteq Paths
  /\ pc \in {"follow", "homes", "setup", "open", "read", "shell", "line", "exit", "undefined"}
  /\ size \in 0 .. MaxSize /\ nread \in 0 .. size /\ fileSize \in 0 .. MaxSize
  /\ pc \in {"homes", "setup", "open", "read"} => executable.abs

\* What links mean: a relative target starts at the directory of its link.
RightTarget(l) ==
  IF links[l].abs THEN links[l].names ELSE Front(l) \o links[l].names

\* Where argv[0] leads after n links, or as many as there are.
Hops ==
  LET hop[n \in 0 .. Cardinality(DOMAIN links)] ==
        IF n = 0 THEN Location(argv0)
        ELSE IF hop[n - 1] \in DOMAIN links THEN RightTarget(hop[n - 1]) ELSE hop[n - 1]
  IN  hop

Program  == Hops[Cardinality(DOMAIN links)]
Circular == Program \in DOMAIN links

\* Of the links on the way, only the first is relative.  A later one is resolved
\* against itself: narwhal-v8.cc:105 says "make relative to symlink's
\* directory", and that is true of the first alone.
RelativeFirst ==
  \A n \in DOMAIN Hops \ {0} : Hops[n] \in DOMAIN links => links[Hops[n]].abs

\* Whatever the working directory, the links and argv[0], the engine's home is
\* two directories up from the program's real file, unless the environment
\* says otherwise; Narwhal's is two up from that.
HomesBesideProgram ==
  pc \in {"setup", "open", "read"} /\ RelativeFirst =>
    /\ "engineHome" \notin overridden =>
         engineHome = Grandparent(Path(TRUE, Program))
    /\ "home" \notin overridden => home = Grandparent(engineHome)

\* The launcher gets to the shell or exits, or stops at the undefined.  What can keep it
\* from that: links in a circle; a second relative link, which is resolved against
\* itself and may lead back to where the chain came from although the links go round in no
\* circle (/a/x -> /a/b/y -> x, started in /a, for one); and a bootstrap.js that is shorter
\* than it was when ReadFile asked for its size, which then waits for the rest for ever.
Stopped  == pc \in {"shell", "line", "exit", "undefined"}
TooShort == pc = "read" /\ fileSize < size

\* Every turn of the loop goes where its link leads: "make relative to symlink's
\* directory", as narwhal-v8.cc:105 has it.  The code does so in the first turn only.
RelativeToLink ==
  [][Follow => Location(executable') = RightTarget(Location(executable))]_vars
=============================================================================
