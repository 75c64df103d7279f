------------------------------- MODULE Loader -------------------------------
(***************************************************************************)
(* How modules come into the program: NW_requireNative (narwhal-v8.cc) and *)
(* the NativeLoader of bootstrap.js, the factories that NARWHAL_MODULE     *)
(* makes (narwhal.h), and what each module of the repository does while it *)
(* is loaded: it requires others, which may require it in turn, takes      *)
(* names from their exports and adds names to its own.                     *)
(*                                                                         *)
(* require() itself and the modules io, file, os, binary and logger are    *)
(* part of Narwhal (external): a module that is being loaded is handed out *)
(* as far as it has come, and whether one whose loading failed is kept is  *)
(* left open.                                                              *)
(***************************************************************************)
EXTENDS Integers, SequencesExt, FiniteSets

CONSTANTS
  Disks,       \* what may be in the places of the libraries at first
  Variables,   \* the names in the environment, all different
  MaxCalls     \* bound on the calls from outside: require() and reload()

Natives   == {"io-engine", "file-engine", "os-engine", "binary-engine", "system"}
Scripts   == {"io-engine.js", "file-engine.js", "os-engine.js", "system.js"}
Externals == {"io", "file", "os", "binary", "logger"}
Ids       == Natives \cup Scripts \cup Externals

\* What dlopen() can make nothing of - there is no file, or not one that it takes -
\* is missing.  A library that it takes, but that lacks the symbols that dlsym() asks
\* for, is broken.
Library == {"missing", "broken", "good"}

ASSUME LoaderAssumption ==
  /\ Disks \subseteq [Natives -> Library] /\ Disks # {}
  /\ MaxCalls \in Nat

VARIABLES
  disk,        \* what is in the place of each library
  handle,      \* what dlopen() has brought into the process: nothing is closed
  factories,   \* of NativeLoader: "unasked", "null" or "factory"
  exports,     \* the modules that require() knows, with the names they export
  stack,       \* the modules being loaded, the innermost last, and how far each is
  environ,     \* the variables whose strings are whole: getenv(), and a child, find them
  env,         \* the variables in the env of the system module
  calls,       \* the calls from outside: what they were about, and were they reload()?
  outcome,     \* how the last of them ended: "ok", "threw" - or "crashed", and the process is gone
  asked,       \* ghost: the libraries that were asked for before they were good
  missed,      \* ghost: the names that a module looked for and did not find
  cuts         \* ghost: how often the system module has gone through the environment

loaderVars == <<disk, handle, factories, exports, stack, environ, env, calls, outcome,
               asked, missed, cuts>>

-----------------------------------------------------------------------------
(* What a module does while it is loaded, statement by statement.          *)

\* require(m), and the names that are then taken from its exports: a name that is
\* not there is undefined, and the module goes on with that (Takes) or throws
\* when it makes use of it at once (Needs).
Takes(m, names) == [op |-> "takes", of |-> m, names |-> names]
Needs(m, names) == [op |-> "needs", of |-> m, names |-> names]
Sets(m, names)  == [op |-> "sets", of |-> m, names |-> names]
Copies(m)       == [op |-> "copies", of |-> m, names |-> {}]
CutsEnv         == [op |-> "cuts", of |-> "system", names |-> {"env", "args"}]

IOClasses  == {"IO", "TextInputStream", "STDIN_FILENO"}
Bs         == {"B_ALLOC", "B_COPY"}
FileNames  == {"FileIO", "isDirectory", "mkdir", "touchImpl"}
StdNames   == {"stdin", "stdout", "stderr", "fs", "log"}

(* Mutants *)
BugLate_io_engine ==
  <<Sets("io-engine", {"IO", "TextInputStream"}), Needs("io-engine.js", {}),
    Sets("io-engine", {"STDIN_FILENO"})>>
Bug_file_engine ==
  <<Needs("file", {}), Needs("io", {}), Sets("file-engine", FileNames),
    Takes("file-engine.js", {"mkdirs", "touch"}), Sets("file", {"mkdirs", "touch"})>>

io_engine     == <<Sets("io-engine", IOClasses), Needs("io-engine.js", {})>>
binary_engine == <<Sets("binary-engine", Bs)>>

\* Its EXPORTS go to the exports of file: `Exports' is set to them.
file_engine ==
  <<Needs("file", {}), Needs("io", {}), Sets("file", FileNames),
    Takes("file-engine.js", {"mkdirs", "touch"}), Sets("file", {"mkdirs", "touch"})>>

\* What require("io") returns is not tested; the IO in it is taken by the statement
\* after, the last, and only that one may throw.
os_engine ==
  <<Sets("os-engine", {"exit", "systemImpl", "popenImpl"}), Needs("os-engine.js", {}),
    Needs("io", {}), Needs("io", {"IO"})>>

system_ == <<Takes("system.js", StdNames), Sets("system", StdNames), CutsEnv>>

io_engine_js ==
  <<Needs("io-engine", {}), Takes("binary", {"ByteString"}), Takes("binary-engine", Bs),
    Needs("io-engine", {"IO"}), Sets("io-engine", {"ByteIO", "TextIOWrapper"}),
    Needs("io-engine", {"TextInputStream"}), Sets("io-engine", {"TextOutputStream"})>>

file_engine_js == <<Needs("file", {}), Sets("file-engine.js", {"mkdirs", "touch"})>>

os_engine_js ==
  <<Needs("os-engine", {}), Needs("io", {}), Sets("os-engine", {"system", "popen"})>>

system_js ==
  <<Needs("io", IOClasses \cup {"TextOutputStream"}),
    Sets("system.js", {"stdin", "stdout", "stderr", "args", "env"}),
    Needs("file", {}), Sets("system.js", {"fs"}),
    Needs("logger", {"Logger"}), Sets("system.js", {"log"})>>

\* The modules of Narwhal, as far as those above count on them.
external(m) ==
  CASE m = "io"     -> <<Needs("io-engine", {}), Copies("io-engine")>>
    [] m = "file"   -> <<Sets("file", {"mode"}), Needs("io", {}), Needs("file-engine", {})>>
    [] m = "os"     -> <<Needs("os-engine", {}), Copies("os-engine")>>
    [] m = "binary" -> <<Takes("binary-engine", Bs), Sets("binary", {"ByteString"})>>
    [] m = "logger" -> <<Sets("logger", {"Logger"})>>

Body ==
  [m \in Ids |->
     CASE m = "io-engine"      -> io_engine
       [] m = "binary-engine"  -> binary_engine
       [] m = "file-engine"    -> file_engine
       [] m = "os-engine"      -> os_engine
       [] m = "system"         -> system_
       [] m = "io-engine.js"   -> io_engine_js
       [] m = "file-engine.js" -> file_engine_js
       [] m = "os-engine.js"   -> os_engine_js
       [] m = "system.js"      -> system_js
       [] m \in Externals      -> external(m)]

-----------------------------------------------------------------------------
(* Mutants *)
BugResult(l)       == IF disk[l] = "missing" THEN "null" ELSE "factory"
BugCutsOff(n)      == n # CHOOSE v \in Variables : TRUE

\* What dlopen() gives: what is in the process already, or else in the place.  Where
\* it gives nothing, nothing stays in the process; a library that lacks its symbols does.
Opened(l) == IF handle[l] = "missing" THEN disk[l] ELSE handle[l]

\* requireNative: a factory, or null when dlopen() or dlsym() finds nothing.
Result(l) == IF Opened(l) = "good" THEN "factory" ELSE "null"

\* Does loader.load() go on to reload()?
Loads(l) == factories[l] = "unasked"

\* The innermost module goes on to its next statement.
After(f) == [f EXCEPT !.at = @ + 1]

\* Does the cut at the '=' of a variable's string come out in env?
CutsOff(n) == TRUE

Call(m, re) == [of |-> m, reload |-> re]
Top         == Last(stack)
Statement   == Body[Top.id][Top.at]
Loading     == {stack[i].id : i \in DOMAIN stack}
Known       == DOMAIN exports
Found(m)    == IF m \in Known THEN exports[m] ELSE {}
With(m, ns) == [k \in Known \cup {m} |-> IF k = m THEN Found(m) \cup ns ELSE exports[k]]

\* require() returns an empty handle when the module throws, and a factory that
\* goes on - with the handle, or with more calls while the exception is pending -
\* does something undefined.  Only one that has nothing left to do passes it on.
FrameCrashes(f) == f.id \in Natives /\ f.at < Len(Body[f.id])

\* An exception goes through everything that is being loaded, from frame fs on.
Throws(fs, kept) ==
  /\ stack' = <<>>
  /\ outcome' = IF \E i \in DOMAIN fs : FrameCrashes(fs[i]) THEN "crashed" ELSE "threw"
  /\ exports' = IF kept THEN exports
                ELSE [m \in Known \ {fs[i].id : i \in DOMAIN fs} |-> exports[m]]

-----------------------------------------------------------------------------
LoaderInit ==
  /\ disk \in Disks
  /\ handle = [l \in Natives |-> "missing"]
  /\ factories = [l \in Natives |-> "unasked"]
  /\ exports = <<>> /\ stack = <<>>
  /\ environ = Variables /\ env = {}
  /\ calls = <<>> /\ outcome = "ok"
  /\ asked = {} /\ missed = {} /\ cuts = 0

\* loader.reload(): the library's factory, or null, is what load() gives from now on.
Fetch(l) ==
  /\ handle' = [handle EXCEPT ![l] = Opened(l)]
  /\ factories' = [factories EXCEPT ![l] = Result(l)]
  /\ asked' = IF Opened(l) = "good" THEN asked ELSE asked \cup {l}

\* require(m) of a module that is not known: its exports are empty, and it is loaded.
\* The call of a factory that is null throws.
Load(m, fs) ==
  /\ IF m \in Natives /\ Loads(m) THEN Fetch(m)
                                  ELSE UNCHANGED <<handle, factories, asked>>
  /\ IF m \in Natives /\ factories'[m] = "null"
     THEN \E kept \in BOOLEAN : Throws(fs, kept)
     ELSE /\ stack' = Append(fs, [id |-> m, at |-> 1])
          /\ exports' = With(m, {})
          /\ outcome' = "ok"
  /\ UNCHANGED <<environ, env, missed, cuts>>

\* The program (or the shell) requires a module.
Require(m) ==
  /\ stack = <<>> /\ outcome # "crashed" /\ Len(calls) < MaxCalls
  /\ calls' = Append(calls, Call(m, FALSE))
  /\ IF m \in Known THEN outcome' = "ok" /\ UNCHANGED <<handle, factories, asked, stack,
                                                         exports, environ, env, missed, cuts>>
                     ELSE Load(m, <<>>)
  /\ UNCHANGED disk

(* Mutant *)
BugReload(l) ==
  /\ stack = <<>> /\ outcome # "crashed" /\ Len(calls) < MaxCalls
  /\ calls' = Append(calls, Call(l, TRUE))
  /\ Fetch(l)
  /\ exports' = [m \in Known \ Natives |-> exports[m]]
  /\ outcome' = "ok"
  /\ UNCHANGED <<disk, stack, environ, env, missed, cuts>>

\* The program has a native module loaded anew: its factory will run again.
Reload(l) ==
  /\ stack = <<>> /\ outcome # "crashed" /\ Len(calls) < MaxCalls
  /\ calls' = Append(calls, Call(l, TRUE))
  /\ Fetch(l)
  /\ exports' = [m \in Known \ {l} |-> exports[m]]
  /\ outcome' = "ok"
  /\ UNCHANGED <<disk, stack, environ, env, missed, cuts>>

\* A statement requires a module: it is loaded first, unless it is known.
RequiresNew ==
  /\ Statement.op \in {"takes", "needs"} /\ Statement.of \notin Known
  /\ Load(Statement.of, stack)

RequiresKnown ==
  /\ Statement.op \in {"takes", "needs"} /\ Statement.of \in Known
  /\ LET absent == Statement.names \ Found(Statement.of)
     IN  /\ missed' = missed \cup ({Statement.of} \X absent)
         /\ IF Statement.op = "needs" /\ absent # {}
            THEN \E kept \in BOOLEAN : Throws(stack, kept)
            ELSE stack' = Front(stack) \o <<After(Top)>> /\ UNCHANGED <<exports, outcome>>
  /\ UNCHANGED <<handle, factories, environ, env, asked, cuts>>

\* A statement adds names to the exports of a module.
SetsNames ==
  /\ Statement.op \in {"sets", "copies"}
  /\ exports' = IF Statement.op = "sets" THEN With(Statement.of, Statement.names)
                                          ELSE With(Top.id, Found(Statement.of))
  /\ stack' = Front(stack) \o <<After(Top)>>
  /\ UNCHANGED <<handle, factories, environ, env, outcome, asked, missed, cuts>>

\* The system module cuts the strings of the environment at their '=' and puts
\* what it finds into env.  Where there is no '=' any more it writes to address 0.
CutsEnvironment ==
  /\ Statement.op = "cuts"
  /\ cuts' = cuts + 1
  /\ IF environ = Variables
     THEN /\ environ' = {} /\ env' = {n \in Variables : CutsOff(n)}
          /\ exports' = With("system", Statement.names)
          /\ stack' = Front(stack) \o <<After(Top)>>
          /\ UNCHANGED outcome
     ELSE outcome' = "crashed" /\ stack' = <<>> /\ UNCHANGED <<environ, env, exports>>
  /\ UNCHANGED <<handle, factories, asked, missed>>

Execute ==
  /\ stack # <<>> /\ Top.at \in DOMAIN Body[Top.id]
  /\ RequiresNew \/ RequiresKnown \/ SetsNames \/ CutsEnvironment
  /\ UNCHANGED <<disk, calls>>

\* The innermost module is loaded; what required it goes on.
Finish ==
  /\ stack # <<>> /\ Top.at \notin DOMAIN Body[Top.id]
  /\ stack' = Front(stack)
  /\ outcome' = IF Len(stack) = 1 THEN "ok" ELSE outcome
  /\ UNCHANGED <<disk, handle, factories, exports, environ, env, calls, asked,
                 missed, cuts>>

\* Somebody puts a good library in its place.
Build(l) ==
  /\ stack = <<>> /\ disk[l] # "good"
  /\ disk' = [disk EXCEPT ![l] = "good"]
  /\ UNCHANGED <<handle, factories, exports, stack, environ, env, calls, outcome,
                 asked, missed, cuts>>

LoaderStep == Execute \/ Finish

LoaderNext ==
  \/ LoaderStep
  \/ \E m \in Ids : Require(m)
  \/ \E l \in Natives : Reload(l) \/ Build(l)

LoaderSpec == LoaderInit /\ [][LoaderNext]_loaderVars

-----------------------------------------------------------------------------
LoaderTypeOK ==
  /\ disk \in [Natives -> Library] /\ handle \in [Natives -> Library]
  /\ factories \in [Natives -> {"unasked", "null", "factory"}]
  /\ \A l \in Natives : factories[l] = "factory" => handle[l] = "good"
  /\ Known \subseteq Ids
  /\ \A i \in DOMAIN stack : /\ stack[i].id \in Known
                             /\ stack[i].at \in 1 .. Len(Body[stack[i].id]) + 1
  /\ Cardinality(Loading) = Len(stack)
  /\ environ \subseteq Variables /\ env \subseteq Variables
  /\ Len(calls) <= MaxCalls /\ Range(calls) \subseteq [of : Ids, reload : BOOLEAN]
  /\ outcome \in {"ok", "threw", "crashed"}
  /\ asked \subseteq Natives /\ cuts \in Nat

\* The names that a program finds in a module.
Promised ==
  LET io == IOClasses \cup {"ByteIO", "TextIOWrapper", "TextOutputStream"}
      os == {"exit", "systemImpl", "popenImpl", "system", "popen"}
  IN  [m \in Ids \ ({"file-engine"} \cup Scripts) |->
         CASE m \in {"io", "io-engine"} -> io
           [] m \in {"os", "os-engine"} -> os
           [] m = "file"                -> {"mode", "mkdirs", "touch"} \cup FileNames
           [] m = "system"              -> {"env", "args"} \cup StdNames
           [] m = "binary-engine"       -> Bs
           [] m = "binary"              -> {"ByteString"}
           [] m = "logger"              -> {"Logger"}]

\* What a module requires, and what that requires, and so on.
Requires(m) == {s.of : s \in {t \in Range(Body[m]) : t.op \in {"takes", "needs"}}}
Closed == {S \in SUBSET Ids : \A m \in S : Requires(m) \subseteq S}
Reach  == [m \in Ids |-> {k \in Ids : \A S \in Closed : m \in S => k \in S}]

Undisturbed ==
  asked = {} /\ \A c \in Range(calls) : ~c.reload /\ c.of # "file-engine.js"

\* Whichever module a program begins with, and in whatever order it requires
\* the others: although they require each other in circles, each finds the names
\* it takes while it is loaded, and each has the names that it promises in the end.
\* Only after a library could not be loaded may anything be missing; or after a
\* program required file-engine.js itself, which has no names yet when file-engine
\* takes them; or after a reload(), which runs the factory but not the .js half again.
LoadedWhole ==
  Undisturbed =>
    /\ missed = {}
    /\ stack = <<>> /\ outcome = "ok" =>
         \A m \in Known \cap DOMAIN Promised : exports[m] = Promised[m]

\* The factories that go on after a require(); and the modules that another requires
\* without one of these between them.
GoOn     == {"file-engine", "os-engine", "system"}
Free     == {S \in SUBSET Ids : \A m \in S \ GoOn : Requires(m) \subseteq S}
Straight == [m \in Ids |-> {k \in Ids : \A S \in Free : m \in S => k \in S}]

NoneOf(S) == \E l \in S \cap Natives : factories[l] = "null"

\* A program gets an exception from require() only for a library that could not be
\* loaded (it is not in its place, or was not when it was first asked for, which only
\* reload() makes good), and only where none of the factories that go on after a
\* require() stands between: with one of these, loaded itself, above the library that
\* is not there the process is lost.  There are two more reasons: one of the
\* disturbances above has left a module with some of its names only, which can end
\* either way; and a second pass of the system module through the environment is the
\* end of the process.
ThrowsOnlyForMissing ==
  /\ outcome = "threw" => \/ NoneOf(Straight[Last(calls).of])
                          \/ ~Undisturbed /\ missed # {}
  /\ outcome = "crashed" => \/ \E n \in GoOn \cap Reach[Last(calls).of] :
                                factories[n] = "factory" /\ NoneOf(Reach[n])
                            \/ ~Undisturbed /\ missed # {}
                            \/ cuts > 1

\* What a reload() spoils: a module that lacks some of its names (the .js half, which
\* adds them, does not run again) is one that was loaded anew, or one above it.
OnlyReloadedLack ==
  asked = {} /\ (\A c \in Range(calls) : c.of # "file-engine.js")
    /\ stack = <<>> /\ outcome = "ok"
    => \A m \in Known \cap DOMAIN Promised :
         \/ exports[m] = Promised[m]
         \/ \E c \in Range(calls) : c.reload /\ c.of \in Reach[m]

\* No variable of the environment is lost, however the loading of the system module
\* goes, and however often: getenv() and the children see all of them until it cuts
\* their strings, and then they are in the env that it makes.  The process does not
\* get through a second cut, unless there is nothing to cut.
EnvironmentWhole ==
  /\ environ \cup env = Variables
  /\ "system" \in Known /\ stack = <<>> /\ outcome # "crashed"
       => env = Variables /\ "env" \in exports["system"]
  /\ outcome # "crashed" /\ Variables # {} => cuts <= 1
=============================================================================
