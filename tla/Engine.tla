------------------------------- MODULE Engine -------------------------------
(***************************************************************************)
(* The program from its start to its end: the launcher, then the shell     *)
(* (RunShell, ExecuteString) that reads lines and runs them, and what the  *)
(* lines load.  A line that throws does not end the shell; the end of the  *)
(* input and quit() do.                                                    *)
(***************************************************************************)
EXTENDS Launcher, Loader

engineVars == <<vars, loaderVars>>

launched == <<world, executable, inBuffer, homes, file>>

\* What is in the places of the libraries makes no difference before the shell runs:
\* the model chooses it then.
EngineInit == Init /\ LoaderInit /\ disk = CHOOSE d \in Disks : TRUE

Chosen ==
  /\ IF pc' = "shell" THEN disk' \in Disks ELSE UNCHANGED disk
  /\ UNCHANGED <<handle, factories, exports, stack, environ, env, calls, outcome, asked,
                 missed, cuts>>

\* A step of the launcher; somebody else's edit of bootstrap.js.
Launching == Step /\ Chosen
Editing   == (\E n \in 0 .. MaxSize : Edit(n)) /\ UNCHANGED loaderVars

\* readline() gives a line, and it compiles.  One that does not is reported, and
\* the shell is where it was.
ReadLine ==
  /\ pc = "shell" /\ pc' = "line"
  /\ UNCHANGED <<launched, loaderVars>>

\* readline() gives NULL.
EndOfInput ==
  /\ pc = "shell" /\ pc' = "exit"
  /\ UNCHANGED <<launched, loaderVars>>

\* The line calls for a module.  It can catch what that throws.
Calls ==
  /\ pc = "line" /\ outcome # "crashed"
  /\ \/ \E m \in Ids : Require(m)
     \/ \E l \in Natives : Reload(l)
  /\ UNCHANGED <<launched, pc>>

\* A step of loading, which can be the process's last.
LoadingStep ==
  /\ pc = "line" /\ LoaderStep
  /\ pc' = IF outcome' = "crashed" THEN "undefined" ELSE pc
  /\ UNCHANGED launched

\* The line is done, or it has thrown and the exception is reported.
EndLine ==
  /\ pc = "line" /\ stack = <<>>
  /\ pc' = "shell"
  /\ UNCHANGED <<launched, loaderVars>>

\* The line calls quit().
Quit ==
  /\ pc = "line" /\ stack = <<>>
  /\ pc' = "exit"
  /\ UNCHANGED <<launched, loaderVars>>

\* Somebody builds a library while the program runs.
Building ==
  /\ pc \in {"shell", "line"}
  /\ \E l \in Natives : Build(l)
  /\ UNCHANGED vars

EngineNext ==
  \/ Launching \/ Editing
  \/ ReadLine \/ EndOfInput \/ Calls \/ LoadingStep \/ EndLine \/ Quit
  \/ Building

\* The launcher runs on by itself; a line comes when it likes, and calls for a module
\* when the program does.
EngineSpec ==
  EngineInit /\ [][EngineNext]_engineVars /\ WF_engineVars(Launching)

-----------------------------------------------------------------------------
EngineTypeOK ==
  /\ TypeOK /\ LoaderTypeOK
  /\ stack # <<>> => pc = "line"
  /\ outcome = "crashed" => pc = "undefined"
=============================================================================
