------------------------------- MODULE Build -------------------------------
(***************************************************************************)
(* The builds of one program by several processes: CLPKM::Compile          *)
(* (CompilerDriver.cpp) forks the compiler driver, clpkm.sh, and talks to  *)
(* it through three pipes; the drivers share a code cache on disk.         *)
(*                                                                         *)
(* All builds have the same source and options, so the same cache entry, a *)
(* code file and a profile file.  A pipe holds Capacity chunks.  Of what   *)
(* flows through stdout only the text matters, since the parent reads it   *)
(* as it comes; stderr (profile or log, up to MaxText chunks) is left in   *)
(* its pipe until the parent has seen the end of stdout.  A driver may be  *)
(* killed, MaxKill times in a behaviour.                                   *)
(*                                                                         *)
(* X_Y, defined just before X, is X with a plausible bug.                  *)
(***************************************************************************)
EXTENDS Naturals, FiniteSets

CONSTANTS Builds, Capacity, MaxText, MaxKill

ASSUME ConstantsAssumption ==
  /\ Capacity \in Nat \ {0} /\ MaxText \in Nat \ {0} /\ MaxKill \in Nat

Files == {"code", "profile"}

VARIABLES
  parent,     \* what Compile does next
  driver,     \* what clpkm.sh does next
  exit,       \* how the driver ended: "running", "success", "failure", "killed"
  out,        \* the code that came through stdout
  err,        \* the text for stderr: what it is, its size, how much is written
  unread,     \* the chunks in the pipe of stderr
  result,     \* what Compile returns: "none", "true", "false"
  hit,        \* was the build answered from the cache?
  cache,      \* the files of the cache entry
  writer      \* who truncated a file last

vars == <<parent, driver, exit, out, err, unread, result, hit, cache, writer>>
driverVars == <<driver, exit, out, err, hit, cache, writer>>
parentVars == <<parent, result>>

Nothing == [text |-> "none", size |-> 0, written |-> 0]
Sizes == 1 .. MaxText

Init ==
  /\ parent = [b \in Builds |-> "write"]
  /\ driver = [b \in Builds |-> "stdin"]
  /\ exit = [b \in Builds |-> "running"]
  /\ out = [b \in Builds |-> "none"]
  /\ err = [b \in Builds |-> Nothing]
  /\ unread = [b \in Builds |-> 0]
  /\ result = [b \in Builds |-> "none"]
  /\ hit = [b \in Builds |-> FALSE]
  /\ cache = [f \in Files |-> "none"]
  /\ writer = [f \in Files |-> "nobody"]

-----------------------------------------------------------------------------
(* clpkm.sh.  Pipes are closed by the end of the process alone.            *)

Goto(b, step) == driver' = [driver EXCEPT ![b] = step]
Runs(b, step) == driver[b] = step /\ exit[b] = "running"

\* The driver ends with this text on stderr, in success or in failure.
Emit(b, text, step) ==
  /\ \E n \in Sizes : err' = [err EXCEPT ![b] = [text |-> text, size |-> n, written |-> 0]]
  /\ Goto(b, step)

\* dup2 or execlp may fail in the child, which then reports why.
FailToStart(b) ==
  /\ Runs(b, "stdin")
  /\ Emit(b, "log", "fail")
  /\ UNCHANGED <<exit, out, unread, hit, cache, writer, parentVars>>

\* Step 0 and 1: cat reads the source to its end; the preprocessor may fail.
ReadSource(b) ==
  /\ Runs(b, "stdin") /\ parent[b] # "write"
  /\ \/ Goto(b, "lookup") /\ UNCHANGED err
     \/ Emit(b, "log", "fail")
  /\ UNCHANGED <<exit, out, unread, hit, cache, writer, parentVars>>

IsCached_Either == cache["code"] # "none" \/ cache["profile"] # "none"
IsCached == cache["code"] # "none" /\ cache["profile"] # "none"

Lookup(b) ==
  /\ Runs(b, "lookup")
  /\ hit' = [hit EXCEPT ![b] = IsCached]
  /\ Goto(b, IF IsCached THEN "cached code" ELSE "compile")
  /\ UNCHANGED <<exit, out, err, unread, cache, writer, parentVars>>

CatCachedCode(b) ==
  /\ Runs(b, "cached code")
  /\ out' = [out EXCEPT ![b] = cache["code"]]
  /\ Goto(b, "cached profile")
  /\ UNCHANGED <<exit, err, unread, hit, cache, writer, parentVars>>

CatCachedProfile(b) ==
  /\ Runs(b, "cached profile")
  /\ Emit(b, cache["profile"], "succeed")
  /\ UNCHANGED <<exit, out, unread, hit, cache, writer, parentVars>>

\* Steps 2 to 4: braces, renaming, inlining, instrumentation.  Any may fail.
Compile(b) ==
  /\ Runs(b, "compile")
  /\ \/ Goto(b, "open code") /\ UNCHANGED err
     \/ Emit(b, "log", "fail")
  /\ UNCHANGED <<exit, out, unread, hit, cache, writer, parentVars>>

\* cp truncates the file and then writes it.  Whoever truncates a file that
\* another one is writing leaves a hole in it, until its own copy is done.
OpenCopy(b, f) ==
  /\ Runs(b, IF f = "code" THEN "open code" ELSE "open profile")
  /\ cache' = [cache EXCEPT ![f] = "partial"]
  /\ writer' = [writer EXCEPT ![f] = b]
  /\ Goto(b, IF f = "code" THEN "write code" ELSE "write profile")
  /\ UNCHANGED <<exit, out, err, unread, hit, parentVars>>

WriteCopy(b, f) ==
  /\ Runs(b, IF f = "code" THEN "write code" ELSE "write profile")
  /\ cache' = [cache EXCEPT ![f] = IF writer[f] = b THEN "whole" ELSE @]
  /\ Goto(b, IF f = "code" THEN "open profile" ELSE "cat")
  /\ UNCHANGED <<exit, out, err, unread, hit, writer, parentVars>>

\* The result, from the build's own temporary files.
Instrumented_FromCache(f) == cache[f]
Instrumented(f) == "whole"

Cat(b) ==
  /\ Runs(b, "cat")
  /\ out' = [out EXCEPT ![b] = Instrumented("code")]
  /\ Emit(b, Instrumented("profile"), "succeed")
  /\ UNCHANGED <<exit, unread, hit, cache, writer, parentVars>>

WriteErr(b) ==
  /\ driver[b] \in {"succeed", "fail"} /\ exit[b] = "running"
  /\ err[b].written < err[b].size /\ unread[b] < Capacity
  /\ err' = [err EXCEPT ![b].written = @ + 1]
  /\ unread' = [unread EXCEPT ![b] = @ + 1]
  /\ UNCHANGED <<driver, exit, out, hit, cache, writer, parentVars>>

Exit(b) ==
  /\ driver[b] \in {"succeed", "fail"} /\ exit[b] = "running"
  /\ err[b].written = err[b].size
  /\ exit' = [exit EXCEPT ![b] = IF driver[b] = "succeed" THEN "success" ELSE "failure"]
  /\ UNCHANGED <<driver, out, err, unread, hit, cache, writer, parentVars>>

IsKilled(b) == exit[b] = "killed"
Kill(b) ==
  /\ exit[b] = "running"
  /\ Cardinality({c \in Builds : IsKilled(c)}) < MaxKill
  /\ exit' = [exit EXCEPT ![b] = "killed"]
  /\ UNCHANGED <<driver, out, err, unread, hit, cache, writer, parentVars>>

-----------------------------------------------------------------------------
(* Compile: writes the source, reads stdout to its end, then stderr to its *)
(* end, then waits for the driver.                                         *)

\* Closing its end of the pipe is what lets the driver see the source's end.
AfterWrite_KeepsOpen(b) == "write"
AfterWrite(b) == "stdout"

WriteSource(b) ==
  /\ parent[b] = "write" /\ exit[b] = "running"
  /\ parent' = [parent EXCEPT ![b] = AfterWrite(b)]
  /\ UNCHANGED <<driverVars, unread, result>>

Return(b, res) ==
  parent' = [parent EXCEPT ![b] = "done"] /\ result' = [result EXCEPT ![b] = res]

\* The driver has gone and left a broken pipe: the write fails, or SIGPIPE ends
\* the process.
WriteFails(b) ==
  /\ parent[b] = "write" /\ exit[b] # "running"
  /\ Return(b, "false") \/ Return(b, "none")
  /\ UNCHANGED <<driverVars, unread>>

EndOfOut(b) ==
  /\ parent[b] = "stdout" /\ exit[b] # "running"
  /\ parent' = [parent EXCEPT ![b] = "stderr"]
  /\ UNCHANGED <<driverVars, unread, result>>

ReadErr(b) ==
  /\ parent[b] = "stderr" /\ unread[b] > 0
  /\ unread' = [unread EXCEPT ![b] = @ - 1]
  /\ UNCHANGED <<driverVars, parentVars>>

EndOfErr(b) ==
  /\ parent[b] = "stderr" /\ unread[b] = 0 /\ exit[b] # "running"
  /\ parent' = [parent EXCEPT ![b] = "wait"]
  /\ UNCHANGED <<driverVars, unread, result>>

\* WEXITSTATUS of a driver that was killed is 0.
Succeeded(b) == exit[b] # "failure"

\* A profile that is cut off may still be a profile, of fewer kernels.
Wait(b) ==
  /\ parent[b] = "wait"
  /\ \/ ~Succeeded(b) /\ Return(b, "false")
     \/ Succeeded(b) /\ err[b].text \in {"partial", "whole"} /\ Return(b, "true")
     \/ /\ Succeeded(b)
        /\ err[b].text # "whole" \/ err[b].written < err[b].size
        /\ Return(b, "false")
  /\ UNCHANGED <<driverVars, unread>>

DriverStep(b) ==
  \/ ReadSource(b) \/ Lookup(b) \/ CatCachedCode(b)
  \/ CatCachedProfile(b) \/ Compile(b) \/ Cat(b) \/ WriteErr(b) \/ Exit(b)
  \/ \E f \in Files : OpenCopy(b, f) \/ WriteCopy(b, f)

ParentStep(b) ==
  \/ WriteSource(b) \/ WriteFails(b) \/ EndOfOut(b) \/ ReadErr(b) \/ EndOfErr(b)
  \/ Wait(b)

Next == \E b \in Builds : DriverStep(b) \/ ParentStep(b) \/ FailToStart(b) \/ Kill(b)

Spec == Init /\ [][Next]_vars

\* The operating system runs every process that can do something; no driver has
\* to fail or to be killed.
Fairness == \A b \in Builds : WF_vars(DriverStep(b)) /\ WF_vars(ParentStep(b))
FairSpec == Spec /\ Fairness

-----------------------------------------------------------------------------
(* Correctness. *)

\* A build that did the work itself gets all of its code and profile, whatever
\* the other builds do to the cache meanwhile.
OwnBuildIsWhole ==
  \A b \in Builds :
    result[b] = "true" /\ exit[b] = "success" /\ ~hit[b] =>
      out[b] = "whole" /\ err[b].text = "whole"

\* A cache hit finds both files, though they come into being one after the
\* other and are read one after the other.
HitsFindFiles ==
  \A b \in Builds : hit[b] =>
    /\ driver[b] # "cached code" => out[b] # "none"
    /\ driver[b] = "succeed" => err[b].text # "none"

\* Compile returns if what the driver writes to stderr fits into a pipe.
\* (Otherwise the driver waits for the parent to read it, and the parent for
\* the driver to close stdout.)
CompileReturns ==
  <>[](\A b \in Builds : err[b].size <= Capacity => parent[b] = "done")
=============================================================================
