----------------------------- MODULE BuildProofs -----------------------------
(***************************************************************************)
(* What holds of any number of concurrent builds, pipes of any capacity and *)
(* any number of killed drivers: a build's own work never depends on the    *)
(* cache it shares, and a hit reads files that are there.                   *)
(***************************************************************************)
EXTENDS Build, TLAPS

Texts == {"none", "log", "partial", "whole"}

Steps == {"stdin", "lookup", "cached code", "cached profile", "compile", "open code",
          "write code", "open profile", "write profile", "cat", "succeed", "fail"}
ErrTexts == [text : Texts, size : Nat, written : Nat]

\* The cache and what the drivers have put on their pipes, typed.
IsTyped ==
  /\ driver \in [Builds -> Steps]
  /\ exit \in [Builds -> {"running", "success", "failure", "killed"}]
  /\ out \in [Builds -> Texts]
  /\ err \in [Builds -> ErrTexts]
  /\ hit \in [Builds -> BOOLEAN]
  /\ cache \in [Files -> {"none", "partial", "whole"}]

\* A driver that has found its entry only reads it, and one that has not never
\* does: clpkm.sh's two ways to its exit 0.
HitReads(b) ==
  /\ hit[b] => driver[b] \in {"cached code", "cached profile", "succeed"}
  /\ driver[b] \in {"cached code", "cached profile"} => hit[b]

\* Files of the entry stay there once they are: cp and cat remove nothing.
FilesStay == \A b \in Builds : hit[b] => \A f \in Files : cache[f] # "none"

\* What is on a driver's pipes when it is about to succeed.
SuccessIsWritten(b) ==
  /\ hit[b] /\ driver[b] # "cached code" => out[b] # "none"
  /\ hit[b] /\ driver[b] = "succeed" => err[b].text # "none"
  /\ ~hit[b] /\ driver[b] = "succeed" => out[b] = "whole" /\ err[b].text = "whole"
  /\ exit[b] = "success" => driver[b] = "succeed"

\* The inductive invariant.
IInv == /\ IsTyped
        /\ FilesStay
        /\ \A b \in Builds : HitReads(b) /\ SuccessIsWritten(b)

\* Whatever the drivers' exits and Compile's results.
LEMMA BuildInv == IInv => OwnBuildIsWhole /\ HitsFindFiles
BY DEF IInv, HitReads, SuccessIsWritten, OwnBuildIsWhole, HitsFindFiles

\* Compile has forked the drivers; the entry is empty.
LEMMA BuildInit == Init => IInv
BY DEF Init, Nothing, IInv, IsTyped, Texts, Steps, ErrTexts, Files, FilesStay, HitReads,
       SuccessIsWritten

\* A driver's step changes its own state and the files of the entry, which it
\* never empties: all that is left to show is about the driver itself.
LEMMA LocalStep ==
  ASSUME IInv, NEW b \in Builds, IsTyped',
         \A c \in Builds \ {b} :
           /\ driver'[c] = driver[c] /\ exit'[c] = exit[c] /\ out'[c] = out[c]
           /\ err'[c].text = err[c].text /\ hit'[c] = hit[c],
         \A f \in Files : cache[f] # "none" => cache'[f] # "none",
         hit'[b] => hit[b] \/ \A f \in Files : cache'[f] # "none",
         HitReads(b)', SuccessIsWritten(b)'
  PROVE  IInv'
<1>1. FilesStay'
  BY DEF IInv, FilesStay
<1>2. ASSUME NEW c \in Builds
      PROVE  HitReads(c)' /\ SuccessIsWritten(c)'
  BY DEF IInv, HitReads, SuccessIsWritten
<1>3. QED
  BY <1>1, <1>2 DEF IInv

\* Emit puts a text of some size on stderr and moves the driver on.
LEMMA EmitTypes ==
  ASSUME IsTyped, NEW b \in Builds, NEW text \in Texts, NEW step \in Steps,
         Emit(b, text, step)
  PROVE  /\ err' \in [Builds -> ErrTexts] /\ driver' \in [Builds -> Steps]
         /\ err'[b].text = text /\ driver'[b] = step
         /\ \A c \in Builds \ {b} : err'[c] = err[c] /\ driver'[c] = driver[c]
<1>1. PICK n \in Sizes :
        err' = [err EXCEPT ![b] = [text |-> text, size |-> n, written |-> 0]]
  BY DEF Emit
<1>2. n \in Nat
  BY ConstantsAssumption DEF Sizes
<1>3. [text |-> text, size |-> n, written |-> 0] \in ErrTexts
  BY <1>2 DEF ErrTexts
<1>4. QED
  BY <1>1, <1>3 DEF Emit, Goto, IsTyped

\* A driver that cannot go on says why and fails.
LEMMA FailureKeeps ==
  ASSUME IInv, NEW b \in Builds, Runs(b, "stdin") \/ Runs(b, "compile"),
         Emit(b, "log", "fail"), UNCHANGED <<exit, out, hit, cache>>
  PROVE  IInv'
<1>1. "log" \in Texts /\ "fail" \in Steps
  BY DEF Texts, Steps
<1>2. IsTyped'
  BY <1>1, EmitTypes DEF IInv, IsTyped
<1>3. HitReads(b)' /\ SuccessIsWritten(b)'
  BY <1>1, EmitTypes DEF IInv, HitReads, SuccessIsWritten, Runs
<1>4. QED
  BY <1>1, <1>2, <1>3, EmitTypes, LocalStep DEF IInv

\* So does every step of clpkm.sh that only moves on.
LEMMA MoveKeeps ==
  ASSUME IInv, NEW b \in Builds, NEW step \in Steps, driver[b] # "succeed",
         driver' = [driver EXCEPT ![b] = step],
         step \notin {"cached code", "cached profile", "succeed"}, ~hit[b],
         UNCHANGED <<exit, out, err, hit>>, cache' \in [Files -> {"none", "partial", "whole"}],
         \A f \in Files : cache[f] # "none" => cache'[f] # "none"
  PROVE  IInv'
<1>1. IsTyped'
  BY DEF IInv, IsTyped
<1>2. HitReads(b)' /\ SuccessIsWritten(b)'
  BY DEF IInv, IsTyped, HitReads, SuccessIsWritten
<1>3. QED
  BY <1>1, <1>2, LocalStep DEF IInv, IsTyped

\* clpkm.sh's steps.
LEMMA DriverKeeps ==
  ASSUME IInv, NEW b \in Builds, DriverStep(b) \/ FailToStart(b) \/ Kill(b)
  PROVE  IInv'
<1>a. IsTyped /\ HitReads(b) /\ SuccessIsWritten(b)
  BY DEF IInv
<1>1. CASE ReadSource(b) \/ FailToStart(b)
  <2>1. ~hit[b] /\ "lookup" \in Steps /\ UNCHANGED <<exit, out, hit, cache>>
    BY <1>1, <1>a DEF ReadSource, FailToStart, Runs, HitReads, Steps
  <2>2. CASE Goto(b, "lookup") /\ UNCHANGED err
    BY <1>1, <1>a, <2>1, <2>2, MoveKeeps DEF ReadSource, FailToStart, Runs, Goto, IsTyped
  <2>3. QED
    BY <1>1, <2>1, <2>2, FailureKeeps DEF ReadSource, FailToStart
<1>2. CASE Lookup(b)
  <2>1. IsTyped'
    BY <1>2, <1>a DEF Lookup, IsTyped, IsCached, Goto, Steps
  <2>2. HitReads(b)' /\ SuccessIsWritten(b)'
    BY <1>2, <1>a DEF Lookup, IsTyped, IsCached, Goto, Runs, HitReads, SuccessIsWritten
  <2>3. hit'[b] => \A f \in Files : cache'[f] # "none"
    BY <1>2, <1>a DEF Lookup, IsTyped, IsCached, Files
  <2>4. QED
    BY <1>2, <1>a, <2>1, <2>2, <2>3, LocalStep DEF Lookup, IsTyped, Goto
<1>3. CASE CatCachedCode(b)
  <2>1. hit[b] /\ cache["code"] # "none" /\ cache["code"] \in Texts
    BY <1>3, <1>a DEF CatCachedCode, Runs, HitReads, IInv, FilesStay, Files, IsTyped, Texts
  <2>2. IsTyped'
    BY <1>3, <1>a, <2>1 DEF CatCachedCode, IsTyped, Goto, Steps
  <2>3. HitReads(b)' /\ SuccessIsWritten(b)'
    BY <1>3, <1>a, <2>1 DEF CatCachedCode, IsTyped, Goto, Runs, HitReads, SuccessIsWritten
  <2>4. QED
    BY <1>3, <1>a, <2>2, <2>3, LocalStep DEF CatCachedCode, IsTyped, Goto
<1>4. CASE CatCachedProfile(b)
  <2>1. hit[b] /\ cache["profile"] # "none" /\ cache["profile"] \in Texts
    BY <1>4, <1>a
    DEF CatCachedProfile, Runs, HitReads, IInv, FilesStay, Files, IsTyped, Texts
  <2>2. "succeed" \in Steps /\ Emit(b, cache["profile"], "succeed")
        /\ UNCHANGED <<exit, out, hit, cache>>
    BY <1>4 DEF CatCachedProfile, Steps
  <2>3. IsTyped'
    BY <1>a, <2>1, <2>2, EmitTypes DEF IsTyped
  <2>4. HitReads(b)' /\ SuccessIsWritten(b)'
    BY <1>4, <1>a, <2>1, <2>2, EmitTypes
    DEF CatCachedProfile, Runs, HitReads, SuccessIsWritten
  <2>5. QED
    BY <1>a, <2>1, <2>2, <2>3, <2>4, EmitTypes, LocalStep
<1>5. CASE Compile(b)
  <2>1. ~hit[b] /\ "open code" \in Steps /\ UNCHANGED <<exit, out, hit, cache>>
    BY <1>5, <1>a DEF Compile, Runs, HitReads, Steps
  <2>2. CASE Goto(b, "open code") /\ UNCHANGED err
    BY <1>5, <1>a, <2>1, <2>2, MoveKeeps DEF Compile, Runs, Goto, IsTyped
  <2>3. QED
    BY <1>5, <2>1, <2>2, FailureKeeps DEF Compile
<1>6. CASE Cat(b)
  <2>1. "whole" \in Texts /\ "succeed" \in Steps /\ Emit(b, "whole", "succeed")
    BY <1>6 DEF Cat, Instrumented, Texts, Steps
  <2>2. out' = [out EXCEPT ![b] = "whole"] /\ UNCHANGED <<exit, hit, cache>> /\ ~hit[b]
    BY <1>6, <1>a DEF Cat, Instrumented, Runs, HitReads
  <2>3. IsTyped'
    BY <1>a, <2>1, <2>2, EmitTypes DEF IsTyped
  <2>4. HitReads(b)' /\ SuccessIsWritten(b)'
    BY <1>a, <2>1, <2>2, EmitTypes DEF IsTyped, HitReads, SuccessIsWritten
  <2>5. QED
    BY <1>a, <2>1, <2>2, <2>3, <2>4, EmitTypes, LocalStep DEF IsTyped
<1>7. CASE WriteErr(b)
  <2>1. \A c \in Builds : err'[c].text = err[c].text
    BY <1>7, <1>a DEF WriteErr, IsTyped, ErrTexts
  <2>2. err' \in [Builds -> ErrTexts]
    BY <1>7, <1>a DEF WriteErr, IsTyped, ErrTexts
  <2>3. QED
    BY <1>7, <1>a, <2>1, <2>2, LocalStep DEF WriteErr, IsTyped, HitReads, SuccessIsWritten
<1>8. CASE Exit(b) \/ Kill(b)
  <2>1. IsTyped' /\ SuccessIsWritten(b)'
    BY <1>8, <1>a DEF Exit, Kill, IsTyped, SuccessIsWritten
  <2>2. QED
    BY <1>8, <1>a, <2>1, LocalStep DEF Exit, Kill, IsTyped, HitReads
<1>9. CASE \E f \in Files : OpenCopy(b, f) \/ WriteCopy(b, f)
  <2>1. PICK f \in Files : OpenCopy(b, f) \/ WriteCopy(b, f)
    BY <1>9
  <2>2. PICK step \in Steps : /\ driver' = [driver EXCEPT ![b] = step]
                              /\ step \notin {"cached code", "cached profile", "succeed"}
    BY <2>1 DEF OpenCopy, WriteCopy, Goto, Steps
  <2>3. ~hit[b] /\ driver[b] # "succeed"
    BY <2>1, <1>a DEF OpenCopy, WriteCopy, Runs, HitReads
  <2>4. /\ cache' \in [Files -> {"none", "partial", "whole"}]
        /\ \A g \in Files : cache[g] # "none" => cache'[g] # "none"
    BY <2>1, <1>a DEF OpenCopy, WriteCopy, IsTyped
  <2>5. UNCHANGED <<exit, out, err, hit>>
    BY <2>1 DEF OpenCopy, WriteCopy
  <2>6. QED
    BY <2>2, <2>3, <2>4, <2>5, MoveKeeps
<1>10. QED
  BY <1>1, <1>2, <1>3, <1>4, <1>5, <1>6, <1>7, <1>8, <1>9 DEF DriverStep

\* Compile only reads.
LEMMA ParentKeeps ==
  ASSUME IInv, NEW b \in Builds, ParentStep(b)
  PROVE  IInv'
<1>1. UNCHANGED driverVars
  BY DEF ParentStep, WriteSource, WriteFails, EndOfOut, ReadErr, EndOfErr, Wait
<1>2. QED
  BY <1>1 DEF driverVars, IInv, IsTyped, FilesStay, HitReads, SuccessIsWritten

\* Every step keeps the invariant.
LEMMA BuildStep == IInv /\ [Next]_vars => IInv'
<1> SUFFICES ASSUME IInv, [Next]_vars PROVE IInv'
  OBVIOUS
<1>1. CASE Next
  BY <1>1, DriverKeeps, ParentKeeps DEF Next
<1>2. CASE UNCHANGED vars
  BY <1>2 DEF vars, IInv, IsTyped, FilesStay, HitReads, SuccessIsWritten
<1>3. QED
  BY <1>1, <1>2

\* A build that did the work itself hands Compile all of its code and profile,
\* whatever the other builds, killed in the middle of a cp or not, leave in the
\* cache: clpkm.sh cats its own temporary files.
THEOREM OwnBuildsAreWhole == Spec => []OwnBuildIsWhole
BY BuildInit, BuildStep, BuildInv, PTL DEF Spec

\* A driver that takes the cached way finds both files, in every state from the
\* test of the entry to the second cat.
THEOREM HitsAreAnswered == Spec => []HitsFindFiles
BY BuildInit, BuildStep, BuildInv, PTL DEF Spec
=============================================================================
