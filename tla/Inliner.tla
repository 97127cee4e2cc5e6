------------------------------ MODULE Inliner ------------------------------
(***************************************************************************)
(* How clinliner (inliner/Main.cpp) puts the body of every function in the *)
(* place of the calls of it, and turns recursion down, and why the build   *)
(* renames all variables first (rename-lst-gen/Main.cpp).                  *)
(*                                                                         *)
(* A program is a sequence of functions, each with its params and the body *)
(* of its return statement.  A body lists the nodes of an expression in    *)
(* the order in which Clang visits them, an operation before its args:     *)
(* variables, and calls of a function fn, a number in the program or       *)
(* Builtin.  Inlining makes a call into a block, a statement expression,   *)
(* that keeps the text its arguments had and the snippet of the callee.    *)
(* Statements around the return and several returns are left out.          *)
(*                                                                         *)
(* X_Y, defined just before X, is X with a plausible bug.                  *)
(***************************************************************************)
EXTENDS Integers, SequencesExt

CONSTANTS Builtin, NoProgram

VARIABLES program,     \* the source, before renaming
          code,        \* the text of each function, as rewritten so far
          cst,         \* the functions whose calls have not all been inlined
          callSites,   \* the calls of each function still to be looked at
          cc,          \* the snippet of each function, <<>> until there is one
          callChain,   \* the functions in which calls are being inlined
          failed       \* recursion was detected

inlining == <<program, code, cst, callSites, cc, callChain, failed>>

Functions(prog) == DOMAIN prog
Calls(body) == SelectSeq([n \in DOMAIN body |-> n], LAMBDA n : body[n].kind = "call")
Callee(body, n) == body[n].fn

\* Variables get a new name, with the number of their declaration.
NewName_Kept(prog, f, name) == name
NewName(prog, f, name) ==
  <<FoldLeft(LAMBDA sum, g : sum + Len(g.params), 0, SubSeq(prog, 1, f - 1))
      + SelectInSeq(prog[f].params, LAMBDA p : p = name), name>>

Renamed(prog) ==
  [f \in Functions(prog) |->
     [params |-> [k \in DOMAIN prog[f].params |-> NewName(prog, f, prog[f].params[k])],
      body |-> [n \in DOMAIN prog[f].body |->
                  LET node == prog[f].body[n]
                  IN IF node.kind = "var" THEN [node EXCEPT !.name = NewName(prog, f, @)]
                     ELSE node]]]

Params(f) == Renamed(program)[f].params

-----------------------------------------------------------------------------
Start(prog) ==
  /\ program = prog
  /\ code = [f \in Functions(prog) |-> Renamed(prog)[f].body]
  /\ cst = {f \in Functions(prog) : Calls(prog[f].body) # <<>>}
  /\ callSites = [f \in Functions(prog) |-> Calls(prog[f].body)]
  /\ cc = [f \in Functions(prog) |-> <<>>]
  /\ callChain = <<>> /\ failed = FALSE

\* ExecuteAction takes any function that still has calls.
ExecuteAction ==
  /\ callChain = <<>> /\ ~failed
  /\ \E f \in cst : callChain' = <<f>>
  /\ UNCHANGED <<program, code, cst, callSites, cc, failed>>

\* The calls are taken from the last that Clang met to the first.
NextSite_First(sites) == sites[1]
NextSite(sites) == Last(sites)
Without(sites) == SelectSeq(sites, LAMBDA n : n # NextSite(sites))

\* PerformInline, in the function last in the chain, has a call to look at.
AtCall(f, n, callee) ==
  /\ ~failed /\ callChain # <<>> /\ f = Last(callChain)
  /\ callSites[f] # <<>> /\ n = NextSite(callSites[f]) /\ callee = Callee(code[f], n)

SkipBuiltin(f, n) ==
  /\ AtCall(f, n, Builtin)
  /\ callSites' = [callSites EXCEPT ![f] = Without(@)]
  /\ UNCHANGED <<program, code, cst, cc, callChain, failed>>

\* A callee with calls of its own comes first, unless the chain has it.
InlineCallee(f, n, callee) ==
  /\ AtCall(f, n, callee)
  /\ cc[callee] = <<>> /\ callee \in cst
  /\ IF Contains(callChain, callee)
       THEN failed' = TRUE /\ UNCHANGED callChain
       ELSE callChain' = Append(callChain, callee) /\ UNCHANGED failed
  /\ UNCHANGED <<program, code, cst, callSites, cc>>

\* GenCodeSnippet: what has been generated, or the text as it is now.
Snippet(callee) == IF cc[callee] # <<>> THEN cc[callee] ELSE code[callee]

ReplaceText(f, n, callee) ==
  /\ AtCall(f, n, callee)
  /\ cc[callee] # <<>> \/ callee \notin cst
  /\ cc' = [cc EXCEPT ![callee] = Snippet(callee)]
  /\ code' = [code EXCEPT ![f][n] =
       [kind |-> "block", params |-> Params(callee), args |-> @.args,
        text |-> code[f], body |-> Snippet(callee)]]
  /\ callSites' = [callSites EXCEPT ![f] = Without(@)]
  /\ UNCHANGED <<program, cst, callChain, failed>>

\* All calls done: the record goes, and so does the function's chain entry.
RemoveRecord(f) ==
  /\ ~failed /\ callChain # <<>> /\ f = Last(callChain)
  /\ callSites[f] = <<>>
  /\ cst' = cst \ {f} /\ callChain' = Front(callChain)
  /\ UNCHANGED <<program, code, callSites, cc, failed>>

PerformInline ==
  /\ callChain # <<>>
  /\ \E f \in Functions(program) :
       \/ RemoveRecord(f)
       \/ \E n \in DOMAIN code[f] :
            \/ SkipBuiltin(f, n)
            \/ \E callee \in Functions(program) :
                 InlineCallee(f, n, callee) \/ ReplaceText(f, n, callee)

Inline == ExecuteAction \/ PerformInline

-----------------------------------------------------------------------------
(* What a program computes.  A call binds the arguments to the parameters  *)
(* and nothing else.  A block declares the parameters, the last one first, *)
(* in the scope it stands in; a name is in scope in its own initializer.   *)

Undefined == -1000

BuiltinValue(x, y) == 3 * x + y

RECURSIVE Value(_, _, _, _)
Value(prog, body, n, env) ==
  LET node == body[n]
      Args == [k \in DOMAIN node.args |-> Value(prog, body, node.args[k], env)]
      Declare(k, scope) ==
        (node.params[k] :> Value(prog, node.text, node.args[k],
                                 (node.params[k] :> Undefined) @@ scope)) @@ scope
  IN CASE node.kind = "var" -> env[node.name]
       [] node.kind = "call" ->
            IF node.fn = Builtin THEN BuiltinValue(Args[1], Args[2])
            ELSE IF node.fn \notin Functions(prog) THEN Undefined
            ELSE LET callee == prog[node.fn]
                     Bound(name) == Args[SelectInSeq(callee.params, LAMBDA p : p = name)]
                 IN Value(prog, callee.body, 1, [name \in ToSet(callee.params) |-> Bound(name)])
       [] node.kind = "block" ->
            Value(prog, node.body, 1,
                  FoldRight(Declare, [k \in DOMAIN node.params |-> k], env))

RECURSIVE Reaches(_, _, _)
Reaches(prog, from, seen) ==
  \E n \in DOMAIN prog[from].body :
    LET callee == prog[from].body[n].fn
    IN /\ prog[from].body[n].kind = "call" /\ callee # Builtin
       /\ callee \in seen \/ Reaches(prog, callee, seen \cup {callee})

IsRecursive(prog) == \E f \in Functions(prog) : Reaches(prog, f, {f})

Ended == program # NoProgram /\ ~failed /\ callChain = <<>> /\ cst = {}

\* A program is turned down exactly when a function of it may come to call
\* itself.  Otherwise no call of a function of the program is left and, with
\* the variables renamed, each function still computes what it did.
InliningKeepsMeaning ==
  /\ program # NoProgram /\ failed => IsRecursive(program)
  /\ Ended =>
       /\ ~IsRecursive(program)
       /\ \A f \in Functions(program) :
            LET Arguments == [k \in DOMAIN program[f].params |-> 4 * k + 1]
                Env(params) == [name \in ToSet(params) |->
                                  Arguments[SelectInSeq(params, LAMBDA p : p = name)]]
                NoCalls == [g \in {} |-> <<>>]
            IN Value(NoCalls, code[f], 1, Env(Params(f))) =
                 Value(program, program[f].body, 1, Env(program[f].params))
=============================================================================
