------------------------------- MODULE MCBuild -------------------------------
(* Build on a small instance and, in behaviours of their own, the inlining of  *)
(* programs of three functions: the first calls a function on the result of    *)
(* another call, the others make a call at most.                               *)
EXTENDS Build, Inliner

CONSTANTS b1, b2

Var(name) == [kind |-> "var", name |-> name]
Call(fn, args) == [kind |-> "call", fn |-> fn, args |-> args]
Callees == {1, 2, 3, Builtin}
Orders == {<<"a", "b">>, <<"b", "a">>}

Nested ==
  {<<Call(p, <<2, 5>>), Call(q, <<3, 4>>), Var(xs[1]), Var(xs[2]), Var(xs[1])>> :
     p, q \in Callees, xs \in Orders}
  \cup {<<Call(p, <<2, 3>>), Var(xs[1]), Call(q, <<4, 5>>), Var(xs[1]), Var(xs[2])>> :
          p, q \in Callees, xs \in Orders}
Flat ==
  {<<Call(p, <<2, 3>>), Var(xs[1]), Var(xs[2])>> : p \in Callees, xs \in Orders}
  \cup {<<Var("a")>>}

Programs ==
  {<<[params |-> <<"a", "b">>, body |-> first], [params |-> order, body |-> second],
     [params |-> other, body |-> third]>> :
       first \in Nested, second, third \in Flat, order, other \in Orders}

NotInlining ==
  /\ program = NoProgram /\ cst = {} /\ callChain = <<>> /\ failed = FALSE
  /\ code = <<>> /\ callSites = <<>> /\ cc = <<>>

MCInit == Init /\ (NotInlining \/ \E prog \in Programs : Start(prog))

MCNext ==
  \/ program = NoProgram /\ Next /\ UNCHANGED inlining
  \/ Inline /\ UNCHANGED vars

MCSpec == MCInit /\ [][MCNext]_<<vars, inlining>> /\ Fairness
=============================================================================
