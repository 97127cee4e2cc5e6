------------------------------ MODULE MCTables ------------------------------
(* Tables on a small instance and, in behaviours of their own, the launches of *)
(* Launch: those the runtime chooses the work-group size of, those that come   *)
(* with one, legal or not, and those of kernels with much to save.             *)
EXTENDS Tables, Launch

CONSTANTS t1, t2, t3, q1, p1, k1, k2

Symmetric == Permutations(Threads) \cup Permutations(Kernels)

Sized(gws, lws, maxItemSizes, maxNumOfThread) ==
  [gws |-> gws, lws |-> lws, chosen |-> FALSE, maxItemSizes |-> maxItemSizes,
   maxNumOfThread |-> maxNumOfThread, saves |-> {{}}, locals |-> <<>>, args |-> <<4>>]

Unsized ==
  {Sized(<<s>>, <<>>, <<m>>, n) : s \in 1 .. 12, m \in 1 .. 12, n \in 1 .. 13}
  \cup {Sized(<<s, r>>, <<>>, <<m, k>>, n) :
          s, r \in 1 .. 6, m \in 1 .. 4, k \in {2, 4}, n \in {1, 2, 4, 5, 8, 9}}
  \cup {Sized(<<2, s, r>>, <<>>, <<m, 2, 2>>, n) :
          s, r \in 1 .. 4, m \in 1 .. 2, n \in {1, 4, 5, 8, 9}}

Given ==
  {Sized(<<s>>, <<l>>, <<4>>, 4) : s \in 1 .. 6, l \in 1 .. 6}
  \cup {Sized(<<s, r>>, <<l, k>>, <<4, 4>>, 4) : s, r \in 1 .. 4, l, k \in 1 .. 3}
  \cup {Sized(<<2, s, 4>>, <<l, k, 2>>, <<4, 4, 4>>, 4) : s \in 1 .. 4, l, k \in 1 .. 2}

Variable(n, size, align) == [n |-> n, size |-> size, align |-> align]
Variables == {Variable(1, 5, 1), Variable(2, 6, 2), Variable(3, 4, 4),
              Variable(4, 8, 8), Variable(5, 1, 1)}

Saving ==
  {[Sized(<<4>>, <<2>>, <<4>>, 4) EXCEPT !.saves = {live, other}, !.locals = locals,
                                         !.args = args] :
     live \in SUBSET Variables,
     other \in {{}, Variables, {Variable(3, 4, 4), Variable(5, 1, 1)}},
     locals \in {<<>>, <<8>>, <<7, 4>>, <<1, 6, 12>>}, args \in {<<>>, <<3>>, <<8, 9, 4>>}}

MCInit ==
  /\ Init
  /\ launch = NoLaunch \/ launch \in Unsized \cup Given \cup Saving

MCNext ==
  \/ launch = NoLaunch /\ Next /\ UNCHANGED launch
  \/ ChooseSize /\ UNCHANGED vars

MCSpec == MCInit /\ [][MCNext]_<<vars, launch>>
=============================================================================
