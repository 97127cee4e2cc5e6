------------------------------- MODULE Launch -------------------------------
(***************************************************************************)
(* How a launch of a kernel is laid out.  The host chooses the size of the *)
(* work-groups (Support.cpp) and the sizes of the header and of the two    *)
(* buffers of live values (Interface.cpp); clpkmcc decides where in them a *)
(* variable goes (Instrumentor.cpp); the work-items compute where their    *)
(* shares begin and copy there (toolkit.cl).  Nothing but these agreements *)
(* keeps one work-item from writing over the data of another.              *)
(*                                                                         *)
(* A launch has its global work size gws and local work size lws, <<>>     *)
(* while the application leaves it to the runtime; the device's limits     *)
(* maxItemSizes on each dimension and maxNumOfThread on a group; saves,    *)
(* for every place where the kernel may stop the variables that live on    *)
(* there; locals, the sizes of its __local variables; and args, the sizes  *)
(* the application asked for its __local parameters.  A variable has its   *)
(* address n in the compiler, a size and an alignment in bytes.  chosen    *)
(* says that the runtime has set lws.                                      *)
(*                                                                         *)
(* All this is computed before the kernel starts: the one step is the      *)
(* choice of lws, and the properties are about every launch it is given.   *)
(* X_Y, defined just before X, is X with a plausible bug.                  *)
(***************************************************************************)
EXTENDS Integers, FiniteSetsExt, SequencesExt

CONSTANT NoLaunch

VARIABLE launch

Dims == DOMAIN launch.gws
Sum(seq) == FoldSeq(LAMBDA a, b : a + b, 0, seq)
Product(seq) == FoldSeq(LAMBDA a, b : a * b, 1, seq)

-----------------------------------------------------------------------------
(* FindWorkGroupSize                                                       *)

\* The factors of a dimension's size, each with its quotient.
Factors(size, max) ==
  LET Pair(num) == IF num > (size \div num) \/ (size % num) # 0 THEN <<>>
                   ELSE <<num>> \o (IF (size \div num) # num /\ (size \div num) <= max
                                    THEN <<size \div num>> ELSE <<>>)
  IN FlattenSeq([num \in 1 .. Min({size, max}) |-> Pair(num)])

\* Whether a try takes the place of the largest so far.
IsLarger_NoLimit(size, maxSize) == size > maxSize
IsLarger(size, maxSize) == size > maxSize /\ size < launch.maxNumOfThread

\* NextTry counts through the choices, the first dimension first.
FindWorkGroupSize ==
  LET Factor == [d \in Dims |-> Factors(launch.gws[d], launch.maxItemSizes[d])]
      Radix(d) == Product([e \in 1 .. d - 1 |-> Len(Factor[e])])
      Try(n) == [d \in Dims |-> Factor[d][((n \div Radix(d)) % Len(Factor[d])) + 1]]
      Larger(max, n) == IF IsLarger(Product(Try(n)), Product(max)) THEN Try(n) ELSE max
  IN FoldLeft(Larger, Try(0), [n \in 1 .. Radix(Len(launch.gws) + 1) - 1 |-> n])

-----------------------------------------------------------------------------
(* The host's numbers                                                      *)

ChooseSize ==
  /\ launch # NoLaunch /\ launch.lws = <<>>
  /\ launch' = [launch EXCEPT !.lws = FindWorkGroupSize, !.chosen = TRUE]

RealLWS == launch.lws

\* CL_INVALID_WORK_GROUP_SIZE
IsRefused == \E d \in Dims : launch.gws[d] % RealLWS[d] # 0

NumGroups == [d \in Dims |-> launch.gws[d] \div RealLWS[d]]
NumOfThread == Product(launch.gws)
NumOfWorkGrp == Product(NumGroups)
WorkGrpSize == NumOfThread \div NumOfWorkGrp

Pad(size) == ((size + 3) \div 4) * 4

\* clSetKernelArg pads what the application asks for.
DynLocSize_AsAsked(size) == size
DynLocSize(size) == Pad(size)
DynLocSizes == [a \in DOMAIN launch.args |-> DynLocSize(launch.args[a])]

\* The sizes in the profile of the kernel, from clpkmcc.
SizeOf(vars) == MapThenSumSet(LAMBDA v : v.size, vars)
ReqPrvSize == Max({0} \cup {Pad(SizeOf(live)) : live \in launch.saves})
PaddedSize(size) == Pad(size)
ReqLocSize == Sum([v \in DOMAIN launch.locals |-> PaddedSize(launch.locals[v])])

TotalReqLocSize == ReqLocSize + Sum(DynLocSizes)
MetadataSize == (Len(DynLocSizes) + NumOfThread) * 4
PrivateBufferSize == ReqPrvSize * NumOfThread
LocalBufferSize == TotalReqLocSize * NumOfWorkGrp

-----------------------------------------------------------------------------
(* The device's numbers: the work-items, and __get_linear_id               *)

Below(sizes) == {p \in [Dims -> 0 .. Max(ToSet(sizes)) - 1] :
                   \A d \in Dims : p[d] < sizes[d]}
Groups == Below(NumGroups)
LocalIds == Below(RealLWS)
Items == Groups \X LocalIds          \* get_group_id() and get_local_id()

Linear(sizes, ids) == FoldRight(LAMBDA d, id : id * sizes[d] + ids[d],
                                [d \in Dims |-> d], 0)
GroupId(g) == Linear(NumGroups, g)
GroupSize == Product(RealLWS)

GlobalId_RowMajor(i) == Linear(launch.gws, [d \in Dims |-> i[1][d] * RealLWS[d] + i[2][d]])
GlobalId(i) == GroupId(i[1]) * GroupSize + Linear(RealLWS, i[2])

\* Where a work-item's header is.
HeaderAddress(i) == (Len(DynLocSizes) + GlobalId(i)) * 4

-----------------------------------------------------------------------------
(* What is saved where                                                     *)

\* The tracker keeps variables by their alignment.
Precedes(v, w) == v.align > w.align \/ (v.align = w.align /\ v.n < w.n)

\* __clpkm_store_private copies words, half-words or bytes.
Unit(v) == IF v.align >= 4 THEN 4 ELSE IF v.align >= 2 THEN 2 ELSE 1

PrivateAddress(i, live, v) ==
  GlobalId(i) * ReqPrvSize + SizeOf({w \in live : Precedes(w, v)})

StorePrivate(i, live, v) ==
  LET start == PrivateAddress(i, live, v)
  IN start .. start + Unit(v) * (v.size \div Unit(v)) - 1

\* Where the data of a __local variable or parameter go.
LocalSizes == launch.locals \o DynLocSizes
LocalAddress(g, v) ==
  LET loc == [u \in DOMAIN launch.locals |-> PaddedSize(launch.locals[u])] \o DynLocSizes
  IN GroupId(g) * TotalReqLocSize + Sum(SubSeq(loc, 1, v - 1))

\* __clpkm_store_local: the offsets that the work-item which is the id-th to
\* come copies.  It goes on while a word is whole and then copies the rest of
\* the variable, if that begins where it stands.
Rest(size, offset) == offset .. size - 1

StoreLocal(size, id, batch) ==
  LET Steps == 0 .. size
      Offset(n) == 4 * (id + n * batch)
      over == Min({n \in Steps : Offset(n) + 4 > size})
  IN UNION {Offset(n) .. Offset(n) + 3 : n \in 0 .. over - 1} \cup Rest(size, Offset(over))

-----------------------------------------------------------------------------
IsSized == launch # NoLaunch /\ launch.lws # <<>>
Runs == IsSized /\ ~IsRefused

\* The work-group size the runtime chooses is one the device takes, so the
\* launch is not refused for it: it divides the global work size, keeps to
\* every limit of the device, and below those limits no other is larger.
WorkGroupSizeFits ==
  IsSized /\ launch.chosen =>
    LET Fits(lws) == /\ \A d \in Dims : /\ launch.gws[d] % lws[d] = 0
                                        /\ lws[d] <= launch.maxItemSizes[d]
                     /\ Product(lws) <= launch.maxNumOfThread
    IN /\ Fits(RealLWS)
       /\ \A lws \in Below([d \in Dims |-> launch.gws[d] + 1]) :
            (\A d \in Dims : lws[d] > 0) /\ Product(lws) < launch.maxNumOfThread /\ Fits(lws)
              => Product(lws) <= GroupSize

\* UpdateHeader takes the header in pieces of WorkGrpSize entries and lets a
\* piece pass a barrier when all of it has stopped: so every piece is the
\* entries of one work-group, each work-item's its own, and none of them
\* touches the table of sizes before them or leaves the buffer.
HeaderIsByGroup ==
  Runs =>
    /\ \A g \in Groups :
         {HeaderAddress(<<g, l>>) : l \in LocalIds} =
           {(Len(DynLocSizes) + GroupId(g) * WorkGrpSize + n) * 4 : n \in 0 .. WorkGrpSize - 1}
    /\ {GroupId(g) : g \in Groups} = 0 .. NumOfWorkGrp - 1
    /\ Cardinality(Items) = NumOfThread
    /\ \A i \in Items : HeaderAddress(i) + 4 <= MetadataSize

\* What a work-item or work-group saves when it stops is all of every live
\* variable, copied from and to aligned places, inside the buffers, and never
\* over the data of another variable, work-item or group, wherever these stop.
SavedDataIsKept ==
  Runs =>
    /\ \A live \in launch.saves, i \in Items :
         /\ \A v \in live :
              /\ Cardinality(StorePrivate(i, live, v)) = v.size
              /\ PrivateAddress(i, live, v) % Unit(v) = 0
              /\ StorePrivate(i, live, v) \subseteq
                   GlobalId(i) * ReqPrvSize .. (GlobalId(i) + 1) * ReqPrvSize - 1
              /\ \A w \in live \ {v} :
                   StorePrivate(i, live, v) \cap StorePrivate(i, live, w) = {}
         /\ (GlobalId(i) + 1) * ReqPrvSize <= PrivateBufferSize
    /\ \A v \in DOMAIN LocalSizes :
         UNION {StoreLocal(LocalSizes[v], id, GroupSize) : id \in 0 .. GroupSize - 1} =
           0 .. LocalSizes[v] - 1
    /\ LET Share(g, v) == {LocalAddress(g, v) + n : n \in 0 .. LocalSizes[v] - 1}
           Shares == Groups \X DOMAIN LocalSizes
       IN \A s \in Shares :
            /\ LocalAddress(s[1], s[2]) % 4 = 0
            /\ Share(s[1], s[2]) \subseteq 0 .. LocalBufferSize - 1
            /\ \A r \in Shares \ {s} : Share(s[1], s[2]) \cap Share(r[1], r[2]) = {}
=============================================================================
