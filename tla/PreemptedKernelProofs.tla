------------------------- MODULE PreemptedKernelProofs -------------------------
(***************************************************************************)
(* What holds of a preempted kernel for any groups, group size, rounds and *)
(* loops: the work-items of a group are let through its barriers together, *)
(* in one run or by the host between two; the kernel is the kernel nobody  *)
(* preempts; and the words written before a barrier are read behind it,    *)
(* though __local ones are saved and loaded by every run in between.       *)
(***************************************************************************)
EXTENDS PreemptedKernel, FiniteSetTheorems, TLAPS

-----------------------------------------------------------------------------
(* The inductive invariant.                                                 *)

\* Where the work-items of a group can be together, from one opening of a barrier
\* to the next: they enter; they work; those that have counted themselves at a
\* barrier look while those that leave number themselves; the former put the stop
\* back and leave, blocked, the latter store and are gone; or all go on.
Entering == {"entry", "init"}
Working == {"switch", "loop", "counted", "exit", "batched", "passed", "body end", "advance",
            "left"}
Looking == {"look", "looked", "number", "numbered", "left"}
Leaving == {"uncount", "exit", "batched", "store", "left"}
Passing == {"uncount", "original"}

Labels == Entering \cup Working \cup Looking \cup Leaving \cup Passing

AllIn(g, labels) == \A i \in Group(g) : pc[i] \in labels

InStep(g) ==
  AllIn(g, Entering) \/ AllIn(g, Working) \/ AllIn(g, Looking) \/ AllIn(g, Leaving)
    \/ AllIn(g, Passing)

\* In the source program, where the variables count, or between two of its
\* statements, where the header entry and the saved values do.
AtBarrier == {"counted", "look", "looked", "uncount", "original"}
Behind == {"passed", "body end", "advance"}
InSource == {"loop"} \cup AtBarrier \cup Behind

EntryIsRight(h, sp, n) ==
  /\ \/ h \in {Finished, Fresh}
     \/ sp.round \in 1 .. NumOfRound /\ h \in {LoopNonce, OuterNonce} \cup BarrierNonces
     \/ sp.round \in 1 .. NumOfRound /\ h = -BarrierNonce(SiteOf(sp.round))
  /\ h = LoopNonce => sp.trip \in 0 .. n

ItemIsRight(i) ==
  /\ pc[i] \in InSource => prv[i].round \in 1 .. NumOfRound
  /\ pc[i] = "loop" => prv[i].trip \in 0 .. trips[i]
  /\ pc[i] \notin InSource => EntryIsRight(hdr[i], savedPrv[i], trips[i])
  /\ pc[i] \notin InSource \cup Entering \cup {"switch"} => hdr[i] # Fresh

\* How many barriers a work-item has been let through, and how many it has come to.
EntryFreed(h, sp) ==
  IF h = Fresh THEN 0
  ELSE IF h = Finished THEN NumOfRound
  ELSE IF h \in BarrierNonces \cup {OuterNonce} THEN sp.round
  ELSE sp.round - 1

Freed(i) ==
  IF pc[i] \in InSource
  THEN IF pc[i] \in Behind THEN prv[i].round ELSE prv[i].round - 1
  ELSE EntryFreed(hdr[i], savedPrv[i])

EntryArrived(h, sp) ==
  IF h = Fresh THEN 0
  ELSE IF h = Finished THEN NumOfRound
  ELSE IF h = LoopNonce THEN sp.round - 1
  ELSE sp.round

Arrived(i) ==
  IF pc[i] \in InSource
  THEN IF pc[i] = "loop" THEN prv[i].round - 1 ELSE prv[i].round
  ELSE EntryArrived(hdr[i], savedPrv[i])

FreedTogether(g) == \A i, j \in Group(g) : Freed(i) = Freed(j)

\* The stop of a barrier counts down the work-items that are at it; who has looked
\* knows whether all are.
Counted == {"counted", "look", "looked", "uncount"}
CountedAt(g, s) ==
  {l \in LocalIds : pc[<<g, l>>] \in Counted /\ SiteOf(prv[<<g, l>>].round) = s}

StopsCount(g) ==
  \A s \in Sites : pc[<<g, s % GroupSize>>] # "entry" =>
    barrierStop[g][s] = GroupSize - Cardinality(CountedAt(g, s))

Looked == {"looked", "uncount", "original"}
AtStop == {"look"} \cup Looked
LooksAreRight(g) ==
  \A i \in Group(g) : pc[i] \in Looked =>
    (prv[i].remain = 0 <=> AllIn(g, AtStop))

\* The same of the work-items that leave: each batch numbers itself downwards from
\* its size, the last one to 0.
Numbered == {"numbered", "store", "left"}
OutOf(g) == {l \in LocalIds : pc[<<g, l>>] \in Numbered}

FinalStopCounts(g) ==
  usesLocal /\ pc[<<g, 0>>] # "entry" => finalStop[g] = GroupSize - Cardinality(OutOf(g))

Numbering == {"number", "numbered"}
BatchesAreRight(g) ==
  /\ \A i \in Group(g) : pc[i] = "batched" => usesLocal /\ prv[i].batch = finalStop[g]
  /\ \A i, j \in Group(g) : pc[i] \in Numbering /\ pc[j] \in Numbering =>
       prv[i].batch = prv[j].batch
  /\ \A i \in Group(g) : pc[i] \in Numbering =>
       /\ prv[i].batch >= 1
       /\ \A e \in finalStop[g] .. prv[i].batch - 1 :
            \E j \in Group(g) : pc[j] = "numbered" /\ prv[j].exitId = e

\* What the last batch has yet to save.
StoresAreRight(g) ==
  usesLocal /\ AllIn(g, {"store", "left"}) =>
    \A j \in Group(g) :
      savedLocal[j] = mem[j] \/ \E i \in Group(g) : pc[i] = "store" /\ j \in Share(i)

\* A work-item's word is the round of the last barrier it came to; between two
\* runs a __local one is in the copy.
Word(i) == IF Arrived(i) = 0 THEN Garbage ELSE Arrived(i)

WordsAreRight(g) ==
  /\ ~usesLocal \/ ~AllIn(g, Entering) => \A j \in Group(g) : mem[j] = Word(j)
  /\ usesLocal /\ AllIn(g, Entering) =>
       /\ \A j \in Group(g) : savedLocal[j] = Word(j) /\ mem[j] \in {Garbage, Word(j)}
       /\ \A i, j \in Group(g) : pc[i] = "init" => mem[j] = Word(j)
       /\ \A i, j \in Group(g) : hdr[i] = Fresh => hdr[j] = Fresh

TypeOK ==
  /\ usesLocal \in BOOLEAN /\ finished \in BOOLEAN
  /\ trips \in [Items -> Nat]
  /\ pc \in [Items -> Labels]
  /\ prv \in [Items -> [round : Int, trip : Int, remain : Int, batch : Int, exitId : Int]]
  /\ hdr \in [Items -> Int]
  /\ savedPrv \in [Items -> [round : Int, trip : Int]]
  /\ savedLocal \in [Items -> Int] /\ mem \in [Items -> Int]
  /\ barrierStop \in [Groups -> [Sites -> Int]]
  /\ finalStop \in [Groups -> Int]

Barriers(g) == InStep(g) /\ FreedTogether(g) /\ StopsCount(g) /\ LooksAreRight(g)
Locals(g) == FinalStopCounts(g) /\ BatchesAreRight(g) /\ StoresAreRight(g) /\ WordsAreRight(g)

IInv ==
  /\ TypeOK
  /\ \A i \in Items : ItemIsRight(i)
  /\ \A g \in Groups : Barriers(g) /\ Locals(g)

-----------------------------------------------------------------------------
(* Groups, labels and the work-items that a step leaves alone.              *)

\* A work-item is a group and a local id.
LEMMA ItemParts ==
  /\ \A i \in Items : i[1] \in Groups /\ i[2] \in LocalIds /\ i = <<i[1], i[2]>>
                      /\ i \in Group(i[1]) /\ GroupOf(i) = Group(i[1]) /\ LocalId(i) = i[2]
  /\ \A g \in Groups : Group(g) \in SUBSET Items
  /\ \A g \in Groups : \A i \in Group(g) : i[1] = g
  /\ \A g \in Groups, l \in LocalIds : <<g, l>> \in Group(g)
  BY DEF Items, Group, GroupOf, LocalId

\* What a work-item's place in the program is made of.
Unmoved(j) ==
  /\ pc'[j] = pc[j] /\ prv'[j] = prv[j] /\ hdr'[j] = hdr[j]
  /\ savedPrv'[j] = savedPrv[j] /\ trips' = trips

OnlyMoves(i) ==
  /\ \A j \in Items : j # i => Unmoved(j)
  /\ usesLocal' = usesLocal /\ trips' = trips

\* Where a header entry says that a work-item is.
EntryPosition(h, sp) ==
  CASE h = Fresh      -> At(1, 0, "loop")
    [] h = LoopNonce  -> At(sp.round, sp.trip, "loop")
    [] h = Finished   -> At(NumOfRound, 0, "end")
    [] h = OuterNonce -> At(sp.round, 0, "passed")
    [] OTHER          -> At(sp.round, 0, "barrier")

\* The place of a work-item, by its label.
PlaceIs(i, freed, arrived, position) ==
  Freed(i) = freed /\ Arrived(i) = arrived /\ Position(i) = position

PlaceAfter(i, freed, arrived, position) ==
  Freed(i)' = freed /\ Arrived(i)' = arrived /\ Position(i)' = position

PlaceByLabel(i) ==
  /\ pc[i] = "loop" =>
       PlaceIs(i, prv[i].round - 1, prv[i].round - 1, At(prv[i].round, prv[i].trip, "loop"))
  /\ pc[i] \in AtBarrier => PlaceIs(i, prv[i].round - 1, prv[i].round, At(prv[i].round, 0, "barrier"))
  /\ pc[i] = "passed" => PlaceIs(i, prv[i].round, prv[i].round, At(prv[i].round, 0, "barrier"))
  /\ pc[i] \in {"body end", "advance"} =>
       PlaceIs(i, prv[i].round, prv[i].round, At(prv[i].round, 0, "passed"))
  /\ pc[i] \notin InSource =>
       PlaceIs(i, EntryFreed(hdr[i], savedPrv[i]), EntryArrived(hdr[i], savedPrv[i]),
               EntryPosition(hdr[i], savedPrv[i]))

\* A label settles which case of the definitions applies, before a step and after it.
LEMMA Places ==
  ASSUME NEW i
  PROVE  PlaceByLabel(i) /\ PlaceByLabel(i)'
<1>1. PlaceByLabel(i)
  <2>1. CASE pc[i] = "loop"
    BY <2>1 DEF PlaceByLabel, PlaceIs, Freed, Arrived, Position, InSource, AtBarrier, Behind
  <2>2. CASE pc[i] \in AtBarrier
    BY <2>2 DEF PlaceByLabel, PlaceIs, Freed, Arrived, Position, InSource, AtBarrier, Behind
  <2>3. CASE pc[i] \in Behind
    BY <2>3 DEF PlaceByLabel, PlaceIs, Freed, Arrived, Position, InSource, AtBarrier, Behind
  <2>4. CASE pc[i] \notin InSource
    BY <2>4 DEF PlaceByLabel, PlaceIs, Freed, Arrived, Position, EntryPosition, InSource, AtBarrier, Behind
  <2>5. QED
    BY <2>1, <2>2, <2>3, <2>4 DEF InSource
<1>2. PlaceByLabel(i)'
  <2>1. CASE pc'[i] = "loop"
    BY <2>1 DEF PlaceByLabel, PlaceIs, Freed, Arrived, Position, InSource, AtBarrier, Behind
  <2>2. CASE pc'[i] \in AtBarrier
    BY <2>2 DEF PlaceByLabel, PlaceIs, Freed, Arrived, Position, InSource, AtBarrier, Behind
  <2>3. CASE pc'[i] \in Behind
    BY <2>3 DEF PlaceByLabel, PlaceIs, Freed, Arrived, Position, InSource, AtBarrier, Behind
  <2>4. CASE pc'[i] \notin InSource
    BY <2>4 DEF PlaceByLabel, PlaceIs, Freed, Arrived, Position, EntryPosition, InSource, AtBarrier, Behind
  <2>5. QED
    BY <2>1, <2>2, <2>3, <2>4 DEF InSource
<1>3. QED
  BY <1>1, <1>2

\* A work-item that a step leaves alone stays where it was.
LEMMA UnmovedStays ==
  ASSUME NEW j, Unmoved(j)
  PROVE  /\ ItemIsRight(j)' = ItemIsRight(j) /\ Freed(j)' = Freed(j)
         /\ Arrived(j)' = Arrived(j) /\ Position(j)' = Position(j)
<1>1. ItemIsRight(j)' = ItemIsRight(j)
  BY DEF Unmoved, ItemIsRight
<1>2. Freed(j)' = Freed(j)
  BY DEF Unmoved, Freed
<1>3. Arrived(j)' = Arrived(j)
  BY DEF Unmoved, Arrived
<1>4. Position(j)' = Position(j)
  BY DEF Unmoved, Position
<1>5. QED
  BY <1>1, <1>2, <1>3, <1>4

\* How a step treats the place of the work-item that makes it.
KeepsCounts(i) == ItemIsRight(i)' /\ Freed(i)' = Freed(i)
KeepsPlace(i) == KeepsCounts(i) /\ Arrived(i)' = Arrived(i) /\ Position(i)' = Position(i)

\* Entering the kernel moves no work-item.
LEMMA EnterItem ==
  ASSUME TypeOK, NEW i \in Items, ItemIsRight(i), Enter(i)
  PROVE  TypeOK' /\ OnlyMoves(i) /\ KeepsPlace(i)
<1>1. TypeOK'
  <2>1. i[1] \in Groups /\ "init" \in Labels
    BY ItemParts DEF Labels, Entering
  <2>2. barrierStop' \in [Groups -> [Sites -> Int]]
    BY <2>1, ConstantsAssumption DEF TypeOK, Enter, InitBarrierStop
  <2>3. finalStop' \in [Groups -> Int]
    BY <2>1, ConstantsAssumption DEF TypeOK, Enter, InitFinalStop
  <2>4. mem' \in [Items -> Int]
    BY DEF TypeOK, Enter
  <2>5. pc' \in [Items -> Labels]
    BY <2>1 DEF TypeOK, Enter, Goto
  <2>6. QED
    BY <2>2, <2>3, <2>4, <2>5 DEF TypeOK, Enter, kernel, saved
<1>2. OnlyMoves(i)
  BY DEF TypeOK, Enter, Goto, kernel, saved, OnlyMoves, Unmoved
<1>3. /\ pc[i] = "entry" /\ pc'[i] = "init" /\ hdr'[i] = hdr[i] /\ savedPrv'[i] = savedPrv[i]
      /\ trips' = trips
  BY DEF TypeOK, Enter, Goto, kernel, saved
<1>4. ItemIsRight(i)'
  BY <1>3 DEF ItemIsRight, InSource, AtBarrier, Behind, Entering
<1>5. Freed(i)' = Freed(i) /\ Arrived(i)' = Arrived(i)
  BY <1>3 DEF Freed, Arrived, InSource, AtBarrier, Behind
<1>6. Position(i)' = Position(i)
  BY <1>3 DEF Position
<1>7. QED
  BY <1>1, <1>2, <1>4, <1>5, <1>6 DEF KeepsPlace, KeepsCounts

\* What a work-item's place has to be like, by its label.
RightByLabel(i) ==
  /\ pc[i] = "loop" =>
       (ItemIsRight(i) <=> prv[i].round \in 1 .. NumOfRound /\ prv[i].trip \in 0 .. trips[i])
  /\ pc[i] \in AtBarrier \cup Behind => (ItemIsRight(i) <=> prv[i].round \in 1 .. NumOfRound)
  /\ pc[i] \in Entering \cup {"switch"} =>
       (ItemIsRight(i) <=> EntryIsRight(hdr[i], savedPrv[i], trips[i]))
  /\ pc[i] \notin InSource \cup Entering \cup {"switch"} =>
       (ItemIsRight(i) <=> EntryIsRight(hdr[i], savedPrv[i], trips[i]) /\ hdr[i] # Fresh)

\* A label settles which parts of ItemIsRight apply, before a step and after it.
LEMMA Rights ==
  ASSUME NEW i
  PROVE  RightByLabel(i) /\ RightByLabel(i)'
<1>1. RightByLabel(i)
  BY DEF RightByLabel, ItemIsRight, InSource, AtBarrier, Behind, Entering
<1>2. RightByLabel(i)'
  BY DEF RightByLabel, ItemIsRight, InSource, AtBarrier, Behind, Entering
<1>3. QED
  BY <1>1, <1>2

\* The header entries are told apart.
LEMMA Nonces ==
  /\ Fresh # Finished /\ LoopNonce \notin {Fresh, Finished, OuterNonce}
  /\ OuterNonce \notin {Fresh, Finished} /\ OuterNonce > 0 /\ LoopNonce > 0 /\ Fresh > 0
  /\ \A n \in BarrierNonces : n \notin {Fresh, Finished, LoopNonce, OuterNonce} /\ n > 0 /\ -n < 0
  /\ \A r \in Int : SiteOf(r) \in Sites /\ BarrierNonce(SiteOf(r)) \in BarrierNonces
                    /\ BarrierNonce(SiteOf(r)) \in Int
  BY DEF Fresh, Finished, LoopNonce, OuterNonce, BarrierNonces, BarrierNonce, Sites, SiteOf

\* Where a work-item is that has a header entry, by the entry.
LEMMA EntryPlaces ==
  ASSUME NEW sp
  PROVE  /\ EntryFreed(Fresh, sp) = 0 /\ EntryArrived(Fresh, sp) = 0
         /\ EntryPosition(Fresh, sp) = At(1, 0, "loop")
         /\ EntryFreed(Finished, sp) = NumOfRound /\ EntryArrived(Finished, sp) = NumOfRound
         /\ EntryPosition(Finished, sp) = At(NumOfRound, 0, "end")
         /\ EntryFreed(LoopNonce, sp) = sp.round - 1 /\ EntryArrived(LoopNonce, sp) = sp.round - 1
         /\ EntryPosition(LoopNonce, sp) = At(sp.round, sp.trip, "loop")
         /\ EntryFreed(OuterNonce, sp) = sp.round /\ EntryArrived(OuterNonce, sp) = sp.round
         /\ EntryPosition(OuterNonce, sp) = At(sp.round, 0, "passed")
         /\ \A n \in BarrierNonces :
              /\ EntryFreed(n, sp) = sp.round /\ EntryArrived(n, sp) = sp.round
              /\ EntryPosition(n, sp) = At(sp.round, 0, "barrier")
              /\ EntryFreed(-n, sp) = sp.round - 1 /\ EntryArrived(-n, sp) = sp.round
              /\ EntryPosition(-n, sp) = At(sp.round, 0, "barrier")
<1>1. /\ EntryFreed(Fresh, sp) = 0 /\ EntryArrived(Fresh, sp) = 0
      /\ EntryFreed(Finished, sp) = NumOfRound /\ EntryArrived(Finished, sp) = NumOfRound
      /\ EntryFreed(LoopNonce, sp) = sp.round - 1 /\ EntryArrived(LoopNonce, sp) = sp.round - 1
      /\ EntryFreed(OuterNonce, sp) = sp.round /\ EntryArrived(OuterNonce, sp) = sp.round
  BY Nonces DEF EntryFreed, EntryArrived, BarrierNonces, BarrierNonce, Sites, LoopNonce, Fresh, Finished
<1>2. ASSUME NEW n \in BarrierNonces
      PROVE  /\ EntryFreed(n, sp) = sp.round /\ EntryArrived(n, sp) = sp.round
             /\ EntryFreed(-n, sp) = sp.round - 1 /\ EntryArrived(-n, sp) = sp.round
  BY <1>2 DEF EntryFreed, EntryArrived, BarrierNonces, BarrierNonce, Sites, LoopNonce, Fresh, Finished,
              OuterNonce
<1>3. /\ EntryPosition(Fresh, sp) = At(1, 0, "loop")
      /\ EntryPosition(Finished, sp) = At(NumOfRound, 0, "end")
      /\ EntryPosition(LoopNonce, sp) = At(sp.round, sp.trip, "loop")
      /\ EntryPosition(OuterNonce, sp) = At(sp.round, 0, "passed")
  BY Nonces DEF EntryPosition
<1>4. ASSUME NEW n \in BarrierNonces
      PROVE  /\ EntryPosition(n, sp) = At(sp.round, 0, "barrier")
             /\ EntryPosition(-n, sp) = At(sp.round, 0, "barrier")
  <2>1. n \notin {Fresh, Finished, LoopNonce, OuterNonce}
    BY <1>4, Nonces
  <2>2. -n \notin {Fresh, Finished, LoopNonce, OuterNonce}
    BY <1>4 DEF Fresh, Finished, LoopNonce, OuterNonce, BarrierNonces, BarrierNonce, Sites
  <2>3. QED
    BY <2>1, <2>2 DEF EntryPosition
<1>5. QED
  BY <1>1, <1>2, <1>3, <1>4

\* The entry for the end of a run is one a work-item can resume from.
LEMMA EntryCases ==
  ASSUME NEW h, NEW sp, NEW n, EntryIsRight(h, sp, n)
  PROVE  \/ h = Finished
         \/ h = Fresh
         \/ /\ sp.round \in 1 .. NumOfRound
            /\ \/ h = LoopNonce /\ sp.trip \in 0 .. n
               \/ h = OuterNonce
               \/ h \in BarrierNonces
               \/ h = -BarrierNonce(SiteOf(sp.round)) /\ BarrierNonce(SiteOf(sp.round)) \in BarrierNonces
<1>1. \A r \in 1 .. NumOfRound : BarrierNonce(SiteOf(r)) \in BarrierNonces
  BY Nonces
<1>2. QED
  BY <1>1 DEF EntryIsRight

\* Where the header entry sends a work-item is where it was.
LEMMA DispatchItem ==
  ASSUME TypeOK, NEW i \in Items, ItemIsRight(i), Dispatch(i)
  PROVE  TypeOK' /\ OnlyMoves(i) /\ KeepsPlace(i)
<1>1. {"loop", "advance", "passed", "exit"} \in SUBSET Labels
  BY DEF Labels, Working
<1>2. TypeOK'
  <2>1. pc' \in [Items -> Labels]
    BY <1>1 DEF TypeOK, Dispatch, Goto
  <2>2. prv' \in [Items -> [round : Int, trip : Int, remain : Int, batch : Int, exitId : Int]]
    BY DEF TypeOK, Dispatch
  <2>3. QED
    BY <2>1, <2>2 DEF TypeOK, Dispatch, kernel, saved, shared
<1>3. OnlyMoves(i)
  BY DEF TypeOK, Dispatch, Goto, kernel, saved, shared, OnlyMoves, Unmoved
<1>4. /\ pc[i] = "switch" /\ hdr'[i] = hdr[i] /\ savedPrv'[i] = savedPrv[i] /\ trips' = trips
      /\ \/ /\ hdr[i] = Fresh /\ pc'[i] = "loop"
            /\ prv'[i].round = 1 /\ prv'[i].trip = 0
         \/ /\ hdr[i] = LoopNonce /\ pc'[i] = "loop"
            /\ prv'[i].round = savedPrv[i].round /\ prv'[i].trip = savedPrv[i].trip
         \/ /\ hdr[i] \in BarrierNonces /\ pc'[i] = "passed" /\ prv'[i].round = savedPrv[i].round
         \/ /\ hdr[i] = OuterNonce /\ pc'[i] = "advance" /\ prv'[i].round = savedPrv[i].round
         \/ /\ hdr[i] <= Finished /\ pc'[i] = "exit"
  BY Nonces DEF TypeOK, Dispatch, Goto, kernel, saved
<1>5. /\ EntryIsRight(hdr[i], savedPrv[i], trips[i])
      /\ PlaceIs(i, EntryFreed(hdr[i], savedPrv[i]), EntryArrived(hdr[i], savedPrv[i]),
                 EntryPosition(hdr[i], savedPrv[i]))
  BY <1>4, Places, Rights DEF PlaceByLabel, RightByLabel, InSource, AtBarrier, Behind, Entering
<1>6. trips[i] \in Nat /\ 1 \in 1 .. NumOfRound /\ 0 \in 0 .. trips[i]
  BY ConstantsAssumption DEF TypeOK
<1>7. KeepsPlace(i)
  <2>1. CASE hdr[i] = Fresh /\ pc'[i] = "loop" /\ prv'[i].round = 1 /\ prv'[i].trip = 0
    <3>1. PlaceIs(i, 1 - 1, 1 - 1, At(1, 0, "loop"))'
      BY <2>1, Places DEF PlaceByLabel, PlaceIs
    <3>2. ItemIsRight(i)'
      BY <1>4, <1>6, <2>1, Rights DEF RightByLabel
    <3>3. QED
      BY <1>5, <2>1, <3>1, <3>2, 1 - 1 = 0, EntryPlaces DEF PlaceIs, KeepsPlace, KeepsCounts
  <2>2. CASE /\ hdr[i] = LoopNonce /\ pc'[i] = "loop"
             /\ prv'[i].round = savedPrv[i].round /\ prv'[i].trip = savedPrv[i].trip
    <3>1. PlaceIs(i, savedPrv[i].round - 1, savedPrv[i].round - 1,
                  At(savedPrv[i].round, savedPrv[i].trip, "loop"))'
      BY <1>4, <2>2, Places DEF PlaceByLabel, PlaceIs
    <3>2. savedPrv[i].round \in 1 .. NumOfRound /\ savedPrv[i].trip \in 0 .. trips[i]
      BY <1>5, <2>2, EntryCases, Nonces
    <3>3. ItemIsRight(i)'
      BY <1>4, <2>2, <3>2, Rights DEF RightByLabel
    <3>4. QED
      BY <1>4, <1>5, <2>2, <3>1, <3>3, EntryPlaces DEF PlaceIs, KeepsPlace, KeepsCounts
  <2>3. CASE hdr[i] \in BarrierNonces /\ pc'[i] = "passed" /\ prv'[i].round = savedPrv[i].round
    <3>1. PlaceIs(i, savedPrv[i].round, savedPrv[i].round, At(savedPrv[i].round, 0, "barrier"))'
      BY <1>4, <2>3, Places DEF PlaceByLabel, PlaceIs
    <3>2. savedPrv[i].round \in 1 .. NumOfRound
      BY <1>5, <2>3, EntryCases, Nonces
    <3>3. ItemIsRight(i)'
      BY <1>4, <2>3, <3>2, Rights DEF RightByLabel, Behind
    <3>4. QED
      BY <1>4, <1>5, <2>3, <3>1, <3>3, EntryPlaces DEF PlaceIs, KeepsPlace, KeepsCounts
  <2>4. CASE hdr[i] = OuterNonce /\ pc'[i] = "advance" /\ prv'[i].round = savedPrv[i].round
    <3>1. PlaceIs(i, savedPrv[i].round, savedPrv[i].round, At(savedPrv[i].round, 0, "passed"))'
      BY <1>4, <2>4, Places DEF PlaceByLabel, PlaceIs
    <3>2. savedPrv[i].round \in 1 .. NumOfRound
      BY <1>5, <2>4, EntryCases, Nonces
    <3>3. ItemIsRight(i)'
      BY <1>4, <2>4, <3>2, Rights DEF RightByLabel, Behind
    <3>4. QED
      BY <1>4, <1>5, <2>4, <3>1, <3>3, EntryPlaces DEF PlaceIs, KeepsPlace, KeepsCounts
  <2>5. CASE hdr[i] <= Finished /\ pc'[i] = "exit"
    <3>1. PlaceIs(i, EntryFreed(hdr[i], savedPrv[i]), EntryArrived(hdr[i], savedPrv[i]),
                  EntryPosition(hdr[i], savedPrv[i]))'
      BY <1>4, <2>5, Places DEF PlaceByLabel, PlaceIs, InSource, AtBarrier, Behind
    <3>2. hdr[i] # Fresh
      BY <2>5 DEF Fresh, Finished
    <3>3. ItemIsRight(i)'
      BY <1>4, <1>5, <2>5, <3>2, Rights DEF RightByLabel, InSource, AtBarrier, Behind, Entering
    <3>4. QED
      BY <1>4, <1>5, <3>1, <3>3 DEF PlaceIs, KeepsPlace, KeepsCounts
  <2>6. QED
    BY <1>4, <2>1, <2>2, <2>3, <2>4, <2>5
<1>8. QED
  BY <1>2, <1>3, <1>7

Prv == [round : Int, trip : Int, remain : Int, batch : Int, exitId : Int]

\* What a work-item leaves behind that stops in the source program.
LEMMA CheckpointEffects ==
  ASSUME TypeOK, NEW i \in Items, NEW entry \in Int, NEW p \in Prv, Checkpoint(i, entry, p)
  PROVE  /\ pc' \in [Items -> Labels] /\ hdr' \in [Items -> Int]
         /\ savedPrv' \in [Items -> [round : Int, trip : Int]] /\ savedLocal' = savedLocal
         /\ pc'[i] = "exit" /\ hdr'[i] = entry /\ savedPrv'[i].round = p.round
         /\ entry = LoopNonce => savedPrv'[i].trip = p.trip
         /\ \A j \in Items : j # i =>
              pc'[j] = pc[j] /\ hdr'[j] = hdr[j] /\ savedPrv'[j] = savedPrv[j]
<1>1. "exit" \in Labels
  BY DEF Labels, Working
<1>2. Live(entry, p) \in [round : Int, trip : Int] /\ Live(entry, p).round = p.round
      /\ (entry = LoopNonce => Live(entry, p).trip = p.trip)
  BY DEF Live, Garbage, Prv
<1>3. pc' \in [Items -> Labels] /\ pc'[i] = "exit" /\ \A j \in Items : j # i => pc'[j] = pc[j]
  BY <1>1 DEF Checkpoint, Goto, TypeOK
<1>4. /\ hdr' \in [Items -> Int] /\ hdr'[i] = entry
      /\ \A j \in Items : j # i => hdr'[j] = hdr[j]
  BY DEF Checkpoint, TypeOK
<1>5. /\ savedPrv' \in [Items -> [round : Int, trip : Int]] /\ savedPrv'[i] = Live(entry, p)
      /\ \A j \in Items : j # i => savedPrv'[j] = savedPrv[j]
  BY <1>2 DEF Checkpoint, TypeOK
<1>6. QED
  BY <1>2, <1>3, <1>4, <1>5 DEF Checkpoint

\* An iteration is one iteration, whether the time slice ends with it or not.
LEMMA LoopItem ==
  ASSUME TypeOK, NEW i \in Items, ItemIsRight(i), Loop(i)
  PROVE  /\ TypeOK' /\ OnlyMoves(i) /\ KeepsCounts(i) /\ Arrived(i)' = Arrived(i)
         /\ Position(i) = At(prv[i].round, prv[i].trip, "loop") /\ prv[i].trip < trips[i]
         /\ Position(i)' = At(prv[i].round, prv[i].trip + 1, "loop")
<1>1. /\ pc[i] = "loop" /\ prv[i].trip < trips[i] /\ trips' = trips
      /\ prv' \in [Items -> Prv] /\ prv'[i].round = prv[i].round /\ prv'[i].trip = prv[i].trip + 1
      /\ \A j \in Items : j # i => prv'[j] = prv[j]
  BY DEF Loop, TypeOK, Prv, kernel
<1>2. prv[i].round \in 1 .. NumOfRound /\ prv'[i].trip \in 0 .. trips[i]
  <2>1. prv[i].round \in 1 .. NumOfRound /\ prv[i].trip \in 0 .. trips[i]
    BY <1>1, Rights DEF RightByLabel
  <2>2. trips[i] \in Nat
    BY DEF TypeOK
  <2>3. QED
    BY <1>1, <2>1, <2>2
<1>3. PlaceIs(i, prv[i].round - 1, prv[i].round - 1, At(prv[i].round, prv[i].trip, "loop"))
  BY <1>1, Places DEF PlaceByLabel
<1>4. CASE UNCHANGED <<pc, saved>>
  <2>1. TypeOK' /\ OnlyMoves(i)
    BY <1>1, <1>4 DEF Loop, TypeOK, Prv, kernel, saved, shared, OnlyMoves, Unmoved
  <2>2. pc'[i] = "loop"
    BY <1>1, <1>4
  <2>3. PlaceAfter(i, prv[i].round - 1, prv[i].round - 1, At(prv[i].round, prv[i].trip + 1, "loop"))
    BY <1>1, <2>2, Places DEF PlaceByLabel, PlaceIs, PlaceAfter
  <2>4. ItemIsRight(i)'
    BY <1>1, <1>2, <2>2, Rights DEF RightByLabel
  <2>5. QED
    BY <1>1, <1>3, <2>1, <2>3, <2>4 DEF PlaceIs, PlaceAfter, KeepsCounts
<1>5. CASE Checkpoint(i, LoopNonce, prv'[i])
  <2>1. LoopNonce \in Int /\ prv'[i] \in Prv
    BY <1>1 DEF LoopNonce
  <2>2. TypeOK' /\ OnlyMoves(i)
    BY <1>1, <1>5, <2>1, CheckpointEffects
       DEF Loop, TypeOK, Prv, kernel, shared, OnlyMoves, Unmoved
  <2>3. /\ pc'[i] = "exit" /\ hdr'[i] = LoopNonce
        /\ savedPrv'[i].round = prv[i].round /\ savedPrv'[i].trip = prv[i].trip + 1
    BY <1>1, <1>5, <2>1, CheckpointEffects
  <2>4. /\ PlaceAfter(i, EntryFreed(LoopNonce, savedPrv'[i]), EntryArrived(LoopNonce, savedPrv'[i]),
                      EntryPosition(LoopNonce, savedPrv'[i]))
        /\ ItemIsRight(i)' <=> EntryIsRight(LoopNonce, savedPrv'[i], trips'[i])
    BY <2>3, Places, Rights, Nonces
       DEF PlaceByLabel, RightByLabel, PlaceIs, PlaceAfter, InSource, AtBarrier, Behind, Entering
  <2>5. ItemIsRight(i)'
    BY <1>1, <1>2, <2>3, <2>4 DEF EntryIsRight
  <2>6. QED
    BY <1>1, <1>3, <2>2, <2>3, <2>4, <2>5, EntryPlaces DEF PlaceIs, PlaceAfter, KeepsCounts
<1>6. QED
  BY <1>4, <1>5 DEF Loop

\* Steps within a barrier call, on the way in and on the way out keep the place.
Out == {"exit", "batched", "number", "numbered", "store", "left"}
OneKind(a, b) ==
  \/ a \in AtBarrier /\ b \in AtBarrier
  \/ a \in Entering \cup {"switch"} /\ b \in Entering \cup {"switch"}
  \/ a \in Out /\ b \in Out

\* A label of the same kind is the same place.
LEMMA KindKeeps ==
  ASSUME NEW i, OneKind(pc[i], pc'[i]), prv'[i].round = prv[i].round, hdr'[i] = hdr[i],
         savedPrv'[i] = savedPrv[i], trips' = trips, ItemIsRight(i)
  PROVE  KeepsPlace(i)
<1>1. CASE pc[i] \in AtBarrier /\ pc'[i] \in AtBarrier
  BY <1>1, Places, Rights DEF KeepsPlace, KeepsCounts, PlaceByLabel, PlaceIs, RightByLabel
<1>2. CASE pc[i] \in Entering \cup {"switch"} /\ pc'[i] \in Entering \cup {"switch"}
  <2>1. pc[i] \notin InSource /\ pc'[i] \notin InSource
    BY <1>2 DEF Entering, InSource, AtBarrier, Behind
  <2>2. QED
    BY <1>2, <2>1, Places, Rights DEF KeepsPlace, KeepsCounts, PlaceByLabel, PlaceIs, RightByLabel
<1>3. CASE pc[i] \in Out /\ pc'[i] \in Out
  <2>1. /\ pc[i] \notin InSource \cup Entering \cup {"switch"}
        /\ pc'[i] \notin InSource \cup Entering \cup {"switch"}
    BY <1>3 DEF Entering, InSource, AtBarrier, Behind, Out
  <2>2. pc[i] \notin InSource /\ pc'[i] \notin InSource
    BY <2>1
  <2>3. QED
    BY <2>1, <2>2, Places, Rights DEF KeepsPlace, KeepsCounts, PlaceByLabel, PlaceIs, RightByLabel
<1>4. QED
  BY <1>1, <1>2, <1>3 DEF OneKind

\* Where a work-item is that has left the source program with an entry.
LEMMA Stopped ==
  ASSUME NEW i, NEW e, pc'[i] = "exit", hdr'[i] = e, e # Fresh
  PROVE  /\ PlaceAfter(i, EntryFreed(e, savedPrv'[i]), EntryArrived(e, savedPrv'[i]),
                       EntryPosition(e, savedPrv'[i]))
         /\ ItemIsRight(i)' <=> EntryIsRight(e, savedPrv'[i], trips'[i])
  BY Places, Rights
     DEF PlaceByLabel, RightByLabel, PlaceIs, PlaceAfter, InSource, AtBarrier, Behind, Entering

\* The call of a barrier: the work-item has come to one more.
LEMMA CallBarrierItem ==
  ASSUME TypeOK, NEW i \in Items, ItemIsRight(i), CallBarrier(i)
  PROVE  /\ TypeOK' /\ OnlyMoves(i) /\ KeepsCounts(i) /\ Arrived(i)' = prv[i].round
         /\ Position(i) = At(prv[i].round, prv[i].trip, "loop") /\ prv[i].trip = trips[i]
         /\ Position(i)' = At(prv[i].round, 0, "barrier") /\ prv[i].round \in 1 .. NumOfRound
<1>1. /\ pc[i] = "loop" /\ pc'[i] = "counted" /\ prv' = prv /\ prv[i].trip = trips[i]
      /\ pc' \in [Items -> Labels]
  BY DEF CallBarrier, Goto, TypeOK, Labels, Working
<1>2. TypeOK'
  <2>1. prv[i].round \in Int /\ SiteOf(prv[i].round) \in Sites /\ i[1] \in Groups
    BY ItemParts, Nonces DEF TypeOK
  <2>2. barrierStop' \in [Groups -> [Sites -> Int]]
    BY <2>1 DEF CallBarrier, TypeOK
  <2>3. mem' \in [Items -> Int]
    BY <2>1 DEF CallBarrier, TypeOK
  <2>4. QED
    BY <1>1, <2>2, <2>3 DEF CallBarrier, TypeOK, kernel, saved
<1>3. OnlyMoves(i)
  BY DEF CallBarrier, Goto, TypeOK, kernel, saved, OnlyMoves, Unmoved
<1>4. prv[i].round \in 1 .. NumOfRound /\ ItemIsRight(i)'
  BY <1>1, Rights DEF RightByLabel, AtBarrier
<1>5. /\ PlaceIs(i, prv[i].round - 1, prv[i].round - 1, At(prv[i].round, prv[i].trip, "loop"))
      /\ PlaceAfter(i, prv[i].round - 1, prv[i].round, At(prv[i].round, 0, "barrier"))
  BY <1>1, Places DEF PlaceByLabel, PlaceAfter, PlaceIs, AtBarrier
<1>6. QED
  BY <1>1, <1>2, <1>3, <1>4, <1>5 DEF PlaceIs, PlaceAfter, KeepsCounts

\* The look at the stop.
LEMMA LookItem ==
  ASSUME TypeOK, NEW i \in Items, ItemIsRight(i), Look(i)
  PROVE  TypeOK' /\ OnlyMoves(i) /\ KeepsPlace(i)
<1>1. /\ pc[i] = "look" /\ pc'[i] = "looked" /\ hdr' = hdr /\ savedPrv' = savedPrv /\ trips' = trips
      /\ pc' \in [Items -> Labels]
  BY DEF Look, Goto, TypeOK, Labels, Looking, kernel, saved
<1>2. prv' \in [Items -> Prv] /\ prv'[i].round = prv[i].round
  <2>1. prv[i].round \in Int /\ SiteOf(prv[i].round) \in Sites /\ i[1] \in Groups
    BY ItemParts, Nonces DEF TypeOK
  <2>2. barrierStop[i[1]][SiteOf(prv[i].round)] \in Int
    BY <2>1 DEF TypeOK
  <2>3. QED
    BY <2>2 DEF Look, TypeOK, Prv
<1>3. TypeOK'
  BY <1>1, <1>2 DEF Look, TypeOK, Prv, kernel, saved, shared
<1>4. OnlyMoves(i)
  BY DEF Look, Goto, TypeOK, kernel, saved, shared, OnlyMoves, Unmoved
<1>5. OneKind(pc[i], pc'[i])
  BY <1>1 DEF OneKind, AtBarrier
<1>6. QED
  BY <1>1, <1>2, <1>3, <1>4, <1>5, KindKeeps

\* Whoever does not pass the barrier stops at it.
LEMMA UncountItem ==
  ASSUME TypeOK, NEW i \in Items, ItemIsRight(i), Uncount(i)
  PROVE  TypeOK' /\ OnlyMoves(i) /\ KeepsPlace(i)
<1>1. /\ pc[i] = "uncount" /\ prv' = prv /\ trips' = trips
      /\ prv[i].round \in 1 .. NumOfRound
      /\ PlaceIs(i, prv[i].round - 1, prv[i].round, At(prv[i].round, 0, "barrier"))
  BY Places, Rights DEF Uncount, kernel, PlaceByLabel, RightByLabel, AtBarrier
<1>2. barrierStop' \in [Groups -> [Sites -> Int]]
  <2>1. prv[i].round \in Int /\ SiteOf(prv[i].round) \in Sites /\ i[1] \in Groups
    BY ItemParts, Nonces DEF TypeOK
  <2>2. QED
    BY <2>1 DEF Uncount, Uncounted, TypeOK
<1>3. CASE AllHere(i) /\ Goto(i, "original") /\ UNCHANGED saved
  <2>1. pc' \in [Items -> Labels] /\ pc'[i] = "original"
    BY <1>3 DEF Goto, TypeOK, Labels, Passing
  <2>2. TypeOK'
    BY <1>2, <1>3, <2>1 DEF Uncount, TypeOK, kernel, saved
  <2>3. OnlyMoves(i)
    BY <1>3 DEF Uncount, Goto, TypeOK, kernel, saved, OnlyMoves, Unmoved
  <2>4. OneKind(pc[i], pc'[i]) /\ hdr' = hdr /\ savedPrv' = savedPrv
    BY <1>1, <1>3, <2>1 DEF OneKind, AtBarrier, saved
  <2>5. QED
    BY <1>1, <2>2, <2>3, <2>4, KindKeeps
<1>4. CASE Checkpoint(i, -BarrierNonce(SiteOf(prv[i].round)), prv[i])
  <2>1. PICK e \in Int : /\ e = -BarrierNonce(SiteOf(prv[i].round)) /\ e # Fresh /\ e # LoopNonce
                         /\ \E n \in BarrierNonces : e = -n
    <3>1. /\ BarrierNonce(SiteOf(prv[i].round)) \in BarrierNonces
          /\ BarrierNonce(SiteOf(prv[i].round)) \in Int
      BY <1>1, Nonces
    <3>2. -BarrierNonce(SiteOf(prv[i].round)) < 0 /\ -BarrierNonce(SiteOf(prv[i].round)) \in Int
      BY <3>1, Nonces
    <3>3. QED
      BY <3>1, <3>2, Nonces
  <2>2. Checkpoint(i, e, prv[i]) /\ prv[i] \in Prv
    BY <1>4, <2>1 DEF TypeOK, Prv
  <2>3. TypeOK' /\ OnlyMoves(i)
    BY <1>1, <1>2, <2>2, CheckpointEffects DEF Uncount, TypeOK, kernel, OnlyMoves, Unmoved
  <2>4. pc'[i] = "exit" /\ hdr'[i] = e /\ savedPrv'[i].round = prv[i].round
    BY <2>2, CheckpointEffects
  <2>5. ItemIsRight(i)'
    <3>1. EntryIsRight(e, savedPrv'[i], trips'[i])
      BY <1>1, <2>1, <2>4 DEF EntryIsRight
    <3>2. QED
      BY <2>1, <2>4, <3>1, Stopped
  <2>6. PlaceAfter(i, prv[i].round - 1, prv[i].round, At(prv[i].round, 0, "barrier"))
    BY <2>1, <2>4, Stopped, EntryPlaces
  <2>7. QED
    BY <1>1, <2>3, <2>5, <2>6 DEF PlaceIs, PlaceAfter, KeepsPlace, KeepsCounts
<1>5. QED
  BY <1>3, <1>4 DEF Uncount

\* Behind the barrier.
LEMMA PassItem ==
  ASSUME TypeOK, NEW i \in Items, ItemIsRight(i), Pass(i)
  PROVE  /\ TypeOK' /\ OnlyMoves(i) /\ KeepsCounts(i) /\ Arrived(i)' = Arrived(i)
         /\ prv[i].round \in 1 .. NumOfRound /\ Freed(i) = prv[i].round
         /\ Position(i) = At(prv[i].round, 0, "barrier")
         /\ Position(i)' = At(prv[i].round, 0, "passed")
<1>1. /\ pc[i] = "passed" /\ pc'[i] = "body end" /\ prv' = prv /\ pc' \in [Items -> Labels]
  BY DEF Pass, Goto, TypeOK, Labels, Working
<1>2. TypeOK'
  BY <1>1 DEF Pass, TypeOK, kernel, saved, shared
<1>3. OnlyMoves(i)
  BY DEF Pass, Goto, TypeOK, kernel, saved, shared, OnlyMoves, Unmoved
<1>4. prv[i].round \in 1 .. NumOfRound /\ ItemIsRight(i)'
  BY <1>1, Rights DEF RightByLabel, Behind
<1>5. /\ PlaceIs(i, prv[i].round, prv[i].round, At(prv[i].round, 0, "barrier"))
      /\ PlaceAfter(i, prv[i].round, prv[i].round, At(prv[i].round, 0, "passed"))
  BY <1>1, Places DEF PlaceByLabel, PlaceAfter, PlaceIs
<1>6. QED
  BY <1>2, <1>3, <1>4, <1>5 DEF PlaceIs, PlaceAfter, KeepsCounts

\* The end of the loop's body.
LEMMA BodyEndItem ==
  ASSUME TypeOK, NEW i \in Items, ItemIsRight(i), BodyEnd(i)
  PROVE  TypeOK' /\ OnlyMoves(i) /\ KeepsPlace(i)
<1>1. /\ pc[i] = "body end" /\ prv' = prv /\ trips' = trips
      /\ prv[i].round \in 1 .. NumOfRound
      /\ PlaceIs(i, prv[i].round, prv[i].round, At(prv[i].round, 0, "passed"))
  BY Places, Rights DEF BodyEnd, kernel, PlaceByLabel, RightByLabel, Behind
<1>2. CASE Goto(i, "advance") /\ UNCHANGED saved
  <2>1. pc' \in [Items -> Labels] /\ pc'[i] = "advance"
    BY <1>2 DEF Goto, TypeOK, Labels, Working
  <2>2. TypeOK'
    BY <1>2, <2>1 DEF BodyEnd, TypeOK, kernel, saved, shared
  <2>3. OnlyMoves(i)
    BY <1>2 DEF BodyEnd, Goto, TypeOK, kernel, saved, shared, OnlyMoves, Unmoved
  <2>4. PlaceAfter(i, prv[i].round, prv[i].round, At(prv[i].round, 0, "passed")) /\ ItemIsRight(i)'
    BY <1>1, <2>1, Places, Rights DEF PlaceByLabel, PlaceAfter, PlaceIs, RightByLabel, Behind
  <2>5. QED
    BY <1>1, <2>2, <2>3, <2>4 DEF PlaceIs, PlaceAfter, KeepsPlace, KeepsCounts
<1>3. CASE Checkpoint(i, OuterNonce, prv[i])
  <2>1. OuterNonce \in Int /\ prv[i] \in Prv /\ OuterNonce # Fresh /\ OuterNonce # LoopNonce
    BY DEF TypeOK, Prv, OuterNonce, Fresh, LoopNonce
  <2>2. TypeOK' /\ OnlyMoves(i)
    BY <1>1, <1>3, <2>1, CheckpointEffects DEF BodyEnd, TypeOK, kernel, shared, OnlyMoves, Unmoved
  <2>3. pc'[i] = "exit" /\ hdr'[i] = OuterNonce /\ savedPrv'[i].round = prv[i].round
    BY <1>3, <2>1, CheckpointEffects
  <2>4. ItemIsRight(i)'
    <3>1. EntryIsRight(OuterNonce, savedPrv'[i], trips'[i])
      BY <1>1, <2>1, <2>3 DEF EntryIsRight
    <3>2. QED
      BY <2>1, <2>3, <3>1, Stopped
  <2>5. PlaceAfter(i, prv[i].round, prv[i].round, At(prv[i].round, 0, "passed"))
    BY <2>1, <2>3, Stopped, EntryPlaces
  <2>6. QED
    BY <1>1, <2>2, <2>4, <2>5 DEF PlaceIs, PlaceAfter, KeepsPlace, KeepsCounts
<1>4. QED
  BY <1>2, <1>3 DEF BodyEnd

\* A round is an integer like every variable.
LEMMA NewRound ==
  ASSUME NEW p \in Prv, NEW r \in Int, NEW t \in Int
  PROVE  [p EXCEPT !.round = r, !.trip = t] \in Prv
  BY DEF Prv

\* The next round, or the end of the kernel.
LEMMA AdvanceItem ==
  ASSUME TypeOK, NEW i \in Items, ItemIsRight(i), Advance(i)
  PROVE  /\ TypeOK' /\ OnlyMoves(i) /\ KeepsCounts(i) /\ Arrived(i)' = Arrived(i)
         /\ Position(i) = At(prv[i].round, 0, "passed") /\ prv[i].round \in 1 .. NumOfRound
         /\ Position(i)' = IF prv[i].round = NumOfRound THEN At(NumOfRound, 0, "end")
                           ELSE At(prv[i].round + 1, 0, "loop")
<1>1. /\ pc[i] = "advance" /\ trips' = trips /\ trips[i] \in Nat
      /\ prv[i].round \in 1 .. NumOfRound
      /\ PlaceIs(i, prv[i].round, prv[i].round, At(prv[i].round, 0, "passed"))
  BY Places, Rights DEF Advance, TypeOK, kernel, PlaceByLabel, RightByLabel, Behind
<1>2. CASE /\ prv[i].round < NumOfRound
           /\ prv' = [prv EXCEPT ![i].round = @ + 1, ![i].trip = 0]
           /\ Goto(i, "loop")
           /\ UNCHANGED hdr
  <2>1. /\ pc' \in [Items -> Labels] /\ pc'[i] = "loop"
        /\ \A j \in Items : j # i => pc'[j] = pc[j]
    BY <1>2 DEF Goto, TypeOK, Labels, Working
  <2>r. PICK r \in Int : r = prv[i].round + 1
    BY <1>1
  <2>2. /\ prv' \in [Items -> Prv] /\ prv'[i].round = r /\ prv'[i].trip = 0
        /\ \A j \in Items : j # i => prv'[j] = prv[j]
    <3>1. prv' = [prv EXCEPT ![i].round = r, ![i].trip = 0]
      BY <1>2, <2>r
    <3>2. prv' \in [Items -> Prv]
      <4>1. prv[i] \in Prv
        BY DEF TypeOK, Prv
      <4>2. [prv[i] EXCEPT !.round = r, !.trip = 0] \in Prv
        BY <2>r, <4>1, 0 \in Int, NewRound
      <4>3. prv' = [prv EXCEPT ![i] = [prv[i] EXCEPT !.round = r, !.trip = 0]]
        BY <3>1 DEF TypeOK
      <4>4. prv \in [Items -> Prv]
        BY DEF TypeOK, Prv
      <4>5. QED
        BY <4>2, <4>3, <4>4
    <3>3. prv'[i].round = r /\ prv'[i].trip = 0
      BY <2>r, <3>1 DEF TypeOK
    <3>4. \A j \in Items : j # i => prv'[j] = prv[j]
      BY <2>r, <3>1 DEF TypeOK
    <3>5. QED
      BY <3>2, <3>3, <3>4
  <2>3. TypeOK' /\ OnlyMoves(i)
    BY <1>2, <2>1, <2>2 DEF Advance, TypeOK, Prv, kernel, shared, OnlyMoves, Unmoved
  <2>4. ItemIsRight(i)'
    <3>1. prv'[i].round \in 1 .. NumOfRound /\ prv'[i].trip \in 0 .. trips'[i]
      BY <1>1, <1>2, <2>r, <2>2, ConstantsAssumption
    <3>2. QED
      BY <2>1, <3>1, Rights DEF RightByLabel
  <2>5. PlaceAfter(i, r - 1, r - 1, At(r, 0, "loop"))
    BY <2>1, <2>2, Places DEF PlaceByLabel, PlaceAfter, PlaceIs
  <2>6. r - 1 = prv[i].round /\ prv[i].round # NumOfRound
    BY <1>1, <1>2, <2>r, ConstantsAssumption
  <2>7. QED
    BY <1>1, <2>r, <2>3, <2>4, <2>5, <2>6 DEF PlaceIs, PlaceAfter, KeepsCounts
<1>3. CASE /\ prv[i].round = NumOfRound
           /\ hdr' = [hdr EXCEPT ![i] = Finished]
           /\ Goto(i, "exit")
           /\ UNCHANGED prv
  <2>1. /\ pc' \in [Items -> Labels] /\ pc'[i] = "exit"
        /\ \A j \in Items : j # i => pc'[j] = pc[j]
    BY <1>3 DEF Goto, TypeOK, Labels, Working
  <2>2. /\ hdr' \in [Items -> Int] /\ hdr'[i] = Finished
        /\ \A j \in Items : j # i => hdr'[j] = hdr[j]
    BY <1>3 DEF TypeOK, Finished
  <2>3. TypeOK' /\ OnlyMoves(i)
    BY <1>3, <2>1, <2>2 DEF Advance, TypeOK, kernel, shared, OnlyMoves, Unmoved
  <2>4. ItemIsRight(i)'
    <3>1. EntryIsRight(Finished, savedPrv'[i], trips'[i])
      BY Nonces DEF EntryIsRight
    <3>2. QED
      BY <2>1, <2>2, <3>1, Stopped, Nonces
  <2>5. PlaceAfter(i, NumOfRound, NumOfRound, At(NumOfRound, 0, "end"))
    BY <2>1, <2>2, Stopped, EntryPlaces, Nonces
  <2>6. QED
    BY <1>1, <1>3, <2>3, <2>4, <2>5 DEF PlaceIs, PlaceAfter, KeepsCounts
<1>4. QED
  BY <1>2, <1>3 DEF Advance

\* On the way out a work-item stays where it stopped.
LEMMA ExitItem ==
  ASSUME TypeOK, NEW i \in Items, ItemIsRight(i), Exit(i)
  PROVE  TypeOK' /\ OnlyMoves(i) /\ KeepsPlace(i)
<1>1. /\ pc[i] = "exit" /\ pc'[i] \in {"batched", "left"} /\ pc' \in [Items -> Labels]
      /\ hdr' = hdr /\ savedPrv' = savedPrv /\ trips' = trips
      /\ \A j \in Items : j # i => pc'[j] = pc[j]
  BY DEF Exit, Goto, TypeOK, Labels, Working, kernel, saved
<1>2. /\ prv' \in [Items -> Prv] /\ prv'[i].round = prv[i].round
      /\ \A j \in Items : j # i => prv'[j] = prv[j]
  <2>1. finalStop[i[1]] \in Int
    BY ItemParts DEF TypeOK
  <2>2. CASE usesLocal
    <3>1. PICK b \in Int : b = finalStop[i[1]]
      BY <2>1
    <3>2. prv' = [prv EXCEPT ![i].batch = b]
      BY <2>2, <3>1 DEF Exit
    <3>3. QED
      BY <3>2 DEF TypeOK, Prv
  <2>3. CASE ~usesLocal
    BY <2>3 DEF Exit, TypeOK, Prv
  <2>4. QED
    BY <2>2, <2>3
<1>3. TypeOK' /\ OnlyMoves(i)
  BY <1>1, <1>2 DEF Exit, TypeOK, Prv, kernel, saved, shared, OnlyMoves, Unmoved
<1>4. OneKind(pc[i], pc'[i])
  BY <1>1 DEF OneKind, Out
<1>5. QED
  BY <1>1, <1>2, <1>3, <1>4, KindKeeps

\* So it does while it takes its number ...
LEMMA NumberItem ==
  ASSUME TypeOK, NEW i \in Items, ItemIsRight(i), Number(i)
  PROVE  TypeOK' /\ OnlyMoves(i) /\ KeepsPlace(i)
<1>1. /\ pc[i] = "number" /\ pc'[i] = "numbered" /\ pc' \in [Items -> Labels]
      /\ hdr' = hdr /\ savedPrv' = savedPrv /\ trips' = trips
      /\ \A j \in Items : j # i => pc'[j] = pc[j]
  BY DEF Number, Goto, TypeOK, Labels, Looking, kernel, saved
<1>2. finalStop[i[1]] \in Int /\ i[1] \in Groups
  BY ItemParts DEF TypeOK
<1>3. /\ prv' \in [Items -> Prv] /\ prv'[i].round = prv[i].round
      /\ \A j \in Items : j # i => prv'[j] = prv[j]
  <2>1. PICK e \in Int : e = finalStop[i[1]] - 1
    BY <1>2
  <2>2. prv' = [prv EXCEPT ![i].exitId = e]
    BY <2>1 DEF Number
  <2>3. QED
    BY <2>2 DEF TypeOK, Prv
<1>4. finalStop' \in [Groups -> Int]
  BY <1>2 DEF Number, TypeOK
<1>5. TypeOK' /\ OnlyMoves(i)
  BY <1>1, <1>3, <1>4 DEF Number, TypeOK, Prv, kernel, saved, OnlyMoves, Unmoved
<1>6. OneKind(pc[i], pc'[i])
  BY <1>1 DEF OneKind, Out
<1>7. QED
  BY <1>1, <1>3, <1>5, <1>6, KindKeeps

\* ... and while it saves its share of the words.
LEMMA StoreItem ==
  ASSUME TypeOK, NEW i \in Items, ItemIsRight(i), Store(i)
  PROVE  TypeOK' /\ OnlyMoves(i) /\ KeepsPlace(i)
<1>1. /\ pc[i] = "store" /\ pc'[i] = "left" /\ pc' \in [Items -> Labels]
      /\ hdr' = hdr /\ savedPrv' = savedPrv /\ trips' = trips /\ prv' = prv
      /\ \A j \in Items : j # i => pc'[j] = pc[j]
  BY DEF Store, Goto, TypeOK, Labels, Leaving, kernel
<1>2. savedLocal' \in [Items -> Int]
  BY DEF Store, TypeOK
<1>3. TypeOK' /\ OnlyMoves(i)
  BY <1>1, <1>2 DEF Store, TypeOK, kernel, shared, OnlyMoves, Unmoved
<1>4. OneKind(pc[i], pc'[i])
  BY <1>1 DEF OneKind, Out
<1>5. QED
  BY <1>1, <1>3, <1>4, KindKeeps

\* A step of a work-item changes the place of no other and lets it through no barrier.
LEMMA ItemStepKeeps ==
  ASSUME TypeOK, \A j \in Items : ItemIsRight(j), NEW i \in Items, ItemStep(i)
  PROVE  /\ TypeOK' /\ OnlyMoves(i)
         /\ \A j \in Items : ItemIsRight(j)' /\ Freed(j)' = Freed(j)
         /\ \A j \in Items : j # i => Arrived(j)' = Arrived(j)
         /\ ~CallBarrier(i) => Arrived(i)' = Arrived(i)
<1>0. ItemIsRight(i)
  OBVIOUS
<1>1. TypeOK' /\ OnlyMoves(i) /\ KeepsCounts(i) /\ (~CallBarrier(i) => Arrived(i)' = Arrived(i))
  BY <1>0, EnterItem, DispatchItem, LoopItem, CallBarrierItem, LookItem, UncountItem, PassItem,
     BodyEndItem, AdvanceItem, ExitItem, NumberItem, StoreItem DEF ItemStep, KeepsPlace
<1>2. ASSUME NEW j \in Items, j # i
      PROVE  ItemIsRight(j)' /\ Freed(j)' = Freed(j) /\ Arrived(j)' = Arrived(j)
  <2>1. Unmoved(j)
    BY <1>1, <1>2 DEF OnlyMoves
  <2>2. QED
    BY <2>1, UnmovedStays
<1>3. QED
  BY <1>1, <1>2 DEF KeepsCounts

\* From which label to which a step leads.
LabelStep(a, b) ==
  \/ a = "entry" /\ b = "init"
  \/ a = "switch" /\ b \in {"loop", "advance", "passed", "exit"}
  \/ a = "loop" /\ b \in {"loop", "counted", "exit"}
  \/ a = "look" /\ b = "looked"
  \/ a = "uncount" /\ b \in {"original", "exit"}
  \/ a = "passed" /\ b = "body end"
  \/ a = "body end" /\ b \in {"advance", "exit"}
  \/ a = "advance" /\ b \in {"loop", "exit"}
  \/ a = "exit" /\ b \in {"batched", "left"}
  \/ a = "number" /\ b = "numbered"
  \/ a = "store" /\ b = "left"

\* The steps take the labels in this order.
LEMMA ItemStepLabels ==
  ASSUME TypeOK, NEW i \in Items, ItemStep(i)
  PROVE  LabelStep(pc[i], pc'[i])
<1>1. CASE Enter(i)
  BY <1>1 DEF Enter, Goto, TypeOK, LabelStep
<1>2. CASE Dispatch(i)
  BY <1>2 DEF Dispatch, Goto, TypeOK, LabelStep
<1>3. CASE Loop(i)
  BY <1>3 DEF Loop, Checkpoint, Goto, TypeOK, LabelStep
<1>4. CASE CallBarrier(i)
  BY <1>4 DEF CallBarrier, Goto, TypeOK, LabelStep
<1>5. CASE Look(i)
  BY <1>5 DEF Look, Goto, TypeOK, LabelStep
<1>6. CASE Uncount(i)
  BY <1>6 DEF Uncount, Checkpoint, Goto, TypeOK, LabelStep
<1>7. CASE Pass(i)
  BY <1>7 DEF Pass, Goto, TypeOK, LabelStep
<1>8. CASE BodyEnd(i)
  BY <1>8 DEF BodyEnd, Checkpoint, Goto, TypeOK, LabelStep
<1>9. CASE Advance(i)
  BY <1>9 DEF Advance, Goto, TypeOK, LabelStep
<1>10. CASE Exit(i)
  BY <1>10 DEF Exit, Goto, TypeOK, LabelStep
<1>11. CASE Number(i)
  BY <1>11 DEF Number, Goto, TypeOK, LabelStep
<1>12. CASE Store(i)
  BY <1>12 DEF Store, Goto, TypeOK, LabelStep
<1>13. QED
  BY <1>1, <1>2, <1>3, <1>4, <1>5, <1>6, <1>7, <1>8, <1>9, <1>10, <1>11, <1>12 DEF ItemStep

\* A group that a step leaves alone.
GroupStays(g) ==
  /\ usesLocal' = usesLocal
  /\ barrierStop'[g] = barrierStop[g] /\ finalStop'[g] = finalStop[g]
  /\ \A j \in Group(g) : Unmoved(j) /\ mem'[j] = mem[j] /\ savedLocal'[j] = savedLocal[j]

\* What holds of a group that a step leaves alone holds after it.
LEMMA GroupStaysRight ==
  ASSUME NEW g \in Groups, GroupStays(g)
  PROVE  (Barriers(g) => Barriers(g)') /\ (Locals(g) => Locals(g)')
<1>1. \A j \in Group(g) : /\ pc'[j] = pc[j] /\ prv'[j] = prv[j] /\ hdr'[j] = hdr[j]
                          /\ Freed(j)' = Freed(j) /\ Arrived(j)' = Arrived(j)
                          /\ mem'[j] = mem[j] /\ savedLocal'[j] = savedLocal[j]
  BY UnmovedStays DEF GroupStays, Unmoved
<1>2. \A l \in LocalIds : pc'[<<g, l>>] = pc[<<g, l>>] /\ prv'[<<g, l>>] = prv[<<g, l>>]
  BY <1>1, ItemParts
<1>3. \A labels : AllIn(g, labels)' = AllIn(g, labels)
  BY <1>1 DEF AllIn
<1>4. Barriers(g) => InStep(g)' /\ FreedTogether(g)'
  BY <1>1, <1>3 DEF Barriers, InStep, FreedTogether, AllIn
<1>5. \A s \in Sites : CountedAt(g, s)' = CountedAt(g, s)
  BY <1>2 DEF CountedAt
<1>6. \A s \in Sites : s % GroupSize \in LocalIds
  BY ConstantsAssumption DEF Sites, LocalIds
<1>7. Barriers(g) => StopsCount(g)'
  BY <1>2, <1>5, <1>6 DEF GroupStays, Barriers, StopsCount
<1>8. Barriers(g) => LooksAreRight(g)'
  BY <1>1, <1>3 DEF Barriers, LooksAreRight, AllIn
<1>9. OutOf(g)' = OutOf(g) /\ 0 \in LocalIds
  BY <1>2, ConstantsAssumption DEF OutOf, LocalIds
<1>10. Locals(g) => FinalStopCounts(g)'
  BY <1>2, <1>9 DEF GroupStays, Locals, FinalStopCounts
<1>11. Locals(g) => BatchesAreRight(g)'
  BY <1>1 DEF GroupStays, Locals, BatchesAreRight
<1>12. \A i \in Group(g) : Share(i)' = Share(i)
  BY <1>1 DEF Share
<1>13. Locals(g) => StoresAreRight(g)'
  BY <1>1, <1>12 DEF GroupStays, Locals, StoresAreRight, AllIn
<1>14. \A j \in Group(g) : Word(j)' = Word(j)
  BY <1>1 DEF Word
<1>15. Locals(g) => WordsAreRight(g)'
  BY <1>1, <1>14 DEF GroupStays, Locals, WordsAreRight, AllIn
<1>16. QED
  BY <1>4, <1>7, <1>8, <1>10, <1>11, <1>13, <1>15 DEF Barriers, Locals

\* A work-item touches its own group's stops and words.
LEMMA ItemStepElsewhere ==
  ASSUME TypeOK, NEW i \in Items, ItemStep(i), NEW g \in Groups, g # i[1], OnlyMoves(i)
  PROVE  GroupStays(g)
<1>1. \A j \in Group(g) : j \in Items /\ j # i /\ j \notin GroupOf(i) /\ Unmoved(j)
  <2>1. \A j \in Group(g) : j \in Items /\ j[1] # i[1]
    BY ItemParts
  <2>2. \A j \in Group(i[1]) : j[1] = i[1]
    BY ItemParts
  <2>3. QED
    BY <2>1, <2>2, ItemParts DEF OnlyMoves
<1>2. barrierStop'[g] = barrierStop[g] /\ finalStop'[g] = finalStop[g]
  <2>1. CASE Enter(i)
    BY <2>1 DEF Enter, InitBarrierStop, InitFinalStop, TypeOK
  <2>2. CASE CallBarrier(i)
    BY <2>2 DEF CallBarrier, TypeOK
  <2>3. CASE Uncount(i)
    BY <2>3 DEF Uncount, Uncounted, TypeOK
  <2>4. CASE Number(i)
    BY <2>4 DEF Number, TypeOK
  <2>5. CASE Dispatch(i) \/ Loop(i) \/ Look(i) \/ Pass(i) \/ BodyEnd(i) \/ Advance(i) \/ Exit(i) \/ Store(i)
    BY <2>5 DEF Dispatch, Loop, Look, Pass, BodyEnd, Advance, Exit, Store, shared
  <2>6. QED
    BY <2>1, <2>2, <2>3, <2>4, <2>5 DEF ItemStep
<1>3. \A j \in Group(g) : mem'[j] = mem[j]
  <2>1. CASE Enter(i)
    BY <1>1, <2>1 DEF Enter, TypeOK
  <2>2. CASE CallBarrier(i)
    BY <1>1, <2>2 DEF CallBarrier, TypeOK
  <2>3. CASE ~Enter(i) /\ ~CallBarrier(i)
    BY <2>3 DEF ItemStep, Dispatch, Loop, Look, Uncount, Pass, BodyEnd, Advance, Exit, Number, Store, shared
  <2>4. QED
    BY <2>1, <2>2, <2>3
<1>4. \A j \in Group(g) : savedLocal'[j] = savedLocal[j]
  <2>1. CASE Store(i)
    BY <1>1, <2>1 DEF Store, Share, TypeOK
  <2>2. CASE ~Store(i)
    BY <2>2 DEF ItemStep, Enter, Dispatch, Loop, CallBarrier, Look, Uncount, Pass, BodyEnd, Advance, Exit,
                Number, Checkpoint, saved
  <2>3. QED
    BY <2>1, <2>2
<1>5. QED
  BY <1>1, <1>2, <1>3, <1>4 DEF GroupStays, OnlyMoves

-----------------------------------------------------------------------------
(* The barriers of a group.                                                 *)

\* Who stands where, from where one of the group does.
LEMMA StepCases ==
  ASSUME NEW g \in Groups, InStep(g), NEW i \in Group(g)
  PROVE  /\ pc[i] \in Entering => AllIn(g, Entering)
         /\ pc[i] \in {"switch", "loop", "counted", "passed", "body end", "advance"} => AllIn(g, Working)
         /\ pc[i] \in {"look", "looked", "number", "numbered"} => AllIn(g, Looking)
         /\ pc[i] = "store" => AllIn(g, Leaving)
         /\ pc[i] = "uncount" => AllIn(g, Leaving) \/ AllIn(g, Passing)
         /\ pc[i] = "original" => AllIn(g, Passing)
         /\ pc[i] \in {"exit", "batched"} => AllIn(g, Working) \/ AllIn(g, Leaving)
         /\ pc[i] = "left" => AllIn(g, Working) \/ AllIn(g, Looking) \/ AllIn(g, Leaving)
  BY DEF InStep, AllIn, Entering, Working, Looking, Leaving, Passing

\* A step keeps a group together.  Whoever finds all at the barrier is one of a
\* group that passes it, and whoever does not is none.
LEMMA ItemStepInStep ==
  ASSUME TypeOK, NEW i \in Items, ItemStep(i), OnlyMoves(i), Barriers(i[1])
  PROVE  InStep(i[1])'
<1>0. /\ InStep(i[1]) /\ i[1] \in Groups /\ i \in Group(i[1])
      /\ \A j \in Group(i[1]) : j # i => pc'[j] = pc[j]
  BY ItemParts DEF Barriers, OnlyMoves, Unmoved
<1>1. LabelStep(pc[i], pc'[i])
  BY ItemStepLabels
<1>2. CASE pc[i] # "uncount"
  BY <1>0, <1>1, <1>2 DEF LabelStep, InStep, AllIn, Entering, Working, Looking, Leaving, Passing
<1>3. CASE pc[i] = "uncount"
  <2>1. Uncount(i)
    BY <1>3 DEF ItemStep, Enter, Dispatch, Loop, CallBarrier, Look, Pass, BodyEnd, Advance, Exit, Number, Store
  <2>2. AllHere(i) <=> AllIn(i[1], AtStop)
    BY <1>0, <1>3 DEF Barriers, LooksAreRight, AllHere, Looked, AtStop
  <2>3. CASE AllHere(i) /\ pc'[i] = "original"
    <3>1. AllIn(i[1], Passing)
      BY <1>0, <1>3, <2>2, <2>3, StepCases DEF AllIn, AtStop, Looked, Leaving, Passing
    <3>2. AllIn(i[1], Passing)'
      BY <1>0, <2>3, <3>1 DEF AllIn, Passing
    <3>3. QED
      BY <3>2 DEF InStep
  <2>4. CASE ~AllHere(i) /\ pc'[i] = "exit"
    <3>1. AllIn(i[1], Leaving)
      BY <1>0, <1>3, <2>2, <2>4, StepCases DEF AllIn, AtStop, Looked, Passing
    <3>2. AllIn(i[1], Leaving)'
      BY <1>0, <2>4, <3>1 DEF AllIn, Leaving
    <3>3. QED
      BY <3>2 DEF InStep
  <2>5. QED
    BY <2>1, <2>3, <2>4 DEF Uncount, Checkpoint, Goto, TypeOK
<1>4. QED
  BY <1>2, <1>3

\* How the sets of local ids count.
LEMMA LocalCount ==
  /\ \A S \in SUBSET LocalIds :
       /\ Cardinality(S) \in 0 .. GroupSize
       /\ Cardinality(S) = GroupSize <=> S = LocalIds
       /\ \A l \in LocalIds : l \notin S => Cardinality(S \cup {l}) = Cardinality(S) + 1
       /\ \A l \in S : Cardinality(S \ {l}) = Cardinality(S) - 1
  /\ Cardinality({}) = 0
<1>1. IsFiniteSet(LocalIds) /\ Cardinality(LocalIds) = GroupSize
  <2>1. 0 \in Int /\ GroupSize - 1 \in Int /\ GroupSize \in Nat /\ GroupSize > 0
    BY ConstantsAssumption
  <2>2. /\ IsFiniteSet(0 .. GroupSize - 1)
        /\ Cardinality(0 .. GroupSize - 1) = IF 0 > GroupSize - 1 THEN 0 ELSE (GroupSize - 1) - 0 + 1
    BY <2>1, FS_Interval
  <2>3. QED
    BY <2>1, <2>2 DEF LocalIds
<1>2. ASSUME NEW S \in SUBSET LocalIds
      PROVE  /\ Cardinality(S) \in 0 .. GroupSize
             /\ Cardinality(S) = GroupSize <=> S = LocalIds
             /\ \A l \in LocalIds : l \notin S => Cardinality(S \cup {l}) = Cardinality(S) + 1
             /\ \A l \in S : Cardinality(S \ {l}) = Cardinality(S) - 1
  <2>1. /\ IsFiniteSet(S) /\ Cardinality(S) <= Cardinality(LocalIds)
        /\ Cardinality(LocalIds) = Cardinality(S) => S = LocalIds
    BY <1>1, <1>2, FS_Subset
  <2>2. Cardinality(S) \in Nat
    BY <2>1, FS_CardinalityType
  <2>3. \A l \in LocalIds : l \notin S => Cardinality(S \cup {l}) = Cardinality(S) + 1
    BY <2>1, FS_AddElement
  <2>4. \A l \in S : Cardinality(S \ {l}) = Cardinality(S) - 1
    BY <2>1, FS_RemoveElement
  <2>5. QED
    BY <1>1, <2>1, <2>2, <2>3, <2>4, ConstantsAssumption
<1>3. QED
  BY <1>2, FS_EmptySet

\* Work-items of one group that are at a barrier are at the same one.
LEMMA SameRound ==
  ASSUME TypeOK, NEW g \in Groups, FreedTogether(g), NEW i \in Group(g), NEW j \in Group(g),
         pc[i] \in AtBarrier, pc[j] \in AtBarrier
  PROVE  prv[i].round = prv[j].round
<1>1. prv[i].round \in Int /\ prv[j].round \in Int
  BY ItemParts DEF TypeOK
<1>2. Freed(i) = prv[i].round - 1 /\ Freed(j) = prv[j].round - 1
  BY Places DEF PlaceByLabel, PlaceIs
<1>3. Freed(i) = Freed(j)
  BY DEF FreedTogether
<1>4. QED
  BY <1>1, <1>2, <1>3

\* The count of a stop that a step does not concern.
KeepsCounted(j) ==
  /\ pc'[j] \in Counted <=> pc[j] \in Counted
  /\ pc[j] \in Counted => prv'[j].round = prv[j].round

\* Such a step leaves the sets of the counted as they are.
LEMMA CountedStay ==
  ASSUME NEW g \in Groups, \A j \in Group(g) : KeepsCounted(j), NEW s \in Sites
  PROVE  CountedAt(g, s)' = CountedAt(g, s)
<1>1. \A l \in LocalIds : KeepsCounted(<<g, l>>)
  BY ItemParts
<1>2. QED
  BY <1>1 DEF CountedAt, KeepsCounted

\* Sites and who sets their stops.
LEMMA SiteOwners == \A s \in Sites, g \in Groups : s % GroupSize \in LocalIds /\ <<g, s % GroupSize>> \in Group(g)
<1>1. \A s \in Sites : s % GroupSize \in LocalIds
  BY ConstantsAssumption DEF Sites, LocalIds
<1>2. QED
  BY <1>1, ItemParts

\* The prologue sets a stop before anybody counts on it.
LEMMA EnterStops ==
  ASSUME TypeOK, NEW i \in Items, Enter(i), Barriers(i[1])
  PROVE  StopsCount(i[1])'
<1>g. i[1] \in Groups /\ i \in Group(i[1]) /\ i = <<i[1], LocalId(i)>>
  BY ItemParts DEF LocalId
<1>1. pc[i] = "entry" /\ AllIn(i[1], Entering) /\ StopsCount(i[1])
  BY <1>g, StepCases DEF Enter, Barriers, Entering
<1>2. \A j \in Group(i[1]) : /\ pc[j] \notin Counted /\ pc'[j] \notin Counted
                             /\ (j # i => pc'[j] = pc[j])
  BY <1>g, <1>1, ItemParts DEF AllIn, Entering, Counted, Enter, Goto, TypeOK
<1>3. ASSUME NEW s \in Sites, pc'[<<i[1], s % GroupSize>>] # "entry"
      PROVE  barrierStop'[i[1]][s] = GroupSize - Cardinality(CountedAt(i[1], s)')
  <2>1. CountedAt(i[1], s)' = {} /\ CountedAt(i[1], s) = {}
    BY <1>g, <1>2, ItemParts DEF CountedAt
  <2>2. CASE s % GroupSize = LocalId(i)
    <3>1. barrierStop'[i[1]][s] = GroupSize
      BY <1>g, <2>2 DEF Enter, InitBarrierStop, TypeOK
    <3>2. QED
      BY <2>1, <3>1, LocalCount, ConstantsAssumption
  <2>3. CASE s % GroupSize # LocalId(i)
    <3>1. barrierStop'[i[1]][s] = barrierStop[i[1]][s]
      BY <1>g, <2>3 DEF Enter, InitBarrierStop, TypeOK
    <3>2. pc[<<i[1], s % GroupSize>>] # "entry"
      <4>1. <<i[1], s % GroupSize>> # i
        BY <1>g, <2>3 DEF LocalId
      <4>2. QED
        BY <1>g, <1>2, <1>3, <4>1, SiteOwners
    <3>3. QED
      BY <1>1, <2>1, <3>1, <3>2 DEF StopsCount
  <2>4. QED
    BY <2>2, <2>3
<1>4. QED
  BY <1>3 DEF StopsCount

\* A call of the barrier counts down its stop, and no other one.
LEMMA CallBarrierStops ==
  ASSUME TypeOK, NEW i \in Items, CallBarrier(i), OnlyMoves(i), Barriers(i[1])
  PROVE  StopsCount(i[1])'
<1>g. i[1] \in Groups /\ i \in Group(i[1]) /\ i = <<i[1], i[2]>> /\ i[2] \in LocalIds
  BY ItemParts
<1>s. PICK r \in Sites : r = SiteOf(prv[i].round)
  <2>1. prv[i].round \in Int
    BY DEF TypeOK
  <2>2. QED
    BY <2>1, Nonces
<1>1. /\ pc[i] = "loop" /\ pc'[i] = "counted" /\ prv'[i] = prv[i]
      /\ \A j \in Group(i[1]) : j # i => pc'[j] = pc[j] /\ prv'[j] = prv[j]
  BY <1>g, ItemParts DEF CallBarrier, Goto, TypeOK, OnlyMoves, Unmoved
<1>2. barrierStop' = [barrierStop EXCEPT ![i[1]][r] = @ - 1]
  BY <1>s DEF CallBarrier
<1>3. ASSUME NEW s \in Sites, pc'[<<i[1], s % GroupSize>>] # "entry"
      PROVE  barrierStop'[i[1]][s] = GroupSize - Cardinality(CountedAt(i[1], s)')
  <2>1. barrierStop[i[1]][s] = GroupSize - Cardinality(CountedAt(i[1], s))
    <3>1. pc[<<i[1], s % GroupSize>>] # "entry"
      BY <1>g, <1>1, <1>3, SiteOwners
    <3>2. QED
      BY <1>3, <3>1 DEF Barriers, StopsCount
  <2>2. CountedAt(i[1], s) \in SUBSET LocalIds
    BY DEF CountedAt
  <2>3. CASE s = r
    <3>1. CountedAt(i[1], s)' = CountedAt(i[1], s) \cup {i[2]}
      BY <1>g, <1>s, <1>1, <2>3, ItemParts DEF CountedAt, Counted
    <3>2. i[2] \notin CountedAt(i[1], s)
      BY <1>g, <1>1 DEF CountedAt, Counted
    <3>3. Cardinality(CountedAt(i[1], s)') = Cardinality(CountedAt(i[1], s)) + 1
      BY <1>g, <2>2, <3>1, <3>2, LocalCount
    <3>4. barrierStop'[i[1]][s] = barrierStop[i[1]][s] - 1
      BY <1>g, <1>2, <2>3 DEF TypeOK
    <3>5. Cardinality(CountedAt(i[1], s)) \in Int /\ GroupSize \in Int
      BY <2>2, LocalCount, ConstantsAssumption
    <3>6. QED
      BY <2>1, <3>3, <3>4, <3>5
  <2>4. CASE s # r
    <3>1. CountedAt(i[1], s)' = CountedAt(i[1], s)
      BY <1>g, <1>s, <1>1, <2>4, ItemParts DEF CountedAt, Counted
    <3>2. barrierStop'[i[1]][s] = barrierStop[i[1]][s]
      BY <1>g, <1>2, <2>4 DEF TypeOK
    <3>3. QED
      BY <2>1, <3>1, <3>2
  <2>5. QED
    BY <2>3, <2>4
<1>4. QED
  BY <1>3 DEF StopsCount

\* Who puts the stop back is not counted any more.
LEMMA UncountStops ==
  ASSUME TypeOK, NEW i \in Items, Uncount(i), OnlyMoves(i), Barriers(i[1])
  PROVE  StopsCount(i[1])'
<1>g. i[1] \in Groups /\ i \in Group(i[1]) /\ i = <<i[1], i[2]>> /\ i[2] \in LocalIds
  BY ItemParts
<1>s. PICK r \in Sites : r = SiteOf(prv[i].round)
  <2>1. prv[i].round \in Int
    BY DEF TypeOK
  <2>2. QED
    BY <2>1, Nonces
<1>1. /\ pc[i] = "uncount" /\ pc'[i] \in {"original", "exit"} /\ prv'[i] = prv[i]
      /\ \A j \in Group(i[1]) : j # i => pc'[j] = pc[j] /\ prv'[j] = prv[j]
  BY <1>g, ItemParts DEF Uncount, Checkpoint, Goto, TypeOK, OnlyMoves, Unmoved
<1>2. barrierStop' = [barrierStop EXCEPT ![i[1]][r] = @ + 1]
  BY <1>s DEF Uncount, Uncounted
<1>3. ASSUME NEW s \in Sites, pc'[<<i[1], s % GroupSize>>] # "entry"
      PROVE  barrierStop'[i[1]][s] = GroupSize - Cardinality(CountedAt(i[1], s)')
  <2>1. barrierStop[i[1]][s] = GroupSize - Cardinality(CountedAt(i[1], s))
    <3>1. pc[<<i[1], s % GroupSize>>] # "entry"
      BY <1>g, <1>1, <1>3, SiteOwners
    <3>2. QED
      BY <1>3, <3>1 DEF Barriers, StopsCount
  <2>2. CountedAt(i[1], s) \in SUBSET LocalIds
    BY DEF CountedAt
  <2>3. CASE s = r
    <3>1. CountedAt(i[1], s)' = CountedAt(i[1], s) \ {i[2]}
      BY <1>g, <1>s, <1>1, <2>3, ItemParts DEF CountedAt, Counted
    <3>2. i[2] \in CountedAt(i[1], s)
      BY <1>g, <1>s, <1>1, <2>3 DEF CountedAt, Counted
    <3>3. Cardinality(CountedAt(i[1], s)') = Cardinality(CountedAt(i[1], s)) - 1
      BY <1>g, <2>2, <3>1, <3>2, LocalCount
    <3>4. barrierStop'[i[1]][s] = barrierStop[i[1]][s] + 1
      BY <1>g, <1>2, <2>3 DEF TypeOK
    <3>5. Cardinality(CountedAt(i[1], s)) \in Int /\ GroupSize \in Int
      BY <2>2, LocalCount, ConstantsAssumption
    <3>6. QED
      BY <2>1, <3>3, <3>4, <3>5
  <2>4. CASE s # r
    <3>1. CountedAt(i[1], s)' = CountedAt(i[1], s)
      BY <1>g, <1>s, <1>1, <2>4, ItemParts DEF CountedAt, Counted
    <3>2. barrierStop'[i[1]][s] = barrierStop[i[1]][s]
      BY <1>g, <1>2, <2>4 DEF TypeOK
    <3>3. QED
      BY <2>1, <3>1, <3>2
  <2>5. QED
    BY <2>3, <2>4
<1>4. QED
  BY <1>3 DEF StopsCount

\* The other steps count nobody.
LEMMA ItemStepStops ==
  ASSUME TypeOK, NEW i \in Items, ItemStep(i), OnlyMoves(i), Barriers(i[1])
  PROVE  StopsCount(i[1])'
<1>g. i[1] \in Groups /\ i \in Group(i[1])
  BY ItemParts
<1>1. CASE Enter(i) \/ CallBarrier(i) \/ Uncount(i)
  BY <1>1, EnterStops, CallBarrierStops, UncountStops
<1>2. CASE ~Enter(i) /\ ~CallBarrier(i) /\ ~Uncount(i)
  <2>1. barrierStop' = barrierStop
    BY <1>2 DEF ItemStep, Dispatch, Loop, Look, Pass, BodyEnd, Advance, Exit, Number, Store, shared
  <2>2. KeepsCounted(i) /\ pc[i] # "entry"
    <3>1. CASE Look(i)
      <4>1. pc[i] = "look" /\ pc'[i] = "looked" /\ prv'[i].round = prv[i].round
        BY <3>1 DEF Look, Goto, TypeOK
      <4>2. QED
        BY <4>1 DEF KeepsCounted, Counted
    <3>2. CASE ~Look(i)
      <4>1. pc[i] \notin Counted \cup {"entry"}
        BY <1>2, <3>2 DEF ItemStep, Dispatch, Loop, Pass, BodyEnd, Advance, Exit, Number, Store, Counted
      <4>2. pc'[i] \notin Counted
        BY <1>2, <3>2 DEF ItemStep, Dispatch, Loop, Pass, BodyEnd, Advance, Exit, Number, Store, Counted,
                          Checkpoint, Goto, TypeOK
      <4>3. QED
        BY <4>1, <4>2 DEF KeepsCounted
    <3>3. QED
      BY <3>1, <3>2
  <2>3. \A j \in Group(i[1]) : j # i => KeepsCounted(j) /\ pc'[j] = pc[j]
    BY <1>g, ItemParts DEF OnlyMoves, Unmoved, KeepsCounted
  <2>4. \A s \in Sites : CountedAt(i[1], s)' = CountedAt(i[1], s)
    BY <1>g, <2>2, <2>3, CountedStay
  <2>5. \A s \in Sites : pc'[<<i[1], s % GroupSize>>] # "entry" => pc[<<i[1], s % GroupSize>>] # "entry"
    BY <1>g, <2>2, <2>3, SiteOwners
  <2>6. QED
    BY <2>1, <2>4, <2>5 DEF Barriers, StopsCount
<1>3. QED
  BY <1>1, <1>2

\* The stop is down to zero when the whole group is at the barrier.
LEMMA StopTells ==
  ASSUME TypeOK, NEW g \in Groups, FreedTogether(g), StopsCount(g), AllIn(g, Looking),
         NEW i \in Group(g), pc[i] = "look"
  PROVE  barrierStop[g][SiteOf(prv[i].round)] = 0 <=> AllIn(g, AtStop)
<1>s. PICK r \in Sites : r = SiteOf(prv[i].round)
  <2>1. prv[i].round \in Int
    BY ItemParts DEF TypeOK
  <2>2. QED
    BY <2>1, Nonces
<1>1. barrierStop[g][r] = GroupSize - Cardinality(CountedAt(g, r))
  <2>1. pc[<<g, r % GroupSize>>] # "entry"
    BY SiteOwners DEF AllIn, Looking
  <2>2. QED
    BY <2>1 DEF StopsCount
<1>2. CountedAt(g, r) \in SUBSET LocalIds
  BY DEF CountedAt
<1>3. barrierStop[g][r] = 0 <=> CountedAt(g, r) = LocalIds
  <2>1. Cardinality(CountedAt(g, r)) \in 0 .. GroupSize /\ GroupSize \in Int
    BY <1>2, LocalCount, ConstantsAssumption
  <2>2. Cardinality(CountedAt(g, r)) = GroupSize <=> CountedAt(g, r) = LocalIds
    BY <1>2, LocalCount
  <2>3. QED
    BY <1>1, <2>1, <2>2
<1>4. ASSUME CountedAt(g, r) = LocalIds PROVE AllIn(g, AtStop)
  <2>1. \A l \in LocalIds : pc[<<g, l>>] \in Counted
    BY <1>4 DEF CountedAt
  <2>2. \A j \in Group(g) : j[2] \in LocalIds /\ j = <<g, j[2]>>
    BY ItemParts
  <2>3. \A j \in Group(g) : pc[j] \in Counted
    BY <2>1, <2>2
  <2>4. QED
    BY <2>3 DEF AllIn, Counted, Looking, AtStop, Looked
<1>5. ASSUME AllIn(g, AtStop) PROVE CountedAt(g, r) = LocalIds
  <2>1. \A j \in Group(g) : pc[j] \in Counted /\ pc[j] \in AtBarrier
    BY <1>5 DEF AllIn, Counted, Looking, AtStop, Looked, AtBarrier
  <2>2. \A j \in Group(g) : prv[j].round = prv[i].round
    BY <2>1, SameRound
  <2>3. \A l \in LocalIds : pc[<<g, l>>] \in Counted /\ SiteOf(prv[<<g, l>>].round) = r
    BY <1>s, <2>1, <2>2, ItemParts
  <2>4. QED
    BY <2>3 DEF CountedAt
<1>6. QED
  BY <1>s, <1>3, <1>4, <1>5

\* What a work-item has seen of the stop stays true while it acts on it.
LEMMA ItemStepLooks ==
  ASSUME TypeOK, NEW i \in Items, ItemStep(i), OnlyMoves(i), Barriers(i[1])
  PROVE  LooksAreRight(i[1])'
<1>g. /\ i[1] \in Groups /\ i \in Group(i[1])
      /\ InStep(i[1]) /\ FreedTogether(i[1]) /\ StopsCount(i[1]) /\ LooksAreRight(i[1])
      /\ \A j \in Group(i[1]) : j # i => pc'[j] = pc[j] /\ prv'[j] = prv[j]
  BY ItemParts DEF Barriers, OnlyMoves, Unmoved
<1>1. CASE Look(i)
  <2>1. pc[i] = "look" /\ pc'[i] = "looked"
    BY <1>1 DEF Look, Goto, TypeOK
  <2>2. AllIn(i[1], AtStop)' <=> AllIn(i[1], AtStop)
    BY <1>g, <2>1 DEF AllIn, AtStop, Looked
  <2>3. prv'[i].remain = barrierStop[i[1]][SiteOf(prv[i].round)]
    BY <1>1 DEF Look, TypeOK
  <2>4. AllIn(i[1], Looking)
    BY <1>g, <2>1, StepCases
  <2>5. prv'[i].remain = 0 <=> AllIn(i[1], AtStop)
    BY <1>g, <2>1, <2>3, <2>4, StopTells
  <2>6. QED
    BY <1>g, <2>2, <2>5 DEF LooksAreRight
<1>2. CASE Uncount(i)
  <2>1. /\ pc[i] = "uncount" /\ prv'[i] = prv[i]
        /\ \/ pc'[i] = "original"
           \/ pc'[i] = "exit" /\ prv[i].remain # 0
    BY <1>2 DEF Uncount, AllHere, Checkpoint, Goto, TypeOK
  <2>2. prv[i].remain = 0 <=> AllIn(i[1], AtStop)
    BY <1>g, <2>1 DEF LooksAreRight, Looked
  <2>3. AllIn(i[1], AtStop)' <=> AllIn(i[1], AtStop)
    BY <1>g, <2>1, <2>2 DEF AllIn, AtStop, Looked
  <2>4. QED
    BY <1>g, <2>1, <2>3 DEF LooksAreRight, Looked
<1>3. CASE ~Look(i) /\ ~Uncount(i)
  <2>1. pc[i] \notin AtStop /\ pc'[i] \notin AtStop
    <3>1. pc[i] \notin {"look", "uncount"}
      BY <1>3 DEF ItemStep, Enter, Dispatch, Loop, CallBarrier, Pass, BodyEnd, Advance, Exit, Number, Store
    <3>2. QED
      BY <3>1, ItemStepLabels DEF LabelStep, AtStop, Looked
  <2>2. ~AllIn(i[1], AtStop) /\ ~AllIn(i[1], AtStop)' /\ pc'[i] \notin Looked
    BY <1>g, <2>1 DEF AllIn, AtStop
  <2>3. QED
    BY <1>g, <2>2 DEF LooksAreRight
<1>4. QED
  BY <1>1, <1>2, <1>3

\* The part of the invariant about barriers, for the steps of a work-item.
LEMMA ItemStepBarriers ==
  ASSUME TypeOK, \A j \in Items : ItemIsRight(j), NEW i \in Items, ItemStep(i), Barriers(i[1])
  PROVE  Barriers(i[1])'
<1>1. OnlyMoves(i) /\ \A j \in Items : Freed(j)' = Freed(j)
  BY ItemStepKeeps
<1>2. FreedTogether(i[1])'
  BY <1>1, ItemParts DEF Barriers, FreedTogether
<1>3. QED
  BY <1>1, <1>2, ItemStepInStep, ItemStepStops, ItemStepLooks DEF Barriers

-----------------------------------------------------------------------------
(* A barrier of the device opens for a group.                               *)

OpenStep(a, b) ==
  \/ a = "init" /\ b = "switch"
  \/ a = "counted" /\ b = "look"
  \/ a = "looked" /\ b = "uncount"
  \/ a = "original" /\ b = "passed"
  \/ a = "batched" /\ b = "number"
  \/ a = "numbered" /\ b = "store"
  \/ a = "left" /\ b = "left"

\* An opening changes nothing but the labels of the group.
LEMMA OpenEffects ==
  ASSUME TypeOK, NEW g \in Groups, BarrierOpens(g)
  PROVE  /\ TypeOK' /\ \A j \in Group(g) : OpenStep(pc[j], pc'[j])
         /\ \E j \in Group(g) : pc[j] # "left"
         /\ \A j \in Items : j \notin Group(g) => pc'[j] = pc[j]
         /\ usesLocal' = usesLocal /\ trips' = trips /\ prv' = prv /\ hdr' = hdr
         /\ savedPrv' = savedPrv /\ savedLocal' = savedLocal /\ mem' = mem
         /\ barrierStop' = barrierStop /\ finalStop' = finalStop /\ finished' = finished
<1>1. /\ usesLocal' = usesLocal /\ trips' = trips /\ prv' = prv /\ hdr' = hdr
      /\ savedPrv' = savedPrv /\ savedLocal' = savedLocal /\ mem' = mem
      /\ barrierStop' = barrierStop /\ finalStop' = finalStop /\ finished' = finished
  BY DEF BarrierOpens, kernel, saved, shared
<1>2. \A j \in Group(g) : OpenStep(pc[j], pc'[j])
  <2>1. ASSUME NEW j \in Group(g) PROVE OpenStep(pc[j], pc'[j])
    <3>1. j \in Items /\ pc[j] \in DOMAIN Resumes \cup {"left"}
      BY ItemParts DEF BarrierOpens
    <3>2. pc'[j] = IF pc[j] # "left" THEN Resumes[pc[j]] ELSE pc[j]
      BY <3>1 DEF BarrierOpens
    <3>3. QED
      BY <3>1, <3>2 DEF OpenStep, Resumes
  <2>2. QED
    BY <2>1
<1>3. \A j \in Items : j \notin Group(g) => pc'[j] = pc[j]
  BY DEF BarrierOpens
<1>4. TypeOK'
  <2>1. \A j \in Items : pc'[j] \in Labels
    BY <1>2, <1>3 DEF OpenStep, TypeOK, Labels, Working, Looking, Leaving
  <2>2. pc' \in [Items -> Labels]
    <3>1. pc' = [j \in Items |-> pc'[j]]
      BY DEF BarrierOpens
    <3>2. QED
      BY <2>1, <3>1
  <2>3. QED
    BY <1>1, <2>2 DEF TypeOK
<1>5. \E j \in Group(g) : pc[j] # "left"
  BY DEF BarrierOpens
<1>6. QED
  BY <1>1, <1>2, <1>3, <1>4, <1>5

\* An opening keeps all the places; it lets the work-items through that nothing blocks.
LEMMA OpenItems ==
  ASSUME TypeOK, \A j \in Items : ItemIsRight(j), NEW g \in Groups, BarrierOpens(g), NEW j \in Items
  PROVE  /\ ItemIsRight(j)' /\ Arrived(j)' = Arrived(j) /\ Position(j)' = Position(j)
         /\ j \in Group(g) /\ pc[j] = "original" => Freed(j)' = Freed(j) + 1
         /\ ~(j \in Group(g) /\ pc[j] = "original") => Freed(j)' = Freed(j)
<1>1. /\ prv'[j] = prv[j] /\ hdr'[j] = hdr[j] /\ savedPrv'[j] = savedPrv[j] /\ trips' = trips
      /\ IF j \in Group(g) THEN OpenStep(pc[j], pc'[j]) ELSE pc'[j] = pc[j]
  BY OpenEffects
<1>2. CASE j \notin Group(g)
  <2>1. Unmoved(j)
    BY <1>1, <1>2 DEF Unmoved
  <2>2. QED
    BY <1>2, <2>1, UnmovedStays
<1>3. CASE j \in Group(g) /\ pc[j] # "original"
  <2>1. OneKind(pc[j], pc'[j])
    BY <1>1, <1>3 DEF OpenStep, OneKind, AtBarrier, Entering, Out
  <2>2. QED
    BY <1>1, <1>3, <2>1, KindKeeps DEF KeepsPlace, KeepsCounts
<1>4. CASE j \in Group(g) /\ pc[j] = "original"
  <2>1. pc'[j] = "passed"
    BY <1>1, <1>4 DEF OpenStep
  <2>2. prv[j].round \in 1 .. NumOfRound /\ ItemIsRight(j)'
    BY <1>1, <1>4, <2>1, Rights DEF RightByLabel, AtBarrier, Behind
  <2>3. /\ PlaceIs(j, prv[j].round - 1, prv[j].round, At(prv[j].round, 0, "barrier"))
        /\ PlaceAfter(j, prv[j].round, prv[j].round, At(prv[j].round, 0, "barrier"))
    BY <1>1, <1>4, <2>1, Places DEF PlaceByLabel, PlaceIs, PlaceAfter, AtBarrier
  <2>4. prv[j].round - 1 + 1 = prv[j].round
    BY <2>2, ConstantsAssumption
  <2>5. QED
    BY <1>4, <2>2, <2>3, <2>4 DEF PlaceIs, PlaceAfter
<1>5. QED
  BY <1>2, <1>3, <1>4

\* From which place of a group to which an opening leads.
LEMMA OpenCases ==
  ASSUME TypeOK, NEW g \in Groups, BarrierOpens(g), InStep(g)
  PROVE  \/ AllIn(g, {"init"}) /\ AllIn(g, {"switch"})'
         \/ /\ AllIn(g, {"counted", "batched", "left"})
            /\ AllIn(g, {"look", "number", "left"})'
         \/ AllIn(g, {"looked", "numbered", "left"}) /\ AllIn(g, {"uncount", "store", "left"})'
         \/ AllIn(g, {"batched", "left"}) /\ AllIn(g, {"number", "left"})'
         \/ AllIn(g, {"original"}) /\ AllIn(g, {"passed"})'
<1>1. \A j \in Group(g) : OpenStep(pc[j], pc'[j])
  BY OpenEffects
<1>2. CASE AllIn(g, Entering)
  BY <1>1, <1>2 DEF AllIn, OpenStep, Entering
<1>3. CASE AllIn(g, Working)
  BY <1>1, <1>3 DEF AllIn, OpenStep, Working
<1>4. CASE AllIn(g, Looking)
  BY <1>1, <1>4 DEF AllIn, OpenStep, Looking
<1>5. CASE AllIn(g, Leaving)
  BY <1>1, <1>5 DEF AllIn, OpenStep, Leaving
<1>6. CASE AllIn(g, Passing)
  BY <1>1, <1>6 DEF AllIn, OpenStep, Passing
<1>7. QED
  BY <1>2, <1>3, <1>4, <1>5, <1>6 DEF InStep

\* The groups whose barrier does not open.
LEMMA OpenElsewhere ==
  ASSUME TypeOK, NEW g \in Groups, BarrierOpens(g), NEW h \in Groups, h # g
  PROVE  GroupStays(h)
<1>1. \A j \in Group(h) : j \in Items /\ j \notin Group(g)
  BY ItemParts
<1>2. QED
  BY <1>1, OpenEffects DEF GroupStays, Unmoved

\* The part of the invariant about barriers, for the group whose barrier opens: those
\* who go on are the whole group.
LEMMA OpenBarriers ==
  ASSUME TypeOK, \A j \in Items : ItemIsRight(j), NEW g \in Groups, BarrierOpens(g), Barriers(g)
  PROVE  Barriers(g)'
<1>g. /\ InStep(g) /\ FreedTogether(g) /\ StopsCount(g) /\ LooksAreRight(g)
      /\ prv' = prv /\ barrierStop' = barrierStop
      /\ \A j \in Group(g) : j \in Items /\ OpenStep(pc[j], pc'[j])
  BY OpenEffects, ItemParts DEF Barriers
<1>1. InStep(g)'
  BY <1>g, OpenCases DEF InStep, AllIn, Working, Looking, Leaving
<1>2. FreedTogether(g)'
  <2>1. CASE AllIn(g, {"original"})
    <3>1. \A j \in Group(g) : Freed(j)' = Freed(j) + 1
      BY <1>g, <2>1, OpenItems DEF AllIn
    <3>2. QED
      BY <1>g, <3>1 DEF FreedTogether
  <2>2. CASE \A j \in Group(g) : pc[j] # "original"
    <3>1. \A j \in Group(g) : Freed(j)' = Freed(j)
      BY <1>g, <2>2, OpenItems
    <3>2. QED
      BY <1>g, <3>1 DEF FreedTogether
  <2>3. QED
    BY <1>g, <2>1, <2>2, OpenCases DEF AllIn
<1>3. StopsCount(g)'
  <2>1. \A j \in Group(g) : KeepsCounted(j) /\ (pc'[j] # "entry" => pc[j] # "entry")
    BY <1>g DEF OpenStep, KeepsCounted, Counted
  <2>2. \A s \in Sites : CountedAt(g, s)' = CountedAt(g, s)
    BY <2>1, CountedStay
  <2>3. QED
    BY <1>g, <2>1, <2>2, SiteOwners DEF StopsCount
<1>4. LooksAreRight(g)'
  <2>1. CASE AllIn(g, {"looked", "numbered", "left"}) /\ AllIn(g, {"uncount", "store", "left"})'
    <3>1. AllIn(g, AtStop)' <=> AllIn(g, AtStop)
      BY <1>g, <2>1 DEF AllIn, OpenStep, AtStop, Looked
    <3>2. QED
      BY <1>g, <2>1, <3>1 DEF LooksAreRight, AllIn, OpenStep, Looked
  <2>2. CASE ~AllIn(g, {"uncount", "store", "left"})'
    <3>1. \A j \in Group(g) : pc'[j] \notin Looked
      BY <1>g, <2>2, OpenCases DEF AllIn, Looked
    <3>2. QED
      BY <3>1 DEF LooksAreRight
  <2>3. CASE ~AllIn(g, {"looked", "numbered", "left"})
    <3>1. \A j \in Group(g) : pc'[j] \notin Looked
      BY <1>g, <2>3, OpenCases DEF AllIn, Looked
    <3>2. QED
      BY <3>1 DEF LooksAreRight
  <2>4. QED
    BY <2>1, <2>2, <2>3
<1>5. QED
  BY <1>1, <1>2, <1>3, <1>4 DEF Barriers

-----------------------------------------------------------------------------
(* The host between two runs.                                               *)

\* Whether UpdateHeader has anything to write or not, UpdatedHeader is the header after
\* it: without a group that may pass it is the header before.
LEMMA NewHeader ==
  ASSUME TypeOK, ResumeOrFinish
  PROVE  /\ hdr' = UpdatedHeader
         /\ \A i \in Items : hdr'[i] = IF MayPass(i[1]) THEN -hdr[<<i[1], 0>>] ELSE hdr[i]
         /\ Progress = 0 => hdr' = hdr
<1>1. CASE \E g \in Groups : MayPass(g)
  <2>1. Progress = -1
    BY <1>1 DEF Progress
  <2>2. hdr' = UpdatedHeader /\ Progress # 0
    BY <2>1 DEF ResumeOrFinish
  <2>3. QED
    BY <2>2 DEF UpdatedHeader
<1>2. CASE ~\E g \in Groups : MayPass(g)
  <2>1. Progress \in {0, 1}
    BY <1>2 DEF Progress
  <2>2. hdr' = hdr
    BY <2>1 DEF ResumeOrFinish
  <2>3. \A i \in Items : ~MayPass(i[1])
    BY <1>2, ItemParts
  <2>4. UpdatedHeader = hdr
    BY <2>3 DEF UpdatedHeader, TypeOK
  <2>5. QED
    BY <2>2, <2>3, <2>4
<1>3. QED
  BY <1>1, <1>2

\* A work-item that has left is where its entry says; a negative entry is that of the
\* barrier which blocks it.
LEMMA LeftPlace ==
  ASSUME TypeOK, NEW i \in Items, ItemIsRight(i), pc[i] = "left"
  PROVE  /\ EntryIsRight(hdr[i], savedPrv[i], trips[i]) /\ hdr[i] # Fresh
         /\ PlaceIs(i, EntryFreed(hdr[i], savedPrv[i]), EntryArrived(hdr[i], savedPrv[i]),
                    EntryPosition(hdr[i], savedPrv[i]))
         /\ hdr[i] < 0 =>
              /\ hdr[i] = -BarrierNonce(SiteOf(savedPrv[i].round))
              /\ savedPrv[i].round \in 1 .. NumOfRound
              /\ PlaceIs(i, savedPrv[i].round - 1, savedPrv[i].round, At(savedPrv[i].round, 0, "barrier"))
<1>1. pc[i] \notin InSource /\ pc[i] \notin InSource \cup Entering \cup {"switch"}
  BY DEF InSource, AtBarrier, Behind, Entering
<1>2. EntryIsRight(hdr[i], savedPrv[i], trips[i]) /\ hdr[i] # Fresh
  BY <1>1, Rights DEF RightByLabel
<1>3. PlaceIs(i, EntryFreed(hdr[i], savedPrv[i]), EntryArrived(hdr[i], savedPrv[i]),
              EntryPosition(hdr[i], savedPrv[i]))
  BY <1>1, Places DEF PlaceByLabel
<1>4. ASSUME hdr[i] < 0
      PROVE  /\ hdr[i] = -BarrierNonce(SiteOf(savedPrv[i].round))
             /\ savedPrv[i].round \in 1 .. NumOfRound
             /\ PlaceIs(i, savedPrv[i].round - 1, savedPrv[i].round, At(savedPrv[i].round, 0, "barrier"))
  <2>1. hdr[i] \notin {Finished, Fresh, LoopNonce, OuterNonce} \cup BarrierNonces
    BY <1>4 DEF Finished, Fresh, LoopNonce, OuterNonce, BarrierNonces, BarrierNonce, Sites
  <2>2. /\ savedPrv[i].round \in 1 .. NumOfRound
        /\ hdr[i] = -BarrierNonce(SiteOf(savedPrv[i].round))
        /\ BarrierNonce(SiteOf(savedPrv[i].round)) \in BarrierNonces
    BY <1>2, <2>1, EntryCases
  <2>3. QED
    BY <1>3, <2>2, EntryPlaces DEF PlaceIs
<1>5. QED
  BY <1>2, <1>3, <1>4

\* What the end of a run leaves of a work-item, and what it lets through: the groups
\* that are blocked, as one.
LEMMA ResumeItems ==
  ASSUME TypeOK, \A j \in Items : ItemIsRight(j), \A g \in Groups : FreedTogether(g),
         ResumeOrFinish, NEW i \in Items
  PROVE  /\ ItemIsRight(i)' /\ Arrived(i)' = Arrived(i) /\ Position(i)' = Position(i)
         /\ hdr'[i] # Fresh
         /\ MayPass(i[1]) => Freed(i)' = Freed(i) + 1
         /\ ~MayPass(i[1]) => Freed(i)' = Freed(i)
<1>1. /\ \A j \in Items : pc[j] = "left" /\ ItemIsRight(j)
      /\ savedPrv' = savedPrv /\ trips' = trips
  BY DEF ResumeOrFinish, RunIsOver, kernel
<1>2. CASE Progress = 0
  <2>1. Unmoved(i)
    BY <1>1, <1>2, NewHeader DEF ResumeOrFinish, Unmoved
  <2>2. ~MayPass(i[1])
    BY <1>2, ItemParts DEF Progress
  <2>3. hdr'[i] # Fresh
    BY <1>1, <2>1, LeftPlace DEF Unmoved
  <2>4. QED
    BY <1>1, <2>1, <2>2, <2>3, UnmovedStays
<1>3. CASE Progress # 0
  <2>1. pc'[i] = "entry"
    BY <1>3 DEF ResumeOrFinish
  <2>2. /\ PlaceAfter(i, EntryFreed(hdr'[i], savedPrv'[i]), EntryArrived(hdr'[i], savedPrv'[i]),
                      EntryPosition(hdr'[i], savedPrv'[i]))
        /\ ItemIsRight(i)' <=> EntryIsRight(hdr'[i], savedPrv'[i], trips'[i])
    BY <2>1, Places, Rights DEF PlaceByLabel, RightByLabel, PlaceIs, PlaceAfter, InSource, AtBarrier,
                                Behind, Entering
  <2>3. CASE ~MayPass(i[1])
    <3>1. hdr'[i] = hdr[i]
      BY <2>3, NewHeader
    <3>2. QED
      BY <1>1, <2>2, <2>3, <3>1, LeftPlace DEF PlaceIs, PlaceAfter
  <2>4. CASE MayPass(i[1])
    <3> DEFINE k == <<i[1], 0>>
    <3>1. k \in Group(i[1]) /\ k \in Items /\ i \in Group(i[1]) /\ i[1] \in Groups
      <4>1. 0 \in LocalIds
        BY ConstantsAssumption DEF LocalIds
      <4>2. QED
        BY <4>1, ItemParts
    <3>2. /\ hdr[k] = -BarrierNonce(SiteOf(savedPrv[k].round))
          /\ PlaceIs(k, savedPrv[k].round - 1, savedPrv[k].round, At(savedPrv[k].round, 0, "barrier"))
      <4>1. hdr[k] < 0
        BY <2>4, <3>1 DEF MayPass
      <4>2. QED
        BY <1>1, <3>1, <4>1, LeftPlace
    <3>3. /\ savedPrv[i].round \in 1 .. NumOfRound
          /\ PlaceIs(i, savedPrv[i].round - 1, savedPrv[i].round, At(savedPrv[i].round, 0, "barrier"))
      <4>1. hdr[i] < 0
        BY <2>4, <3>1 DEF MayPass
      <4>2. QED
        BY <1>1, <4>1, LeftPlace
    <3>4. savedPrv[k].round = savedPrv[i].round
      <4>1. savedPrv[k].round \in Int /\ savedPrv[i].round \in Int
        BY <3>1 DEF TypeOK
      <4>2. Freed(k) = Freed(i)
        BY <3>1 DEF FreedTogether
      <4>3. QED
        BY <3>2, <3>3, <4>1, <4>2 DEF PlaceIs
    <3>5. PICK n \in BarrierNonces : n = BarrierNonce(SiteOf(savedPrv[i].round)) /\ n \in Int
      BY <3>3, Nonces
    <3>6. hdr'[i] = n
      <4>1. hdr'[i] = -hdr[k]
        BY <2>4, NewHeader
      <4>2. hdr[k] = -n /\ n \in Int
        BY <3>2, <3>4, <3>5
      <4>3. QED
        BY <4>1, <4>2
    <3>7. ItemIsRight(i)'
      <4>1. EntryIsRight(n, savedPrv'[i], trips'[i])
        BY <1>1, <3>3, <3>5, Nonces DEF EntryIsRight
      <4>2. QED
        BY <2>2, <3>6, <4>1
    <3>8. PlaceAfter(i, savedPrv[i].round, savedPrv[i].round, At(savedPrv[i].round, 0, "barrier"))
      BY <1>1, <2>2, <3>5, <3>6, EntryPlaces
    <3>9. savedPrv[i].round = savedPrv[i].round - 1 + 1
      BY <3>3, ConstantsAssumption
    <3>10. QED
      BY <2>4, <3>3, <3>6, <3>7, <3>8, <3>9, Nonces DEF PlaceIs, PlaceAfter
  <2>5. QED
    BY <2>3, <2>4
<1>4. QED
  BY <1>2, <1>3

\* The types of what the host writes and what the next run starts from.
LEMMA ResumeType ==
  ASSUME TypeOK, ResumeOrFinish
  PROVE  TypeOK'
<1>1. hdr' \in [Items -> Int]
  <2>1. \A i \in Items : <<i[1], 0>> \in Items
    <3>1. 0 \in LocalIds
      BY ConstantsAssumption DEF LocalIds
    <3>2. QED
      BY <3>1, ItemParts
  <2>2. \A i \in Items : hdr[i] \in Int /\ -hdr[<<i[1], 0>>] \in Int
    <3>1. \A i \in Items : hdr[i] \in Int
      BY DEF TypeOK
    <3>2. \A n \in Int : -n \in Int
      OBVIOUS
    <3>3. QED
      BY <2>1, <3>1, <3>2
  <2>3. UpdatedHeader \in [Items -> Int]
    BY <2>2 DEF UpdatedHeader
  <2>4. QED
    BY <2>3, NewHeader
<1>2. finished' \in BOOLEAN
  BY DEF ResumeOrFinish
<1>3. CASE Progress = 0
  BY <1>1, <1>2, <1>3 DEF ResumeOrFinish, TypeOK, kernel, shared
<1>4. CASE Progress # 0
  <2>1. Garbage \in Int /\ "entry" \in Labels /\ Privates \in Prv
    BY DEF Garbage, Labels, Entering, Privates, Prv
  <2>2. pc' \in [Items -> Labels] /\ prv' \in [Items -> Prv]
    BY <1>4, <2>1 DEF ResumeOrFinish
  <2>3. barrierStop' \in [Groups -> [Sites -> Int]] /\ finalStop' \in [Groups -> Int]
    BY <1>4, <2>1 DEF ResumeOrFinish
  <2>4. mem' \in [Items -> Int]
    BY <1>4, <2>1 DEF ResumeOrFinish, TypeOK
  <2>5. QED
    BY <1>1, <1>2, <2>2, <2>3, <2>4 DEF ResumeOrFinish, TypeOK, Prv, kernel
<1>5. QED
  BY <1>3, <1>4

\* A run that is not resumed leaves everything as it is.
LEMMA FinishStays ==
  ASSUME TypeOK, ResumeOrFinish, Progress = 0, NEW g \in Groups
  PROVE  GroupStays(g)
<1>1. hdr' = hdr
  BY NewHeader
<1>2. QED
  BY <1>1 DEF ResumeOrFinish, GroupStays, Unmoved, kernel, shared

\* The part of the invariant about barriers, from one run to the next.
LEMMA ResumeBarriers ==
  ASSUME TypeOK, \A j \in Items : ItemIsRight(j), \A g \in Groups : FreedTogether(g),
         ResumeOrFinish, NEW g \in Groups, Barriers(g)
  PROVE  Barriers(g)'
<1>1. CASE Progress = 0
  BY <1>1, FinishStays, GroupStaysRight
<1>2. CASE Progress # 0
  <2>1. \A j \in Group(g) : j \in Items /\ j[1] = g /\ pc'[j] = "entry"
    BY <1>2, ItemParts DEF ResumeOrFinish
  <2>2. InStep(g)'
    BY <2>1 DEF InStep, AllIn, Entering
  <2>3. FreedTogether(g)'
    <3>1. CASE MayPass(g)
      <4>1. \A j \in Group(g) : Freed(j)' = Freed(j) + 1
        BY <2>1, <3>1, ResumeItems
      <4>2. QED
        BY <4>1 DEF FreedTogether
    <3>2. CASE ~MayPass(g)
      <4>1. \A j \in Group(g) : Freed(j)' = Freed(j)
        BY <2>1, <3>2, ResumeItems
      <4>2. QED
        BY <4>1 DEF FreedTogether
    <3>3. QED
      BY <3>1, <3>2
  <2>4. StopsCount(g)'
    BY <2>1, SiteOwners DEF StopsCount
  <2>5. LooksAreRight(g)'
    BY <2>1 DEF LooksAreRight, Looked
  <2>6. QED
    BY <2>2, <2>3, <2>4, <2>5 DEF Barriers
<1>3. QED
  BY <1>1, <1>2

-----------------------------------------------------------------------------
(* What the barriers let through.                                           *)

BInv ==
  /\ TypeOK
  /\ \A i \in Items : ItemIsRight(i)
  /\ \A g \in Groups : Barriers(g)

\* The first run starts with everybody before the first barrier.
LEMMA BInit == Init => BInv
<1> SUFFICES ASSUME Init PROVE BInv
  OBVIOUS
<1>1. Garbage \in Int /\ "entry" \in Labels /\ Privates \in Prv /\ Fresh \in Int
  BY DEF Garbage, Labels, Entering, Privates, Prv, Fresh
<1>2. TypeOK
  <2>1. trips \in [Items -> Nat]
    BY ConstantsAssumption DEF Init
  <2>2. QED
    BY <1>1, <2>1 DEF Init, TypeOK, Prv
<1>3. \A i \in Items : pc[i] = "entry" /\ hdr[i] = Fresh
  BY DEF Init
<1>4. ASSUME NEW i \in Items PROVE ItemIsRight(i) /\ Freed(i) = 0
  <2>1. pc[i] \in Entering \cup {"switch"} /\ pc[i] \notin InSource
    BY <1>3 DEF Entering, InSource, AtBarrier, Behind
  <2>2. EntryIsRight(Fresh, savedPrv[i], trips[i])
    BY Nonces DEF EntryIsRight
  <2>3. ItemIsRight(i)
    BY <1>3, <2>1, <2>2, Rights DEF RightByLabel
  <2>4. Freed(i) = EntryFreed(Fresh, savedPrv[i])
    BY <1>3, <2>1, Places DEF PlaceByLabel, PlaceIs
  <2>5. QED
    BY <2>3, <2>4, EntryPlaces
<1>5. ASSUME NEW g \in Groups PROVE Barriers(g)
  <2>1. \A j \in Group(g) : j \in Items /\ pc[j] = "entry"
    BY <1>3, ItemParts
  <2>2. InStep(g)
    BY <2>1 DEF InStep, AllIn, Entering
  <2>3. FreedTogether(g)
    BY <1>4, <2>1 DEF FreedTogether
  <2>4. StopsCount(g)
    BY <2>1, SiteOwners DEF StopsCount
  <2>5. LooksAreRight(g)
    BY <2>1 DEF LooksAreRight, Looked
  <2>6. QED
    BY <2>2, <2>3, <2>4, <2>5 DEF Barriers
<1>6. QED
  BY <1>2, <1>4, <1>5 DEF BInv

\* Every step keeps the barriers right.
LEMMA BNext == BInv /\ [Next]_vars => BInv'
<1> SUFFICES ASSUME BInv, [Next]_vars PROVE BInv'
  OBVIOUS
<1>1. /\ TypeOK /\ \A i \in Items : ItemIsRight(i)
      /\ \A g \in Groups : Barriers(g) /\ FreedTogether(g)
  BY DEF BInv, Barriers
<1>2. CASE \E i \in Items : ItemStep(i)
  <2>1. PICK i \in Items : ItemStep(i)
    BY <1>2
  <2>2. TypeOK' /\ OnlyMoves(i) /\ \A j \in Items : ItemIsRight(j)'
    BY <1>1, <2>1, ItemStepKeeps
  <2>3. Barriers(i[1])'
    BY <1>1, <2>1, ItemParts, ItemStepBarriers
  <2>4. ASSUME NEW g \in Groups, g # i[1] PROVE Barriers(g)'
    <3>1. GroupStays(g)
      BY <1>1, <2>1, <2>2, <2>4, ItemStepElsewhere
    <3>2. QED
      BY <1>1, <3>1, GroupStaysRight
  <2>5. QED
    BY <2>2, <2>3, <2>4 DEF BInv
<1>3. CASE \E g \in Groups : BarrierOpens(g)
  <2>1. PICK g \in Groups : BarrierOpens(g)
    BY <1>3
  <2>2. TypeOK' /\ \A j \in Items : ItemIsRight(j)'
    BY <1>1, <2>1, OpenEffects, OpenItems
  <2>3. Barriers(g)'
    BY <1>1, <2>1, OpenBarriers
  <2>4. ASSUME NEW h \in Groups, h # g PROVE Barriers(h)'
    <3>1. GroupStays(h)
      BY <1>1, <2>1, <2>4, OpenElsewhere
    <3>2. QED
      BY <1>1, <3>1, GroupStaysRight
  <2>5. QED
    BY <2>2, <2>3, <2>4 DEF BInv
<1>4. CASE ResumeOrFinish
  BY <1>1, <1>4, ResumeType, ResumeItems, ResumeBarriers DEF BInv
<1>5. CASE UNCHANGED vars
  <2>1. TypeOK' /\ \A i \in Items : Unmoved(i)
    BY <1>1, <1>5 DEF TypeOK, vars, kernel, saved, shared, Unmoved
  <2>2. \A g \in Groups : GroupStays(g)
    BY <1>5, <2>1, ItemParts DEF vars, kernel, saved, shared, GroupStays
  <2>3. \A i \in Items : ItemIsRight(i)'
    BY <1>1, <2>1, UnmovedStays
  <2>4. QED
    BY <1>1, <2>1, <2>2, <2>3, GroupStaysRight DEF BInv
<1>6. QED
  BY <1>2, <1>3, <1>4, <1>5 DEF Next

\* The invariant of the barriers holds in every state.
LEMMA BAlways == Spec => []BInv
  BY BInit, BNext, PTL DEF Spec

\* "some threads reach different barrier!", which UpdateHeader asserts, never happens:
\* the work-items of a group that a run leaves blocked are blocked at one barrier.
THEOREM BlockedTogether == Spec => []SameBarrier
<1>1. BInv => SameBarrier
  <2> SUFFICES ASSUME BInv, RunIsOver, NEW i \in Items, NEW j \in Items,
                      i[1] = j[1], hdr[i] < 0, hdr[j] < 0
               PROVE  hdr[i] = hdr[j]
    BY DEF SameBarrier
  <2>1. /\ TypeOK /\ ItemIsRight(i) /\ ItemIsRight(j) /\ pc[i] = "left" /\ pc[j] = "left"
        /\ FreedTogether(i[1]) /\ i \in Group(i[1]) /\ j \in Group(i[1])
    BY ItemParts DEF BInv, RunIsOver, Barriers
  <2>2. /\ hdr[i] = -BarrierNonce(SiteOf(savedPrv[i].round))
        /\ hdr[j] = -BarrierNonce(SiteOf(savedPrv[j].round))
        /\ Freed(i) = savedPrv[i].round - 1 /\ Freed(j) = savedPrv[j].round - 1
    BY <2>1, LeftPlace DEF PlaceIs
  <2>3. savedPrv[i].round = savedPrv[j].round
    <3>1. savedPrv[i].round \in Int /\ savedPrv[j].round \in Int
      BY <2>1 DEF TypeOK
    <3>2. Freed(i) = Freed(j)
      BY <2>1 DEF FreedTogether
    <3>3. QED
      BY <2>2, <3>1, <3>2
  <2>4. QED
    BY <2>2, <2>3
<1>2. QED
  BY <1>1, BAlways, PTL

-----------------------------------------------------------------------------
(* The preempted kernel is the kernel.                                      *)

Pos == [i \in Items |-> Position(i)]

\* A step that moves nobody is a stutter of the kernel.
LEMMA PosStays ==
  ASSUME trips' = trips, \A j \in Items : Position(j)' = Position(j)
  PROVE  UNCHANGED Kernel!vars
<1>1. Pos' = Pos
  BY DEF Pos
<1>2. QED
  BY <1>1 DEF Pos, Kernel!vars

\* What a step does that moves one work-item, field by field.
Moved(i, f, r, t, s) ==
  f = Pos /\ f[i] = At(r, t, s) /\ \A j \in Items : j # i => Position(j)' = Position(j)

\* One more iteration.
LEMMA TripMoves ==
  ASSUME NEW i \in Items, NEW f, NEW r, NEW t, NEW s, Moved(i, f, r, t, s),
         Position(i)' = At(r, t + 1, s)
  PROVE  Pos' = [f EXCEPT ![i].trip = @ + 1]
  BY DEF Moved, Pos, At

\* The same round, in another state.
LEMMA StateMoves ==
  ASSUME NEW i \in Items, NEW f, NEW r, NEW t, NEW s, NEW v, Moved(i, f, r, t, s),
         Position(i)' = At(r, t, v)
  PROVE  Pos' = [f EXCEPT ![i].st = v]
  BY DEF Moved, Pos, At

\* The iterations are over.
LEMMA ArrivalMoves ==
  ASSUME NEW i \in Items, NEW f, NEW r, NEW t, NEW s, NEW u, NEW v, Moved(i, f, r, t, s),
         Position(i)' = At(r, u, v)
  PROVE  Pos' = [f EXCEPT ![i].trip = u, ![i].st = v]
<1>1. PICK g : g = [f EXCEPT ![i].trip = u]
  OBVIOUS
<1>2. [f EXCEPT ![i].trip = u, ![i].st = v] = [g EXCEPT ![i].st = v]
  BY <1>1
<1>3. g = [j \in Items |-> IF j = i THEN At(r, u, s) ELSE f[j]]
  BY <1>1 DEF Moved, Pos, At
<1>4. Pos' = [g EXCEPT ![i].st = v]
  BY <1>3 DEF Moved, Pos, At
<1>5. QED
  BY <1>2, <1>4

\* The next round, or the end.
LEMMA RoundMoves ==
  ASSUME NEW i \in Items, NEW f, NEW r, NEW t, NEW s, Moved(i, f, r, t, s),
         Position(i)' = IF r = NumOfRound THEN At(r, t, "end") ELSE At(r + 1, 0, "loop")
  PROVE  Pos' = [f EXCEPT ![i] = IF @.round = NumOfRound THEN [@ EXCEPT !.st = "end"]
                                 ELSE [Kernel!Start EXCEPT !.round = f[i].round + 1]]
<1>1. f[i].round = r
  BY DEF Moved, At
<1>2. CASE r = NumOfRound
  BY <1>1, <1>2 DEF Moved, Pos, At
<1>3. CASE r # NumOfRound
  BY <1>1, <1>3 DEF Moved, Pos, At, Kernel!Start
<1>4. QED
  BY <1>2, <1>3

\* The places of the kernel are those of the work-items.
LEMMA KernelPlaces ==
  ASSUME NEW i \in Items, NEW r, NEW t, NEW s, Position(i) = At(r, t, s),
         \A j \in Items : j # i => Position(j)' = Position(j)
  PROVE  \E f : /\ Moved(i, f, r, t, s) /\ f = Pos
                /\ f[i].round = r /\ f[i].trip = t /\ f[i].st = s
<1>1. PICK f : f = Pos
  OBVIOUS
<1>2. f[i] = At(r, t, s)
  BY <1>1 DEF Pos
<1>3. f[i].round = r /\ f[i].trip = t /\ f[i].st = s
  BY <1>2 DEF At
<1>4. QED
  BY <1>1, <1>2, <1>3 DEF Moved

\* An iteration of the preempted kernel is one of the kernel.
LEMMA LoopIterates ==
  ASSUME BInv, NEW i \in Items, Loop(i)
  PROVE  Kernel!Iterate(i)
<1>1. /\ Position(i) = At(prv[i].round, prv[i].trip, "loop") /\ prv[i].trip < trips[i]
      /\ Position(i)' = At(prv[i].round, prv[i].trip + 1, "loop")
      /\ \A j \in Items : j # i => Position(j)' = Position(j)
  BY LoopItem, UnmovedStays DEF BInv, OnlyMoves
<1>2. PICK f : /\ Moved(i, f, prv[i].round, prv[i].trip, "loop") /\ f = Pos
               /\ f[i].trip = prv[i].trip /\ f[i].st = "loop"
  BY <1>1, KernelPlaces
<1>3. Pos' = [f EXCEPT ![i].trip = @ + 1]
  BY <1>1, <1>2, TripMoves
<1>4. Pos' = [Pos EXCEPT ![i].trip = @ + 1] /\ Pos[i].st = "loop" /\ Pos[i].trip < trips[i]
  BY <1>1, <1>2, <1>3
<1>5. QED
  BY <1>4 DEF Kernel!Iterate, Pos

\* A call of a barrier is one of the kernel.
LEMMA CallArrives ==
  ASSUME BInv, NEW i \in Items, CallBarrier(i)
  PROVE  Kernel!Arrive(i)
<1>1. /\ Position(i) = At(prv[i].round, prv[i].trip, "loop") /\ prv[i].trip = trips[i]
      /\ Position(i)' = At(prv[i].round, 0, "barrier")
      /\ \A j \in Items : j # i => Position(j)' = Position(j)
  BY CallBarrierItem, UnmovedStays DEF BInv, OnlyMoves
<1>2. PICK f : /\ Moved(i, f, prv[i].round, prv[i].trip, "loop") /\ f = Pos
               /\ f[i].trip = prv[i].trip /\ f[i].st = "loop"
  BY <1>1, KernelPlaces
<1>3. Pos' = [f EXCEPT ![i].trip = 0, ![i].st = "barrier"]
  BY <1>1, <1>2, ArrivalMoves
<1>4. /\ Pos' = [Pos EXCEPT ![i].trip = 0, ![i].st = "barrier"]
      /\ Pos[i].st = "loop" /\ Pos[i].trip = trips[i]
  BY <1>1, <1>2, <1>3
<1>5. QED
  BY <1>4 DEF Kernel!Arrive, Pos

\* A work-item that has been let through a barrier has arrived at it.
LEMMA FreedHasArrived ==
  ASSUME BInv, NEW j \in Items, NEW r \in 1 .. NumOfRound, Freed(j) = r
  PROVE  Position(j).round > r \/ (Position(j).round = r /\ Position(j).st # "loop")
<1>1. r \in Int /\ r >= 1 /\ r + 1 > r
  BY ConstantsAssumption
<1>2. ItemIsRight(j) /\ prv[j].round \in Int /\ savedPrv[j].round \in Int
  BY DEF BInv, TypeOK
<1>3. CASE pc[j] = "loop" \/ pc[j] \in AtBarrier
  <2>1. PICK t, s : Position(j) = At(prv[j].round, t, s) /\ Freed(j) = prv[j].round - 1
    BY <1>3, Places DEF PlaceByLabel, PlaceIs
  <2>2. prv[j].round > r
    BY <1>1, <1>2, <2>1
  <2>3. Position(j).round = prv[j].round
    BY <2>1 DEF At
  <2>4. QED
    BY <2>2, <2>3
<1>4. CASE pc[j] \in Behind
  <2>1. PICK s : Position(j) = At(prv[j].round, 0, s) /\ s \in {"barrier", "passed"} /\ Freed(j) = prv[j].round
    BY <1>4, Places DEF PlaceByLabel, PlaceIs, Behind
  <2>2. Position(j).round = r /\ Position(j).st = s
    BY <2>1 DEF At
  <2>3. QED
    BY <2>1, <2>2
<1>5. CASE pc[j] \notin InSource
  <2> DEFINE sp == savedPrv[j]
  <2>1. /\ EntryIsRight(hdr[j], sp, trips[j])
        /\ Freed(j) = EntryFreed(hdr[j], sp) /\ Position(j) = EntryPosition(hdr[j], sp)
    <3>1. EntryIsRight(hdr[j], sp, trips[j])
      BY <1>2, <1>5 DEF ItemIsRight
    <3>2. QED
      BY <1>5, <3>1, Places DEF PlaceByLabel, PlaceIs
  <2>2. CASE hdr[j] = Finished
    <3>1. Freed(j) = NumOfRound /\ Position(j) = At(NumOfRound, 0, "end")
      BY <2>1, <2>2, EntryPlaces
    <3>2. Position(j).round = r /\ Position(j).st = "end"
      BY <3>1 DEF At
    <3>3. QED
      BY <3>2
  <2>3. CASE hdr[j] = Fresh
    <3>1. Freed(j) = 0
      BY <2>1, <2>3, EntryPlaces
    <3>2. QED
      BY <1>1, <3>1
  <2>4. CASE hdr[j] = LoopNonce
    <3>1. Freed(j) = sp.round - 1 /\ Position(j) = At(sp.round, sp.trip, "loop")
      BY <2>1, <2>4, EntryPlaces
    <3>2. sp.round > r
      BY <1>1, <1>2, <3>1
    <3>3. Position(j).round = sp.round
      BY <3>1 DEF At
    <3>4. QED
      BY <3>2, <3>3
  <2>5. CASE hdr[j] = OuterNonce
    <3>1. Freed(j) = sp.round /\ Position(j) = At(sp.round, 0, "passed")
      BY <2>1, <2>5, EntryPlaces
    <3>2. Position(j).round = r /\ Position(j).st = "passed"
      BY <3>1 DEF At
    <3>3. QED
      BY <3>2
  <2>6. CASE hdr[j] \in BarrierNonces
    <3>1. Freed(j) = sp.round /\ Position(j) = At(sp.round, 0, "barrier")
      BY <2>1, <2>6, EntryPlaces
    <3>2. Position(j).round = r /\ Position(j).st = "barrier"
      BY <3>1 DEF At
    <3>3. QED
      BY <3>2
  <2>7. CASE \E n \in BarrierNonces : hdr[j] = -n
    <3>1. Freed(j) = sp.round - 1 /\ Position(j) = At(sp.round, 0, "barrier")
      BY <2>1, <2>7, EntryPlaces
    <3>2. sp.round > r
      BY <1>1, <1>2, <3>1
    <3>3. Position(j).round = sp.round
      BY <3>1 DEF At
    <3>4. QED
      BY <3>2, <3>3
  <2>8. QED
    BY <2>1, <2>2, <2>3, <2>4, <2>5, <2>6, <2>7, EntryCases
<1>6. QED
  BY <1>3, <1>4, <1>5 DEF InSource

\* Whoever goes on behind a barrier leaves none of its group before it.
LEMMA PassPasses ==
  ASSUME BInv, NEW i \in Items, Pass(i)
  PROVE  Kernel!Pass(i)
<1>1. /\ Position(i) = At(prv[i].round, 0, "barrier")
      /\ Position(i)' = At(prv[i].round, 0, "passed")
      /\ \A j \in Items : j # i => Position(j)' = Position(j)
      /\ prv[i].round \in 1 .. NumOfRound /\ Freed(i) = prv[i].round
  BY PassItem, UnmovedStays DEF BInv, OnlyMoves
<1>2. PICK f : /\ Moved(i, f, prv[i].round, 0, "barrier") /\ f = Pos
               /\ f[i].round = prv[i].round /\ f[i].st = "barrier"
  BY <1>1, KernelPlaces
<1>3. Pos' = [f EXCEPT ![i].st = "passed"]
  BY <1>1, <1>2, StateMoves
<1>4. ASSUME NEW j \in GroupOf(i)
      PROVE  f[j].round > f[i].round \/ (f[j].round = f[i].round /\ f[j].st # "loop")
  <2>1. j \in Items /\ j \in Group(i[1]) /\ i \in Group(i[1]) /\ i[1] \in Groups
    BY <1>4, ItemParts
  <2>2. Freed(j) = Freed(i)
    BY <2>1 DEF BInv, Barriers, FreedTogether
  <2>3. \/ Position(j).round > prv[i].round
        \/ Position(j).round = prv[i].round /\ Position(j).st # "loop"
    BY <1>1, <2>1, <2>2, FreedHasArrived
  <2>4. f[j] = Position(j)
    BY <1>2, <2>1 DEF Pos
  <2>5. QED
    BY <1>2, <2>3, <2>4
<1>5. /\ Pos' = [Pos EXCEPT ![i].st = "passed"] /\ Pos[i].st = "barrier"
      /\ \A j \in GroupOf(i) : \/ Pos[j].round > Pos[i].round
                               \/ Pos[j].round = Pos[i].round /\ Pos[j].st # "loop"
  BY <1>2, <1>3, <1>4
<1>6. QED
  BY <1>5 DEF Kernel!Pass, Kernel!HasArrived, Pos

\* The end of a round is the end of a round.
LEMMA AdvanceAdvances ==
  ASSUME BInv, NEW i \in Items, Advance(i)
  PROVE  Kernel!Advance(i)
<1>1. /\ Position(i) = At(prv[i].round, 0, "passed")
      /\ Position(i)' = IF prv[i].round = NumOfRound THEN At(NumOfRound, 0, "end")
                        ELSE At(prv[i].round + 1, 0, "loop")
      /\ \A j \in Items : j # i => Position(j)' = Position(j)
  BY AdvanceItem, UnmovedStays DEF BInv, OnlyMoves
<1>2. PICK f : Moved(i, f, prv[i].round, 0, "passed") /\ f = Pos /\ f[i].st = "passed"
  BY <1>1, KernelPlaces
<1>3. Pos' = [f EXCEPT ![i] = IF @.round = NumOfRound THEN [@ EXCEPT !.st = "end"]
                              ELSE [Kernel!Start EXCEPT !.round = f[i].round + 1]]
  BY <1>1, <1>2, RoundMoves
<1>4. /\ Pos' = [Pos EXCEPT ![i] = IF @.round = NumOfRound THEN [@ EXCEPT !.st = "end"]
                                   ELSE [Kernel!Start EXCEPT !.round = Pos[i].round + 1]]
      /\ Pos[i].st = "passed"
  BY <1>2, <1>3
<1>5. QED
  BY <1>4 DEF Kernel!Advance, Pos

\* The kernel starts where the preempted kernel does.
LEMMA StartsAsKernel == Init => Kernel!Init
<1> SUFFICES ASSUME Init PROVE Kernel!Init
  OBVIOUS
<1>1. trips \in [Items -> Nat] /\ \A i \in Items : pc[i] = "entry" /\ hdr[i] = Fresh
  BY ConstantsAssumption DEF Init
<1>2. ASSUME NEW i \in Items PROVE Position(i) = Kernel!Start
  <2>1. pc[i] \notin InSource
    BY <1>1 DEF InSource, AtBarrier, Behind
  <2>2. Position(i) = EntryPosition(Fresh, savedPrv[i])
    BY <1>1, <2>1, Places DEF PlaceByLabel, PlaceIs
  <2>3. Position(i) = At(1, 0, "loop")
    BY <2>2, EntryPlaces
  <2>4. QED
    BY <2>3 DEF At, Kernel!Start
<1>3. Pos = [i \in Items |-> Kernel!Start]
  BY <1>2 DEF Pos
<1>4. QED
  BY <1>1, <1>3 DEF Kernel!Init, Pos

\* Every step of the preempted kernel, and of the host between its runs, is a step of
\* the kernel or none.
LEMMA StepsOfKernel == BInv /\ [Next]_vars => [Kernel!Next]_(Kernel!vars)
<1> SUFFICES ASSUME BInv, [Next]_vars PROVE [Kernel!Next]_(Kernel!vars)
  OBVIOUS
<1>1. /\ TypeOK /\ \A i \in Items : ItemIsRight(i)
      /\ \A g \in Groups : FreedTogether(g)
  BY DEF BInv, Barriers
<1>2. CASE \E i \in Items : ItemStep(i)
  <2>1. PICK i \in Items : ItemStep(i)
    BY <1>2
  <2>2. OnlyMoves(i) /\ trips' = trips
    BY <1>1, <2>1, ItemStepKeeps DEF OnlyMoves
  <2>3. CASE Loop(i) \/ CallBarrier(i) \/ Pass(i) \/ Advance(i)
    <3>1. Kernel!Iterate(i) \/ Kernel!Arrive(i) \/ Kernel!Pass(i) \/ Kernel!Advance(i)
      BY <2>3, LoopIterates, CallArrives, PassPasses, AdvanceAdvances
    <3>2. QED
      BY <2>2, <3>1 DEF Kernel!Next
  <2>4. CASE ~(Loop(i) \/ CallBarrier(i) \/ Pass(i) \/ Advance(i))
    <3>1. Position(i)' = Position(i)
      BY <1>1, <2>1, <2>4, EnterItem, DispatchItem, LookItem, UncountItem, BodyEndItem, ExitItem,
         NumberItem, StoreItem DEF ItemStep, KeepsPlace
    <3>2. \A j \in Items : j # i => Position(j)' = Position(j)
      BY <2>2, UnmovedStays DEF OnlyMoves
    <3>3. QED
      BY <2>2, <3>1, <3>2, PosStays
  <2>5. QED
    BY <2>3, <2>4
<1>3. CASE \E g \in Groups : BarrierOpens(g)
  <2>1. PICK g \in Groups : BarrierOpens(g)
    BY <1>3
  <2>2. trips' = trips /\ \A j \in Items : Position(j)' = Position(j)
    BY <1>1, <2>1, OpenItems, OpenEffects
  <2>3. QED
    BY <2>2, PosStays
<1>4. CASE ResumeOrFinish
  <2>1. \A j \in Items : Position(j)' = Position(j)
    BY <1>1, <1>4, ResumeItems
  <2>2. trips' = trips
    BY <1>4 DEF ResumeOrFinish, kernel
  <2>3. QED
    BY <2>1, <2>2, PosStays
<1>5. CASE UNCHANGED vars
  <2>1. trips' = trips /\ \A i \in Items : Unmoved(i)
    BY <1>1, <1>5 DEF TypeOK, vars, kernel, saved, shared, Unmoved
  <2>2. QED
    BY <2>1, UnmovedStays, PosStays
<1>6. QED
  BY <1>2, <1>3, <1>4, <1>5 DEF Next

\* However often the clock preempts it and the host resumes it, the kernel makes every
\* iteration once and in order, and no work-item goes on behind a barrier that one of
\* its group has not come to.
THEOREM PreemptionIsHidden == Spec => IsTheKernel
<1>1. Spec => Kernel!Spec
  BY StartsAsKernel, StepsOfKernel, BAlways, PTL DEF Spec, Kernel!Spec
<1>2. QED
  BY <1>1 DEF IsTheKernel

-----------------------------------------------------------------------------
(* The words of a group: the steps of a work-item.                          *)

\* Who has numbered itself, and the stop that counts them.
LEMMA FinalStopIsZero ==
  ASSUME TypeOK, NEW g \in Groups, usesLocal, FinalStopCounts(g), AllIn(g, Numbered)
  PROVE  finalStop[g] = 0
<1>1. OutOf(g) = LocalIds /\ 0 \in LocalIds
  BY ItemParts, ConstantsAssumption DEF OutOf, AllIn, LocalIds
<1>2. finalStop[g] = GroupSize - Cardinality(LocalIds)
  BY <1>1, ItemParts DEF FinalStopCounts, AllIn, Numbered
<1>3. Cardinality(LocalIds) = GroupSize
  BY LocalCount
<1>4. QED
  BY <1>2, <1>3, ConstantsAssumption

\* The final stop counts the work-items that have numbered themselves.
LEMMA ItemStepFinalStop ==
  ASSUME TypeOK, NEW i \in Items, ItemStep(i), OnlyMoves(i), InStep(i[1]), FinalStopCounts(i[1])
  PROVE  FinalStopCounts(i[1])'
<1>g. /\ i[1] \in Groups /\ i \in Group(i[1]) /\ i = <<i[1], i[2]>> /\ i[2] \in LocalIds
      /\ 0 \in LocalIds /\ <<i[1], 0>> \in Group(i[1]) /\ LocalId(i) = i[2]
      /\ usesLocal' = usesLocal
      /\ \A j \in Group(i[1]) : j # i => pc'[j] = pc[j]
  <2>1. 0 \in LocalIds
    BY ConstantsAssumption DEF LocalIds
  <2>2. QED
    BY <2>1, ItemParts DEF OnlyMoves, Unmoved
<1>1. OutOf(i[1]) \in SUBSET LocalIds
  BY DEF OutOf
<1>u. SUFFICES ASSUME usesLocal, pc'[<<i[1], 0>>] # "entry"
               PROVE  finalStop'[i[1]] = GroupSize - Cardinality(OutOf(i[1])')
  BY <1>g DEF FinalStopCounts
<1>2. CASE Enter(i)
  <2>1. AllIn(i[1], Entering) /\ pc'[i] = "init"
    BY <1>g, <1>2, StepCases DEF Enter, Goto, TypeOK, Entering
  <2>2. \A j \in Group(i[1]) : pc[j] \notin Numbered /\ pc'[j] \notin Numbered
    BY <1>g, <2>1 DEF AllIn, Entering, Numbered
  <2>3. OutOf(i[1])' = {} /\ OutOf(i[1]) = {}
    BY <1>g, <2>2, ItemParts DEF OutOf
  <2>4. CASE i[2] = 0
    <3>1. finalStop'[i[1]] = GroupSize
      BY <1>g, <1>2, <2>4 DEF Enter, InitFinalStop, TypeOK
    <3>2. QED
      BY <2>3, <3>1, LocalCount, ConstantsAssumption
  <2>5. CASE i[2] # 0
    <3>1. finalStop'[i[1]] = finalStop[i[1]]
      BY <1>g, <1>2, <2>5 DEF Enter, InitFinalStop
    <3>2. pc[<<i[1], 0>>] # "entry"
      BY <1>g, <1>u, <2>5
    <3>3. QED
      BY <1>u, <2>3, <3>1, <3>2 DEF FinalStopCounts
  <2>6. QED
    BY <2>4, <2>5
<1>3. CASE Number(i)
  <2>1. pc[i] = "number" /\ pc'[i] = "numbered" /\ finalStop'[i[1]] = finalStop[i[1]] - 1
    BY <1>g, <1>3 DEF Number, Goto, TypeOK
  <2>2. pc[<<i[1], 0>>] # "entry"
    BY <1>g, <1>u, <2>1
  <2>3. OutOf(i[1])' = OutOf(i[1]) \cup {i[2]}
    BY <1>g, <2>1, ItemParts DEF OutOf, Numbered
  <2>4. i[2] \notin OutOf(i[1])
    BY <1>g, <2>1 DEF OutOf, Numbered
  <2>5. Cardinality(OutOf(i[1])') = Cardinality(OutOf(i[1])) + 1
    BY <1>g, <1>1, <2>3, <2>4, LocalCount
  <2>6. Cardinality(OutOf(i[1])) \in Int /\ GroupSize \in Int
    BY <1>1, LocalCount, ConstantsAssumption
  <2>7. finalStop[i[1]] = GroupSize - Cardinality(OutOf(i[1]))
    BY <1>u, <2>2 DEF FinalStopCounts
  <2>8. QED
    BY <2>1, <2>5, <2>6, <2>7
<1>4. CASE ~Enter(i) /\ ~Number(i)
  <2>1. finalStop' = finalStop
    BY <1>4 DEF ItemStep, Dispatch, Loop, CallBarrier, Look, Uncount, Pass, BodyEnd, Advance, Exit, Store,
                shared
  <2>2. pc[i] # "entry" /\ (pc'[i] \in Numbered <=> pc[i] \in Numbered)
    <3>1. CASE Exit(i)
      BY <1>u, <3>1 DEF Exit, Goto, TypeOK, Numbered
    <3>2. CASE ~Exit(i)
      <4>1. pc[i] \notin {"entry", "number", "exit"}
        BY <1>4, <3>2 DEF ItemStep, Dispatch, Loop, CallBarrier, Look, Uncount, Pass, BodyEnd, Advance, Store
      <4>2. QED
        BY <4>1, ItemStepLabels DEF LabelStep, Numbered
    <3>3. QED
      BY <3>1, <3>2
  <2>3. OutOf(i[1])' = OutOf(i[1])
    BY <1>g, <2>2, ItemParts DEF OutOf
  <2>4. pc[<<i[1], 0>>] # "entry"
    BY <1>g, <1>u, <2>2
  <2>5. QED
    BY <1>u, <2>1, <2>3, <2>4 DEF FinalStopCounts
<1>5. QED
  BY <1>2, <1>3, <1>4

\* A batch numbers itself downwards from its size.
LEMMA ItemStepBatches ==
  ASSUME TypeOK, NEW i \in Items, ItemStep(i), OnlyMoves(i), InStep(i[1]), BatchesAreRight(i[1])
  PROVE  BatchesAreRight(i[1])'
<1>g. /\ i[1] \in Groups /\ i \in Group(i[1]) /\ usesLocal' = usesLocal
      /\ finalStop[i[1]] \in Int
      /\ \A j \in Group(i[1]) : j \in Items /\ prv[j].batch \in Int /\ prv[j].exitId \in Int
      /\ \A j \in Group(i[1]) : j # i => pc'[j] = pc[j] /\ prv'[j] = prv[j]
  BY ItemParts DEF OnlyMoves, Unmoved, TypeOK
<1>1. CASE Enter(i)
  <2>1. AllIn(i[1], Entering) /\ pc'[i] = "init"
    BY <1>g, <1>1, StepCases DEF Enter, Goto, TypeOK, Entering
  <2>2. \A j \in Group(i[1]) : pc'[j] \notin Numbering \cup {"batched"}
    BY <1>g, <2>1 DEF AllIn, Entering, Numbering
  <2>3. QED
    BY <2>2 DEF BatchesAreRight
<1>2. CASE Exit(i)
  <2>1. AllIn(i[1], Working) \/ AllIn(i[1], Leaving)
    BY <1>g, <1>2, StepCases DEF Exit
  <2>2. \A j \in Group(i[1]) : pc'[j] \notin Numbering
    BY <1>g, <1>2, <2>1 DEF Exit, Goto, TypeOK, AllIn, Working, Leaving, Numbering
  <2>3. pc'[i] = "batched" => usesLocal' /\ prv'[i].batch = finalStop'[i[1]]
    BY <1>g, <1>2 DEF Exit, Goto, TypeOK, shared
  <2>4. finalStop' = finalStop
    BY <1>2 DEF Exit, shared
  <2>5. QED
    BY <1>g, <2>2, <2>3, <2>4 DEF BatchesAreRight
<1>3. CASE Number(i)
  <2>1. /\ pc[i] = "number" /\ pc'[i] = "numbered" /\ finalStop'[i[1]] = finalStop[i[1]] - 1
        /\ prv'[i].batch = prv[i].batch /\ prv'[i].exitId = finalStop[i[1]] - 1
    BY <1>g, <1>3 DEF Number, Goto, TypeOK
  <2>2. AllIn(i[1], Looking)
    BY <1>g, <2>1, StepCases
  <2>3. \A j \in Group(i[1]) : pc'[j] # "batched"
    BY <1>g, <2>1, <2>2 DEF AllIn, Looking
  <2>4. \A j \in Group(i[1]) : /\ prv'[j].batch = prv[j].batch
                               /\ pc'[j] \in Numbering <=> pc[j] \in Numbering
    BY <1>g, <2>1 DEF Numbering
  <2>5. \A j, k \in Group(i[1]) : pc'[j] \in Numbering /\ pc'[k] \in Numbering =>
          prv'[j].batch = prv'[k].batch
    BY <2>4 DEF BatchesAreRight
  <2>6. ASSUME NEW j \in Group(i[1]), pc'[j] \in Numbering,
               NEW e \in finalStop'[i[1]] .. prv'[j].batch - 1
        PROVE  \E k \in Group(i[1]) : pc'[k] = "numbered" /\ prv'[k].exitId = e
    <3>1. CASE e = finalStop[i[1]] - 1
      BY <1>g, <2>1, <3>1
    <3>2. CASE e # finalStop[i[1]] - 1
      <4>1. e \in finalStop[i[1]] .. prv[j].batch - 1
        BY <1>g, <2>1, <2>4, <2>6, <3>2
      <4>2. PICK k \in Group(i[1]) : pc[k] = "numbered" /\ prv[k].exitId = e
        BY <2>4, <2>6, <4>1 DEF BatchesAreRight
      <4>3. k # i
        BY <2>1, <4>2
      <4>4. QED
        BY <1>g, <4>2, <4>3
    <3>3. QED
      BY <3>1, <3>2
  <2>7. \A j \in Group(i[1]) : pc'[j] \in Numbering => prv'[j].batch >= 1
    BY <2>4 DEF BatchesAreRight
  <2>8. QED
    BY <2>3, <2>5, <2>6, <2>7 DEF BatchesAreRight
<1>4. CASE ~Enter(i) /\ ~Exit(i) /\ ~Number(i)
  <2>1. finalStop' = finalStop
    BY <1>4 DEF ItemStep, Dispatch, Loop, CallBarrier, Look, Uncount, Pass, BodyEnd, Advance, Store, shared
  <2>2. pc[i] \notin {"batched", "number", "numbered"} /\ pc'[i] \notin {"batched", "number", "numbered"}
    <3>1. pc[i] \notin {"entry", "number", "exit"}
      BY <1>4 DEF ItemStep, Dispatch, Loop, CallBarrier, Look, Uncount, Pass, BodyEnd, Advance, Store
    <3>2. QED
      BY <3>1, ItemStepLabels DEF LabelStep
  <2>3. \A j \in Group(i[1]) : pc'[j] \in Numbering \cup {"batched"} =>
          j # i /\ pc'[j] = pc[j] /\ prv'[j] = prv[j]
    BY <1>g, <2>2 DEF Numbering
  <2>4. \A k \in Group(i[1]) : pc[k] = "numbered" => pc'[k] = "numbered" /\ prv'[k] = prv[k]
    BY <1>g, <2>2
  <2>5. QED
    BY <1>g, <2>1, <2>3, <2>4 DEF BatchesAreRight
<1>5. QED
  BY <1>1, <1>2, <1>3, <1>4

\* Whoever saves its share leaves the rest to the others.
LEMMA ItemStepStores ==
  ASSUME TypeOK, NEW i \in Items, ItemStep(i), OnlyMoves(i), FinalStopCounts(i[1]),
         StoresAreRight(i[1])
  PROVE  StoresAreRight(i[1])'
<1>g. /\ i[1] \in Groups /\ i \in Group(i[1]) /\ usesLocal' = usesLocal
      /\ \A j \in Group(i[1]) : j \in Items
      /\ \A j \in Group(i[1]) : j # i => pc'[j] = pc[j] /\ prv'[j] = prv[j]
  BY ItemParts DEF OnlyMoves, Unmoved
<1>1. SUFFICES ASSUME usesLocal, AllIn(i[1], {"store", "left"})', NEW j \in Group(i[1])
               PROVE  \/ savedLocal'[j] = mem'[j]
                      \/ \E k \in Group(i[1]) : pc'[k] = "store" /\ j \in Share(k)'
  BY <1>g DEF StoresAreRight
<1>2. Store(i)
  <2>1. pc'[i] \in {"store", "left"}
    BY <1>g, <1>1 DEF AllIn
  <2>2. pc[i] \in {"exit", "store"}
    BY <2>1, ItemStepLabels DEF LabelStep
  <2>3. ~Exit(i)
    BY <1>1, <2>1 DEF Exit, Goto, TypeOK
  <2>4. QED
    BY <2>2, <2>3 DEF ItemStep, Enter, Dispatch, Loop, CallBarrier, Look, Uncount, Pass, BodyEnd, Advance,
                      Number
<1>3. pc[i] = "store" /\ pc'[i] = "left" /\ prv' = prv /\ mem' = mem
  BY <1>2 DEF Store, Goto, TypeOK, shared
<1>4. AllIn(i[1], {"store", "left"})
  BY <1>g, <1>1, <1>3 DEF AllIn
<1>5. finalStop[i[1]] = 0
  <2>1. AllIn(i[1], Numbered)
    BY <1>4 DEF AllIn, Numbered
  <2>2. QED
    BY <1>g, <1>1, <2>1, FinalStopIsZero
<1>6. savedLocal'[j] = IF j \in Share(i) THEN mem[j] ELSE savedLocal[j]
  BY <1>g, <1>2, <1>5 DEF Store
<1>7. \A k : Share(k)' = Share(k)
  BY <1>3 DEF Share
<1>8. savedLocal[j] = mem[j] \/ \E k \in Group(i[1]) : pc[k] = "store" /\ j \in Share(k)
  BY <1>1, <1>4 DEF StoresAreRight
<1>9. QED
  BY <1>g, <1>3, <1>6, <1>7, <1>8

\* Entering, a work-item of a group that has run before loads the words; one of a
\* group that has not finds them unset, as they have to be.
LEMMA EnterWords ==
  ASSUME TypeOK, \A j \in Items : ItemIsRight(j), NEW i \in Items, Enter(i), InStep(i[1]),
         WordsAreRight(i[1])
  PROVE  WordsAreRight(i[1])'
<1>g. /\ i[1] \in Groups /\ i \in Group(i[1]) /\ GroupOf(i) = Group(i[1])
      /\ \A j \in Group(i[1]) : j \in Items
  BY ItemParts
<1>1. /\ pc[i] = "entry" /\ pc'[i] = "init" /\ usesLocal' = usesLocal
      /\ hdr' = hdr /\ savedLocal' = savedLocal
      /\ \A j \in Items : j # i => pc'[j] = pc[j]
      /\ mem' = IF usesLocal /\ hdr[i] # Fresh
                THEN [j \in Items |-> IF j \in Group(i[1]) THEN savedLocal[j] ELSE mem[j]]
                ELSE mem
  BY <1>g DEF Enter, Goto, TypeOK, kernel, saved, LoadsLocal
<1>2. AllIn(i[1], Entering) /\ AllIn(i[1], Entering)'
  <2>1. AllIn(i[1], Entering)
    BY <1>g, <1>1, StepCases DEF Entering
  <2>2. QED
    BY <1>g, <1>1, <2>1 DEF AllIn, Entering
<1>3. \A j \in Group(i[1]) : Word(j)' = Word(j)
  <2>1. \A j \in Items : Arrived(j)' = Arrived(j)
    BY EnterItem, UnmovedStays DEF KeepsPlace, OnlyMoves
  <2>2. QED
    BY <1>g, <2>1 DEF Word
<1>4. CASE ~usesLocal
  BY <1>1, <1>3, <1>4 DEF WordsAreRight
<1>5. CASE usesLocal
  <2>1. /\ \A j \in Group(i[1]) : savedLocal[j] = Word(j) /\ mem[j] \in {Garbage, Word(j)}
        /\ \A k, j \in Group(i[1]) : pc[k] = "init" => mem[j] = Word(j)
        /\ \A k, j \in Group(i[1]) : hdr[k] = Fresh => hdr[j] = Fresh
    BY <1>2, <1>5 DEF WordsAreRight
  <2>2. \A j \in Group(i[1]) : mem'[j] = Word(j)
    <3>1. CASE hdr[i] # Fresh
      BY <1>g, <1>1, <1>5, <2>1, <3>1
    <3>2. CASE hdr[i] = Fresh
      <4>1. \A j \in Group(i[1]) : hdr[j] = Fresh /\ pc[j] \notin InSource
        BY <1>g, <1>2, <2>1, <3>2 DEF AllIn, Entering, InSource, AtBarrier, Behind
      <4>2. \A j \in Group(i[1]) : Arrived(j) = EntryArrived(Fresh, savedPrv[j])
        BY <4>1, Places DEF PlaceByLabel, PlaceIs
      <4>3. \A j \in Group(i[1]) : Word(j) = Garbage
        BY <4>2, EntryPlaces DEF Word
      <4>4. QED
        BY <1>1, <2>1, <3>2, <4>3
    <3>3. QED
      BY <3>1, <3>2
  <2>3. QED
    BY <1>1, <1>2, <1>3, <1>5, <2>1, <2>2 DEF WordsAreRight
<1>6. QED
  BY <1>4, <1>5

\* Nobody else touches the words but who writes its own.
LEMMA ItemStepWords ==
  ASSUME TypeOK, \A j \in Items : ItemIsRight(j), NEW i \in Items, ItemStep(i), OnlyMoves(i),
         InStep(i[1]), WordsAreRight(i[1])
  PROVE  WordsAreRight(i[1])'
<1>g. /\ i[1] \in Groups /\ i \in Group(i[1]) /\ usesLocal' = usesLocal
      /\ \A j \in Group(i[1]) : j \in Items
  BY ItemParts DEF OnlyMoves
<1>1. CASE Enter(i)
  BY <1>1, EnterWords
<1>2. CASE ~Enter(i)
  <2>1. pc[i] \notin Entering /\ pc'[i] \notin Entering
    <3>1. pc[i] # "entry"
      BY <1>2 DEF ItemStep, Dispatch, Loop, CallBarrier, Look, Uncount, Pass, BodyEnd, Advance, Exit,
                  Number, Store
    <3>2. QED
      BY <3>1, ItemStepLabels DEF LabelStep, Entering
  <2>2. ~AllIn(i[1], Entering) /\ ~AllIn(i[1], Entering)'
    BY <1>g, <2>1 DEF AllIn
  <2>3. \A j \in Group(i[1]) : mem[j] = Word(j)
    BY <2>2 DEF WordsAreRight
  <2>4. \A j \in Group(i[1]) : mem'[j] = Word(j)'
    <3>1. CASE CallBarrier(i)
      <4>1. Arrived(i)' = prv[i].round /\ prv[i].round \in 1 .. NumOfRound
        BY <3>1, CallBarrierItem
      <4>2. Word(i)' = prv[i].round
        BY <4>1, ConstantsAssumption DEF Word
      <4>3. /\ mem'[i] = prv[i].round
            /\ \A j \in Items : j # i => mem'[j] = mem[j]
        BY <3>1 DEF CallBarrier, TypeOK
      <4>4. \A j \in Items : j # i => Word(j)' = Word(j)
        BY ItemStepKeeps DEF Word
      <4>5. QED
        BY <1>g, <2>3, <4>2, <4>3, <4>4
    <3>2. CASE ~CallBarrier(i)
      <4>1. mem' = mem
        BY <1>2, <3>2 DEF ItemStep, Dispatch, Loop, Look, Uncount, Pass, BodyEnd, Advance, Exit, Number,
                          Store, shared
      <4>2. \A j \in Items : Word(j)' = Word(j)
        <5>1. \A j \in Items : Arrived(j)' = Arrived(j)
          BY <3>2, ItemStepKeeps
        <5>2. QED
          BY <5>1 DEF Word
      <4>3. QED
        BY <1>g, <2>3, <4>1, <4>2
    <3>3. QED
      BY <3>1, <3>2
  <2>5. QED
    BY <2>2, <2>4 DEF WordsAreRight
<1>3. QED
  BY <1>1, <1>2

\* The part of the invariant about words, for the steps of a work-item.
LEMMA ItemStepLocals ==
  ASSUME BInv, NEW i \in Items, ItemStep(i), Locals(i[1])
  PROVE  Locals(i[1])'
<1>1. /\ TypeOK /\ (\A j \in Items : ItemIsRight(j)) /\ OnlyMoves(i) /\ InStep(i[1])
  BY ItemStepKeeps, ItemParts DEF BInv, Barriers
<1>2. QED
  BY <1>1, ItemStepFinalStop, ItemStepBatches, ItemStepStores, ItemStepWords DEF Locals

-----------------------------------------------------------------------------
(* The words of a group: openings, and the host.                            *)

\* Every word is in the share of the number that its local id leaves modulo the size
\* of the batch.
LEMMA SharesCover ==
  ASSUME NEW l \in Nat, NEW n \in Nat \ {0}
  PROVE  l % n \in 0 .. n - 1 /\ l >= (l % n) /\ (l - (l % n)) % n = 0
<1>1. l % n \in 0 .. n - 1 /\ l = n * (l \div n) + (l % n) /\ l \div n \in Nat
  OBVIOUS
<1>2. l >= (l % n)
  OBVIOUS
<1>3. l - (l % n) = n * (l \div n)
  BY <1>1
<1>4. \A k \in Nat : (n * k) % n = 0
  OBVIOUS
<1>5. (n * (l \div n)) % n = 0
  BY <1>1, <1>4
<1>6. QED
  BY <1>1, <1>2, <1>3, <1>5

\* A batch that can number itself has somebody in it.
LEMMA OpenBatches ==
  ASSUME TypeOK, NEW g \in Groups, BarrierOpens(g), InStep(g), FinalStopCounts(g), BatchesAreRight(g)
  PROVE  BatchesAreRight(g)'
<1>g. /\ prv' = prv /\ finalStop' = finalStop /\ usesLocal' = usesLocal
      /\ \A j \in Group(g) : j \in Items /\ OpenStep(pc[j], pc'[j])
  BY OpenEffects, ItemParts
<1>1. \A j \in Group(g) : pc'[j] \notin {"batched", "numbered"} /\ (pc'[j] = "number" => pc[j] = "batched")
  BY <1>g DEF OpenStep
<1>2. ASSUME NEW j \in Group(g), pc'[j] = "number"
      PROVE  usesLocal /\ prv[j].batch = finalStop[g] /\ finalStop[g] >= 1
  <2>1. pc[j] = "batched" /\ usesLocal /\ prv[j].batch = finalStop[g]
    BY <1>1, <1>2 DEF BatchesAreRight
  <2>2. pc[<<g, 0>>] # "entry"
    <3>1. <<g, 0>> \in Group(g)
      BY ItemParts, ConstantsAssumption DEF LocalIds
    <3>2. QED
      BY <1>g, <3>1 DEF OpenStep
  <2>3. finalStop[g] = GroupSize - Cardinality(OutOf(g))
    BY <2>1, <2>2 DEF FinalStopCounts
  <2>4. OutOf(g) # LocalIds
    <3>1. j[2] \in LocalIds /\ j = <<g, j[2]>>
      BY ItemParts
    <3>2. j[2] \notin OutOf(g)
      BY <2>1, <3>1 DEF OutOf, Numbered
    <3>3. QED
      BY <3>1, <3>2
  <2>5. OutOf(g) \in SUBSET LocalIds
    BY DEF OutOf
  <2>6. Cardinality(OutOf(g)) \in 0 .. GroupSize /\ Cardinality(OutOf(g)) # GroupSize
    BY <2>4, <2>5, LocalCount
  <2>7. finalStop[g] >= 1
    BY <2>3, <2>6, ConstantsAssumption
  <2>8. QED
    BY <2>1, <2>7
<1>3. \A j \in Group(g) : pc'[j] \in Numbering => pc'[j] = "number"
  BY <1>1 DEF Numbering
<1>4. \A j, k \in Group(g) : pc'[j] \in Numbering /\ pc'[k] \in Numbering => prv'[j].batch = prv'[k].batch
  BY <1>g, <1>2, <1>3
<1>5. ASSUME NEW j \in Group(g), pc'[j] \in Numbering
      PROVE  prv'[j].batch >= 1 /\ finalStop'[g] .. prv'[j].batch - 1 = {}
  <2>1. prv'[j].batch = finalStop'[g] /\ finalStop[g] >= 1 /\ finalStop' = finalStop
    BY <1>g, <1>2, <1>3, <1>5
  <2>2. finalStop[g] \in Int
    BY DEF TypeOK
  <2>3. QED
    BY <2>1, <2>2
<1>6. QED
  BY <1>1, <1>4, <1>5 DEF BatchesAreRight

\* When the last batch has numbered itself, its shares are all the words.
LEMMA OpenStores ==
  ASSUME TypeOK, NEW g \in Groups, BarrierOpens(g), InStep(g), FinalStopCounts(g), BatchesAreRight(g)
  PROVE  StoresAreRight(g)'
<1>g. /\ prv' = prv /\ usesLocal' = usesLocal
      /\ \A j \in Group(g) : j \in Items /\ OpenStep(pc[j], pc'[j])
      /\ \E j \in Group(g) : pc[j] # "left"
  BY OpenEffects, ItemParts
<1>1. SUFFICES ASSUME usesLocal, AllIn(g, {"store", "left"})', NEW j \in Group(g)
               PROVE  \E i \in Group(g) : pc'[i] = "store" /\ j \in Share(i)'
  BY <1>g DEF StoresAreRight
<1>2. \A i \in Group(g) : \/ pc[i] = "numbered" /\ pc'[i] = "store"
                          \/ pc[i] = "left" /\ pc'[i] = "left"
  BY <1>g, <1>1 DEF AllIn, OpenStep
<1>3. finalStop[g] = 0
  <2>1. AllIn(g, Numbered)
    BY <1>2 DEF AllIn, Numbered
  <2>2. FinalStopCounts(g) /\ usesLocal
    BY <1>1
  <2>3. QED
    BY <2>1, <2>2, FinalStopIsZero
<1>4. PICK k \in Group(g) : pc[k] = "numbered"
  BY <1>g, <1>2
<1>5. PICK n \in Nat \ {0} : n = prv[k].batch
  <2>1. prv[k].batch >= 1
    BY <1>4 DEF BatchesAreRight, Numbering
  <2>2. prv[k].batch \in Int
    BY ItemParts DEF TypeOK
  <2>3. QED
    BY <2>1, <2>2
<1>6. j[2] \in Nat /\ LocalId(j) = j[2]
  BY ItemParts, ConstantsAssumption DEF LocalIds
<1>7. PICK e \in 0 .. n - 1 : e = j[2] % n /\ j[2] >= e /\ (j[2] - e) % n = 0
  BY <1>5, <1>6, SharesCover
<1>8. PICK i \in Group(g) : pc[i] = "numbered" /\ prv[i].exitId = e
  <2>1. e \in finalStop[g] .. prv[k].batch - 1
    BY <1>3, <1>5, <1>7
  <2>2. QED
    BY <1>4, <2>1 DEF BatchesAreRight, Numbering
<1>9. prv[i].batch = n
  BY <1>4, <1>5, <1>8 DEF BatchesAreRight, Numbering
<1>10. j \in GroupOf(i)
  BY ItemParts
<1>11. j \in Share(i)'
  <2>1. LocalId(j) >= prv'[i].exitId /\ (LocalId(j) - prv'[i].exitId) % prv'[i].batch = 0
    BY <1>g, <1>6, <1>7, <1>8, <1>9
  <2>2. QED
    BY <1>10, <2>1 DEF Share
<1>12. QED
  BY <1>2, <1>8, <1>11

\* An opening lets nobody into the kernel and nobody number itself.
LEMMA OpenFinalStop ==
  ASSUME TypeOK, NEW g \in Groups, BarrierOpens(g), FinalStopCounts(g)
  PROVE  FinalStopCounts(g)'
<1>1. /\ usesLocal' = usesLocal /\ finalStop' = finalStop
      /\ \A l \in LocalIds : OpenStep(pc[<<g, l>>], pc'[<<g, l>>])
  BY OpenEffects, ItemParts
<1>2. \A l \in LocalIds : pc'[<<g, l>>] \in Numbered <=> pc[<<g, l>>] \in Numbered
  BY <1>1 DEF OpenStep, Numbered
<1>3. OutOf(g)' = OutOf(g)
  BY <1>2 DEF OutOf
<1>4. pc[<<g, 0>>] # "entry"
  <2>1. 0 \in LocalIds
    BY ConstantsAssumption DEF LocalIds
  <2>2. QED
    BY <1>1, <2>1 DEF OpenStep
<1>5. QED
  BY <1>1, <1>3, <1>4 DEF FinalStopCounts

\* After the prologue's barrier the words of the group are there.
LEMMA OpenWords ==
  ASSUME TypeOK, \A j \in Items : ItemIsRight(j), NEW g \in Groups, BarrierOpens(g), WordsAreRight(g)
  PROVE  WordsAreRight(g)'
<1>g. /\ usesLocal' = usesLocal /\ mem' = mem
      /\ \A j \in Group(g) : j \in Items /\ OpenStep(pc[j], pc'[j])
      /\ \E j \in Group(g) : pc[j] # "left"
  BY OpenEffects, ItemParts
<1>1. PICK k \in Group(g) : pc[k] # "left"
  BY <1>g
<1>2. ~AllIn(g, Entering)'
  BY <1>g, <1>1 DEF AllIn, OpenStep, Entering
<1>3. \A j \in Group(g) : mem[j] = Word(j)
  <2>1. CASE usesLocal /\ AllIn(g, Entering)
    <3>1. pc[k] = "init"
      BY <1>g, <1>1, <2>1 DEF AllIn, OpenStep, Entering
    <3>2. QED
      BY <1>1, <2>1, <3>1 DEF WordsAreRight
  <2>2. CASE ~usesLocal \/ ~AllIn(g, Entering)
    BY <2>2 DEF WordsAreRight
  <2>3. QED
    BY <2>1, <2>2
<1>4. \A j \in Group(g) : Word(j)' = Word(j)
  <2>1. \A j \in Group(g) : Arrived(j)' = Arrived(j)
    BY <1>g, OpenItems
  <2>2. QED
    BY <2>1 DEF Word
<1>5. QED
  BY <1>2, <1>g, <1>3, <1>4 DEF WordsAreRight

\* The part of the invariant about words, for the group whose barrier opens.
LEMMA OpenLocals ==
  ASSUME BInv, NEW g \in Groups, BarrierOpens(g), Locals(g)
  PROVE  Locals(g)'
<1>1. TypeOK /\ (\A j \in Items : ItemIsRight(j)) /\ InStep(g)
  BY DEF BInv, Barriers
<1>2. QED
  BY <1>1, OpenFinalStop, OpenBatches, OpenStores, OpenWords DEF Locals

\* A group has a work-item, the one that sets its final stop.
LEMMA FirstOfGroup == \A g \in Groups : <<g, 0>> \in Group(g)
<1>1. 0 \in LocalIds
  BY ConstantsAssumption DEF LocalIds
<1>2. QED
  BY <1>1, ItemParts

\* At the end of a run the copy holds the words of the group.
LEMMA CopyIsWhole ==
  ASSUME NEW g \in Groups, RunIsOver, Locals(g)
  PROVE  \A j \in Group(g) : mem[j] = Word(j) /\ (usesLocal => savedLocal[j] = Word(j))
<1>1. \A j \in Group(g) : pc[j] = "left"
  BY ItemParts DEF RunIsOver
<1>2. PICK k : k \in Group(g)
  BY FirstOfGroup
<1>3. ~AllIn(g, Entering)
  BY <1>1, <1>2 DEF AllIn, Entering
<1>4. \A j \in Group(g) : mem[j] = Word(j)
  BY <1>3 DEF Locals, WordsAreRight
<1>5. AllIn(g, {"store", "left"})
  BY <1>1 DEF AllIn
<1>6. usesLocal => \A j \in Group(g) : savedLocal[j] = mem[j]
  BY <1>1, <1>5 DEF Locals, StoresAreRight
<1>7. QED
  BY <1>4, <1>6

\* The part of the invariant about words, from one run to the next.
LEMMA ResumeLocals ==
  ASSUME BInv, ResumeOrFinish, NEW g \in Groups, Locals(g)
  PROVE  Locals(g)'
<1>1. /\ TypeOK /\ (\A j \in Items : ItemIsRight(j)) /\ (\A h \in Groups : FreedTogether(h))
  BY DEF BInv, Barriers
<1>2. CASE Progress = 0
  BY <1>1, <1>2, FinishStays, GroupStaysRight
<1>3. CASE Progress # 0
  <2>1. \A j \in Group(g) : j \in Items /\ pc'[j] = "entry"
    BY <1>3, ItemParts DEF ResumeOrFinish
  <2>2. PICK k : k \in Group(g) /\ k = <<g, 0>>
    BY FirstOfGroup
  <2>3. FinalStopCounts(g)'
    BY <2>1, <2>2 DEF FinalStopCounts
  <2>4. BatchesAreRight(g)'
    BY <2>1 DEF BatchesAreRight, Numbering
  <2>5. StoresAreRight(g)'
    BY <2>1, <2>2 DEF StoresAreRight, AllIn
  <2>6. /\ \A j \in Group(g) : mem[j] = Word(j) /\ (usesLocal => savedLocal[j] = Word(j))
        /\ usesLocal' = usesLocal /\ savedLocal' = savedLocal
        /\ \A j \in Items : mem'[j] = IF usesLocal THEN Garbage ELSE mem[j]
    BY <1>3, CopyIsWhole DEF ResumeOrFinish, kernel
  <2>7. \A j \in Group(g) : Word(j)' = Word(j) /\ hdr'[j] # Fresh
    <3>1. \A j \in Group(g) : Arrived(j)' = Arrived(j) /\ hdr'[j] # Fresh
      BY <1>1, <2>1, ResumeItems
    <3>2. QED
      BY <3>1 DEF Word
  <2>8. \A j \in Group(g) : pc'[j] # "init"
    BY <2>1
  <2>9. AllIn(g, Entering)'
    BY <2>1 DEF AllIn, Entering
  <2>10. WordsAreRight(g)'
    BY <2>1, <2>6, <2>7, <2>8, <2>9 DEF WordsAreRight
  <2>11. QED
    BY <2>3, <2>4, <2>5, <2>10 DEF Locals
<1>4. QED
  BY <1>2, <1>3

\* The first run starts with words that nobody has written.
LEMMA InitLocals ==
  ASSUME Init, NEW g \in Groups
  PROVE  Locals(g)
<1>1. \A j \in Group(g) : /\ pc[j] = "entry" /\ hdr[j] = Fresh
                          /\ mem[j] = Garbage /\ savedLocal[j] = Garbage
  BY ItemParts DEF Init
<1>2. PICK k : k \in Group(g) /\ k = <<g, 0>>
  BY FirstOfGroup
<1>3. FinalStopCounts(g)
  BY <1>1, <1>2 DEF FinalStopCounts
<1>4. BatchesAreRight(g)
  BY <1>1 DEF BatchesAreRight, Numbering
<1>5. StoresAreRight(g)
  BY <1>1, <1>2 DEF StoresAreRight, AllIn
<1>6. \A j \in Group(g) : Word(j) = Garbage
  <2>1. \A j \in Group(g) : pc[j] \notin InSource
    BY <1>1 DEF InSource, AtBarrier, Behind
  <2>2. \A j \in Group(g) : Arrived(j) = EntryArrived(Fresh, savedPrv[j])
    BY <1>1, <2>1, Places DEF PlaceByLabel, PlaceIs
  <2>3. QED
    BY <2>2, EntryPlaces DEF Word
<1>7. WordsAreRight(g)
  BY <1>1, <1>6 DEF WordsAreRight
<1>8. QED
  BY <1>3, <1>4, <1>5, <1>7 DEF Locals

\* The inductive invariant: everything holds in the first state ...
LEMMA IInit == Init => IInv
  BY BInit, InitLocals DEF IInv, BInv

\* ... and after every step.
LEMMA INext == IInv /\ [Next]_vars => IInv'
<1> SUFFICES ASSUME IInv, [Next]_vars PROVE IInv'
  OBVIOUS
<1>1. BInv /\ BInv' /\ TypeOK /\ \A g \in Groups : Locals(g)
  BY BNext DEF IInv, BInv
<1>2. CASE \E i \in Items : ItemStep(i)
  <2>1. PICK i \in Items : ItemStep(i)
    BY <1>2
  <2>2. OnlyMoves(i) /\ i[1] \in Groups
    BY <1>1, <2>1, ItemStepKeeps, ItemParts DEF BInv
  <2>3. Locals(i[1])'
    BY <1>1, <2>1, <2>2, ItemStepLocals
  <2>4. ASSUME NEW g \in Groups, g # i[1] PROVE Locals(g)'
    <3>1. GroupStays(g)
      BY <1>1, <2>1, <2>2, <2>4, ItemStepElsewhere
    <3>2. QED
      BY <1>1, <3>1, GroupStaysRight
  <2>5. QED
    BY <1>1, <2>3, <2>4 DEF IInv, BInv
<1>3. CASE \E g \in Groups : BarrierOpens(g)
  <2>1. PICK g \in Groups : BarrierOpens(g)
    BY <1>3
  <2>2. Locals(g)'
    BY <1>1, <2>1, OpenLocals
  <2>3. ASSUME NEW h \in Groups, h # g PROVE Locals(h)'
    <3>1. GroupStays(h)
      BY <1>1, <2>1, <2>3, OpenElsewhere
    <3>2. QED
      BY <1>1, <3>1, GroupStaysRight
  <2>4. QED
    BY <1>1, <2>2, <2>3 DEF IInv, BInv
<1>4. CASE ResumeOrFinish
  <2>1. \A g \in Groups : Locals(g)'
    BY <1>1, <1>4, ResumeLocals
  <2>2. QED
    BY <1>1, <2>1 DEF IInv, BInv
<1>5. CASE UNCHANGED vars
  <2>1. \A g \in Groups : GroupStays(g)
    BY <1>5, ItemParts DEF vars, kernel, saved, shared, GroupStays, Unmoved
  <2>2. \A g \in Groups : Locals(g)'
    BY <1>1, <2>1, GroupStaysRight
  <2>3. QED
    BY <1>1, <2>2 DEF IInv, BInv
<1>6. QED
  BY <1>2, <1>3, <1>4, <1>5 DEF Next

\* A work-item has come to no more than one barrier it has not been let through.
LEMMA ArrivedBounds ==
  ASSUME BInv, NEW j \in Items, NEW r \in Nat \ {0}, Freed(j) = r
  PROVE  Arrived(j) \in {r, r + 1}
<1>1. ItemIsRight(j) /\ prv[j].round \in Int /\ savedPrv[j].round \in Int
  BY DEF BInv, TypeOK
<1>2. CASE pc[j] = "loop"
  <2>1. Arrived(j) = prv[j].round - 1 /\ Freed(j) = prv[j].round - 1
    BY <1>2, Places DEF PlaceByLabel, PlaceIs
  <2>2. QED
    BY <2>1
<1>3. CASE pc[j] \in AtBarrier
  <2>1. Arrived(j) = prv[j].round /\ Freed(j) = prv[j].round - 1
    BY <1>3, Places DEF PlaceByLabel, PlaceIs
  <2>2. QED
    BY <1>1, <2>1
<1>4. CASE pc[j] \in Behind
  <2>1. Arrived(j) = prv[j].round /\ Freed(j) = prv[j].round
    BY <1>4, Places DEF PlaceByLabel, PlaceIs, Behind
  <2>2. QED
    BY <2>1
<1>5. CASE pc[j] \notin InSource
  <2> DEFINE sp == savedPrv[j]
  <2>1. /\ EntryIsRight(hdr[j], sp, trips[j])
        /\ Freed(j) = EntryFreed(hdr[j], sp) /\ Arrived(j) = EntryArrived(hdr[j], sp)
    <3>1. EntryIsRight(hdr[j], sp, trips[j])
      BY <1>1, <1>5 DEF ItemIsRight
    <3>2. QED
      BY <1>5, <3>1, Places DEF PlaceByLabel, PlaceIs
  <2>2. CASE hdr[j] \in {Finished, Fresh, LoopNonce, OuterNonce} \cup BarrierNonces
    <3>1. Arrived(j) = Freed(j)
      BY <2>1, <2>2, EntryPlaces
    <3>2. QED
      BY <3>1
  <2>3. CASE \E n \in BarrierNonces : hdr[j] = -n
    <3>1. Freed(j) = sp.round - 1 /\ Arrived(j) = sp.round
      BY <2>1, <2>3, EntryPlaces
    <3>2. QED
      BY <1>1, <3>1
  <2>4. QED
    BY <2>1, <2>2, <2>3, EntryCases
<1>6. QED
  BY <1>2, <1>3, <1>4, <1>5 DEF InSource

\* Behind a barrier a work-item reads what its group wrote before it, whether the
\* words are __global, or __local and were saved and loaded by any number of runs in
\* between (__CLPKM_SV_LOC_AND_RET, __clpkm_load_local).
THEOREM WrittenIsRead == Spec => []WritesAreSeen
<1>1. IInv => WritesAreSeen
  <2> SUFFICES ASSUME IInv, NEW i \in Items, pc[i] = "passed", NEW j \in GroupOf(i)
               PROVE  mem[j] \in {prv[i].round, prv[i].round + 1}
    BY DEF WritesAreSeen
  <2>1. /\ i[1] \in Groups /\ i \in Group(i[1]) /\ j \in Group(i[1]) /\ i \in Items /\ j \in Items
    BY ItemParts
  <2>2. /\ BInv /\ InStep(i[1]) /\ FreedTogether(i[1]) /\ WordsAreRight(i[1]) /\ ItemIsRight(i)
    BY <2>1 DEF IInv, BInv, Barriers, Locals
  <2>3. ~AllIn(i[1], Entering)
    BY <2>1 DEF AllIn, Entering
  <2>4. mem[j] = Word(j)
    BY <2>1, <2>2, <2>3 DEF WordsAreRight
  <2>5. PICK r \in Nat \ {0} : r = prv[i].round
    <3>1. prv[i].round \in 1 .. NumOfRound
      BY <2>2, Rights DEF RightByLabel, Behind
    <3>2. QED
      BY <3>1, ConstantsAssumption
  <2>6. Freed(j) = r
    <3>1. Freed(i) = prv[i].round
      BY Places DEF PlaceByLabel, PlaceIs
    <3>2. QED
      BY <2>1, <2>2, <2>5, <3>1 DEF FreedTogether
  <2>7. Arrived(j) \in {r, r + 1}
    BY <2>1, <2>2, <2>6, ArrivedBounds
  <2>8. Word(j) = Arrived(j)
    BY <2>7 DEF Word
  <2>9. QED
    BY <2>4, <2>5, <2>7, <2>8
<1>2. QED
  BY <1>1, IInit, INext, PTL DEF Spec
=============================================================================
