----------------------------- MODULE TaskBitmap -----------------------------
(***************************************************************************)
(* The words behind the sets of the module Daemon: the bit tricks of       *)
(* src/daemon/TaskKind.hpp, the loop of UpdateProcBitmap over them and the *)
(* mask test of SetHighPrioTaskBitmap, on words of few bits.               *)
(*                                                                         *)
(* X_Y, just before X, is X with a plausible bug.                          *)
(***************************************************************************)
EXTENDS Daemon, Bitwise, FiniteSetsExt

CONSTANTS Width,           \* bits of task_bitmap
          CountWidth,      \* bits of unsigned
          NumOfTaskKind

ASSUME WidthAssumption ==
  /\ CountWidth \in 1 .. 30 /\ Width \in 1 .. 30 /\ NumOfTaskKind \in 1 .. Width
  /\ Bits = 0 .. Width - 1 /\ Kinds = 0 .. NumOfTaskKind - 1

Words == 0 .. 2^Width - 1
Ones  == 2^Width - 1

\* An unsigned count.
Wrap(n) == n % 2^CountWidth

Complement(w) == Ones - w

\* The sign bit of a count in two's complement, extended to all bits of a bitmap.
SignExtend(n) == IF n >= 2^(CountWidth - 1) THEN Ones ELSE 0

\* (SNum | -SNum) >> (width - 1): 0 for 0, -1 for anything else, cast to a bitmap.
IsNotZero_NoOr(n) == SignExtend(n)
IsNotZero(n) == SignExtend(n | Wrap(-n))

\* Bitmap ^= (Bitmap ^ IsCountNotZero) & BitMask
AssignBits(map, n, mask) == map ^^ ((map ^^ IsNotZero(n)) & mask)

\* UpdateGlobalBitmap for one kind, and the loop of UpdateProcBitmap over the
\* kinds; a count does not depend on the bitmap or on another count.
BitMask(k) == 2^k
BitOf(w, k) == (w & BitMask(k)) \div 2^k

UpdateCount(count, k, old, new) == Wrap(Wrap(count - BitOf(old, k)) + BitOf(new, k))

UpdateGlobalBitmap(map, old, new) ==
  FoldSet(LAMBDA k, m :
            AssignBits(m, UpdateCount(CountOfEachTaskKind[k], k, old, new), BitMask(k)),
          map, Kinds)

\* Mask = (1 << NUM_OF_TASK_KIND) - 1
Mask == 2^NumOfTaskKind - 1
IsDenied(word) == (word & Complement(Mask)) # 0

-----------------------------------------------------------------------------
\* The set a word stands for.
SetOf(word) == {i \in Bits : (word \div 2^i) % 2 = 1}
WordOf(set) == CHOOSE w \in Words : SetOf(w) = set

\* Whatever the daemon has on record, the next message has the same outcome on
\* words as on sets (a process that left has the word 0 from now on): the mask test
\* lets valid kinds through and nothing else, each count is the number of processes,
\* and the run level has the bits of the counts that are not zero, also of one that
\* has reached the sign bit.
WordsAreSets ==
  inbox # << >> =>
    LET new == Head(inbox).map
        word == WordOf(new)
        old == BitmapOf(Head(inbox).from)
        level == UpdateGlobalBitmap(WordOf(GlobalBitmap), WordOf(old), word)
    IN /\ IsDenied(word) <=> ~IsValid(new)
       /\ IsValid(new) =>
            /\ \A k \in Kinds : UpdateCount(CountOfEachTaskKind[k], k, WordOf(old), word)
                                  = NewCount(k, old, new)
            /\ SetOf(level) = {k \in Kinds : NewCount(k, old, new) # 0}
=============================================================================
