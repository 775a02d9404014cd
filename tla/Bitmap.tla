------------------------------- MODULE Bitmap -------------------------------
(***************************************************************************)
(* The bitmaps of a heap page (storage/bitmap.go) and the page's layout    *)
(* (InitializeHeapPage and AsHeapPage of storage/heap_page.go).            *)
(*                                                                         *)
(* A bitmap is the set of the indices of its set bits; its words are       *)
(* WordBits bits wide (64 in the code, which also makes a word 8 bytes).   *)
(***************************************************************************)
EXTENDS Integers, FiniteSets, FiniteSetsExt

CONSTANTS
  WordBits,   \* bits of a word
  PageBytes,  \* common.PageSize, in bytes
  WordBytes,  \* bytes of a word
  HeaderBytes \* what precedes the allocation bitmap

ASSUME BitmapAssumption ==
  /\ WordBits \in Nat \ {0} /\ WordBytes \in Nat \ {0}
  /\ PageBytes \in Nat /\ HeaderBytes \in Nat

NumWords(numBits) == (numBits + WordBits - 1) \div WordBits
FullWord == 0 .. WordBits - 1
WordOf(bits, k) == {i \in FullWord : k * WordBits + i \in bits}

SetBit(bits, i, on) == IF on THEN bits \cup {i} ELSE bits \ {i}
LoadBit(bits, i) == i \in bits

\* bits.TrailingZeros64(^word), for a word that is not full.
FirstZeroOf(word) == Min(FullWord \ word)

\* Word k, as read, has a zero bit that is a bit of the bitmap.
HasZero(word, k, numBits) == word # FullWord /\ k * WordBits + FirstZeroOf(word) < numBits

\* Variant: the word of the hint is not looked at again after the wrap.
FindFirstZeroNoWrap(bits, numBits, startHint) ==
  LET start == startHint % numBits
      board == start \div WordBits
      words == NumWords(numBits)
      masked == WordOf(bits, board) \cup {i \in FullWord : i < start % WordBits}
      at(i) == (board + i) % words
      hits == {i \in 1 .. words - 1 : HasZero(WordOf(bits, at(i)), at(i), numBits)}
  IN  IF numBits = 0 THEN -1
      ELSE IF HasZero(masked, board, numBits) THEN board * WordBits + FirstZeroOf(masked)
      ELSE IF hits = {} THEN -1
      ELSE LET k == at(Min(hits)) IN k * WordBits + FirstZeroOf(WordOf(bits, k))

\* The word of the hint with the bits below the hint masked, then every word
\* in cyclic order, the word of the hint (now unmasked) last.
FindFirstZero(bits, numBits, startHint) ==
  LET start == startHint % numBits
      board == start \div WordBits
      words == NumWords(numBits)
      masked == WordOf(bits, board) \cup {i \in FullWord : i < start % WordBits}
      at(i) == (board + i) % words
      hits == {i \in 1 .. words : HasZero(WordOf(bits, at(i)), at(i), numBits)}
  IN  IF numBits = 0 THEN -1
      ELSE IF HasZero(masked, board, numBits) THEN board * WordBits + FirstZeroOf(masked)
      ELSE IF hits = {} THEN -1
      ELSE LET k == at(Min(hits)) IN k * WordBits + FirstZeroOf(WordOf(bits, k))
-----------------------------------------------------------------------------
\* Variant: room is reserved for one bitmap only.
BytesForOneMap(slots, rowSize) ==
  HeaderBytes + NumWords(slots) * WordBytes + slots * rowSize

BytesFor(slots, rowSize) ==
  HeaderBytes + 2 * (NumWords(slots) * WordBytes) + slots * rowSize

\* The loop of InitializeHeapPage stops at the first number that does not fit.
MaxSlots(rowSize) ==
  LET tooMany == {n \in 1 .. PageBytes : BytesFor(n, rowSize) > PageBytes}
  IN  IF tooMany = {} THEN PageBytes ELSE Min(tooMany) - 1

\* AsHeapPage.
HeapOffsets(numSlots) ==
  LET bitmap == NumWords(numSlots) * WordBytes
  IN  [alloc |-> HeaderBytes, deleted |-> HeaderBytes + bitmap, tuple |-> HeaderBytes + 2 * bitmap]

TupleOffset(slot, numSlots, rowSize) == HeapOffsets(numSlots).tuple + slot * rowSize
-----------------------------------------------------------------------------
(***************************************************************************)
(* What the two are for.                                                   *)
(***************************************************************************)
\* FindFirstZero is the first zero bit met walking the bitmap cyclically from
\* the hint, and -1 only when every bit is set: free slots of a page are never
\* overlooked, whichever word they and the hint fall into.
FindsFirstZero(bits, numBits, startHint) ==
  LET free == {d \in 0 .. numBits - 1 : (startHint + d) % numBits \notin bits}
  IN  FindFirstZero(bits, numBits, startHint)
        = IF free = {} THEN -1 ELSE (startHint + Min(free)) % numBits

\* Header, bitmaps and all the rows InitializeHeapPage makes slots for lie one
\* after the other within the page, and one more slot would not fit.
LayoutFits(rowSize) ==
  LET n == MaxSlots(rowSize)
      offsets == HeapOffsets(n)
  IN  /\ offsets.alloc + NumWords(n) * WordBytes <= offsets.deleted
      /\ offsets.deleted + NumWords(n) * WordBytes <= offsets.tuple
      /\ \A slot \in 0 .. n - 1 : TupleOffset(slot, n, rowSize) + rowSize <= PageBytes
      /\ TupleOffset(n, n + 1, rowSize) + rowSize > PageBytes
=============================================================================
