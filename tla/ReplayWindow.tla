---------------------------- MODULE ReplayWindow ----------------------------
(***************************************************************************)
(* The ESP anti-replay sliding window (internal/esp/replay.go).            *)
(*                                                                         *)
(* A window is the struct ReplayWindow: the sequence number of its right   *)
(* edge, lastSeq, and a bitmap of Words machine words of WordBits bits     *)
(* each.  Bit `offset' counts back from lastSeq.  A machine word is the    *)
(* set of the positions of its 1-bits, so that << and >> are translations  *)
(* of that set and the bits that leave the word are lost, as in Go.        *)
(*                                                                         *)
(* The methods run under the struct's mutex, one lock per method: each is  *)
(* an operator here, and the module that uses them decides where the lock  *)
(* is released.                                                            *)
(***************************************************************************)
EXTENDS Integers

CONSTANTS
    WordBits,   \* bits of a bitmap word: 64
    Words       \* words of the bitmap: (size + 63) / 64, that is 2

ASSUME WordBitsAssumption == WordBits \in Nat \ {0}
ASSUME WordsAssumption    == Words \in Nat \ {0}

Bits    == 0 .. WordBits - 1
WordIdx == 0 .. Words - 1
Size    == Words * WordBits
Bitmaps == [WordIdx -> SUBSET Bits]
Windows == [bitmap : Bitmaps, lastSeq : Nat]

NewReplayWindow == [bitmap |-> [i \in WordIdx |-> {}], lastSeq |-> 0]
-----------------------------------------------------------------------------
testBit(bitmap, offset) ==
    offset % WordBits \in bitmap[offset \div WordBits]

\* Mutant of setBit: the offset is used as the bit position, without the modulo.
setBitNoModulo(bitmap, offset) ==
    [bitmap EXCEPT ![offset \div WordBits] = @ \cup {offset}]

setBit(bitmap, offset) ==
    [bitmap EXCEPT ![offset \div WordBits] = @ \cup {offset % WordBits}]

(***************************************************************************)
(* shiftBitmap: whole words first, then the remaining bits.  Both loops of *)
(* the code run from the highest index down and read only lower or equal   *)
(* indices, so each computes its result from the words before the loop.    *)
(***************************************************************************)
shiftWords(bitmap, wordShift) ==
    [i \in WordIdx |-> IF i >= wordShift THEN bitmap[i - wordShift] ELSE {}]

\* Mutant of shiftBits: the bits that leave a word are not carried into the next.
shiftBitsNoCarry(bitmap, bitShift) ==
    [i \in WordIdx |-> {b \in Bits : b - bitShift \in bitmap[i]}]

shiftBits(bitmap, bitShift) ==
    [i \in WordIdx |->
        {b \in Bits : \/ b - bitShift \in bitmap[i]
                      \/ i > 0 /\ b + (WordBits - bitShift) \in bitmap[i - 1]}]

shiftBitmap(bitmap, n) ==
    IF n >= Size
    THEN [i \in WordIdx |-> {}]
    ELSE shiftBits(shiftWords(bitmap, n \div WordBits), n % WordBits)
-----------------------------------------------------------------------------
\* Mutant of Check: the bitmap is not consulted, only the window's left edge.
CheckWithoutBitmap(rw, seq) ==
    /\ seq # 0
    /\ rw.lastSeq = 0 \/ rw.lastSeq - seq < Size

Check(rw, seq) ==
    /\ seq # 0
    /\ \/ rw.lastSeq = 0
       \/ seq > rw.lastSeq
       \/ /\ seq <= rw.lastSeq
          /\ rw.lastSeq - seq < Size
          /\ ~ testBit(rw.bitmap, rw.lastSeq - seq)

Advance(rw, seq) ==
    IF seq = 0 THEN rw
    ELSE IF rw.lastSeq = 0 THEN
         [bitmap |-> setBit(rw.bitmap, 0), lastSeq |-> seq]
    ELSE IF seq > rw.lastSeq THEN
         [bitmap  |-> setBit(shiftBitmap(rw.bitmap, seq - rw.lastSeq), 0),
          lastSeq |-> seq]
    ELSE IF rw.lastSeq - seq < Size THEN
         [bitmap  |-> setBit(rw.bitmap, rw.lastSeq - seq),
          lastSeq |-> rw.lastSeq]
    ELSE rw
=============================================================================
