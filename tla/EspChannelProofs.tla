-------------------------- MODULE EspChannelProofs --------------------------
(***************************************************************************)
(* First the replay window: what its operations do to the set of offsets   *)
(* whose bit is set, for every word size and every number of words.  Then  *)
(* anti-replay for every window size, every number of packets, both cipher *)
(* suites, and every pattern of loss, duplication, reordering and damage.  *)
(***************************************************************************)
EXTENDS EspChannel, TLAPS

Offsets == 0 .. Size - 1

(***************************************************************************)
(* Quotient and remainder of an offset by the word size, and uniqueness of *)
(* the two: the arithmetic under offset / 64 and offset % 64.              *)
(***************************************************************************)
LEMMA DivMod ==
    ASSUME NEW n \in Nat
    PROVE  /\ n \div WordBits \in Nat
           /\ n % WordBits \in Bits
           /\ n = WordBits * (n \div WordBits) + (n % WordBits)
  BY WordBitsAssumption, Z3 DEF Bits

\* An offset has one word and one bit.
LEMMA DivModUnique ==
    ASSUME NEW q \in Nat, NEW r \in Bits
    PROVE  /\ (WordBits * q + r) \div WordBits = q
           /\ (WordBits * q + r) % WordBits = r
  BY WordBitsAssumption, Z3 DEF Bits

\* Every offset of the window lies in a word of the bitmap.
LEMMA OffsetWord ==
    ASSUME NEW o \in Offsets
    PROVE  /\ o \in Nat
           /\ o \div WordBits \in WordIdx
           /\ o % WordBits \in Bits
  <1>1. Size \in Nat
    BY WordBitsAssumption, WordsAssumption, Z3 DEF Size
  <1>2. o \in Nat /\ o < Words * WordBits
    BY <1>1 DEF Offsets, Size
  <1>3. /\ o \div WordBits \in Nat
        /\ o % WordBits \in Bits
        /\ o = WordBits * (o \div WordBits) + (o % WordBits)
    BY <1>2, DivMod
  <1>4. o \div WordBits < Words
    BY <1>2, <1>3, WordBitsAssumption, WordsAssumption, Z3 DEF Bits
  <1> QED
    BY <1>2, <1>3, <1>4, WordsAssumption DEF WordIdx

\* setBit sets the bit of its offset and no other.
LEMMA SetBitEffect ==
    ASSUME NEW bitmap \in Bitmaps, NEW n \in Offsets
    PROVE  /\ setBit(bitmap, n) \in Bitmaps
           /\ \A o \in Offsets : testBit(setBit(bitmap, n), o)
                                  <=> o = n \/ testBit(bitmap, o)
  <1> DEFINE new == setBit(bitmap, n)
  <1>1. n \in Nat /\ n \div WordBits \in WordIdx /\ n % WordBits \in Bits
    BY OffsetWord
  <1>2. new \in Bitmaps
    BY <1>1 DEF setBit, Bitmaps
  <1>3. ASSUME NEW o \in Offsets
        PROVE  testBit(new, o) <=> o = n \/ testBit(bitmap, o)
    <2>1. o \in Nat /\ o \div WordBits \in WordIdx /\ o % WordBits \in Bits
      BY OffsetWord
    <2>2. o = n <=> /\ o \div WordBits = n \div WordBits
                    /\ o % WordBits = n % WordBits
      BY <1>1, <2>1, DivMod
    <2> HIDE DEF Bits
    <2>3. CASE o \div WordBits = n \div WordBits
      BY <1>1, <2>1, <2>2, <2>3 DEF setBit, testBit, Bitmaps
    <2>4. CASE o \div WordBits # n \div WordBits
      BY <1>1, <2>1, <2>2, <2>4 DEF setBit, testBit, Bitmaps
    <2> QED BY <2>3, <2>4
  <1> QED BY <1>2, <1>3

\* shiftBitmap moves every bit n offsets back and drops what leaves the window.
LEMMA ShiftBitmapEffect ==
    ASSUME NEW bitmap \in Bitmaps, NEW n \in Nat
    PROVE  /\ shiftBitmap(bitmap, n) \in Bitmaps
           /\ \A o \in Offsets : testBit(shiftBitmap(bitmap, n), o)
                                  <=> o >= n /\ testBit(bitmap, o - n)
  <1> DEFINE new == shiftBitmap(bitmap, n)
  <1>0. Size \in Nat
    BY WordBitsAssumption, WordsAssumption, Z3 DEF Size
  <1>1. CASE n >= Size
    <2>1. new = [i \in WordIdx |-> {}]
      BY <1>1 DEF shiftBitmap
    <2>2. new \in Bitmaps
      BY <2>1 DEF Bitmaps
    <2>3. ASSUME NEW o \in Offsets
          PROVE  ~ testBit(new, o) /\ ~ (o >= n)
      BY <1>0, <1>1, <2>1, OffsetWord DEF testBit, Offsets
    <2> QED BY <2>2, <2>3
  <1>2. CASE ~ (n >= Size)
    <2> DEFINE wn == n \div WordBits
               bn == n % WordBits
               mid == shiftWords(bitmap, wn)
    <2>1. n \in Offsets
      BY <1>0, <1>2 DEF Offsets
    <2>2. wn \in WordIdx /\ bn \in Bits /\ n = WordBits * wn + bn
      BY <2>1, OffsetWord, DivMod
    <2>3. new = shiftBits(mid, bn)
      BY <1>2 DEF shiftBitmap
    <2>4. new \in Bitmaps
      BY <2>3 DEF shiftBits, Bitmaps
    <2>5. ASSUME NEW o \in Offsets
          PROVE  testBit(new, o) <=> o >= n /\ testBit(bitmap, o - n)
      <3> DEFINE wo == o \div WordBits
                 bo == o % WordBits
      <3>1. o \in Nat /\ wo \in WordIdx /\ bo \in Bits /\ o = WordBits * wo + bo
        BY OffsetWord, DivMod
      <3>2. testBit(new, o) <=> \/ bo - bn \in mid[wo]
                                \/ wo > 0 /\ bo + (WordBits - bn) \in mid[wo - 1]
        BY <3>1, <2>3 DEF shiftBits, testBit
      <3>3. mid[wo] = IF wo >= wn THEN bitmap[wo - wn] ELSE {}
        BY <3>1 DEF shiftWords
      <3>4. wo > 0 => mid[wo - 1] = IF wo - 1 >= wn THEN bitmap[wo - 1 - wn] ELSE {}
        BY <3>1, WordsAssumption DEF shiftWords, WordIdx
      <3>5. CASE bo >= bn
        <4>1. bo - bn \in Bits /\ bo + (WordBits - bn) \notin Bits
          BY <3>1, <2>2, <3>5, WordBitsAssumption DEF Bits
        <4>2. o >= n <=> wo >= wn
          BY <3>1, <2>2, <3>5, WordBitsAssumption, Z3 DEF Bits, WordIdx
        <4>3. wo >= wn => /\ wo - wn \in Nat
                          /\ o - n = WordBits * (wo - wn) + (bo - bn)
          BY <3>1, <2>2, WordBitsAssumption, Z3 DEF Bits, WordIdx
        <4>4. wo >= wn => (testBit(bitmap, o - n) <=> bo - bn \in bitmap[wo - wn])
          BY <4>1, <4>3, DivModUnique DEF testBit
        <4>5. wo > 0 /\ wo - 1 >= wn => bitmap[wo - 1 - wn] \subseteq Bits
          BY <3>1, <2>2, WordsAssumption DEF Bitmaps, WordIdx
        <4> HIDE DEF wo, bo, wn, bn, mid, new
        <4>6. ~ (wo > 0 /\ bo + (WordBits - bn) \in mid[wo - 1])
          BY <4>1, <4>5, <3>4
        <4> QED BY <3>2, <3>3, <4>2, <4>4, <4>6
      <3>6. CASE ~ (bo >= bn)
        <4>1. bo - bn \notin Bits /\ bo + (WordBits - bn) \in Bits
          BY <3>1, <2>2, <3>6, WordBitsAssumption DEF Bits
        <4>2. o >= n <=> wo - 1 >= wn
          BY <3>1, <2>2, <3>6, WordBitsAssumption, Z3 DEF Bits, WordIdx
        <4>3. wo - 1 >= wn => /\ wo - 1 - wn \in Nat
                              /\ o - n = WordBits * (wo - 1 - wn) + (bo + (WordBits - bn))
          BY <3>1, <2>2, WordBitsAssumption, Z3 DEF Bits, WordIdx
        <4>4. wo - 1 >= wn =>
                 (testBit(bitmap, o - n) <=> bo + (WordBits - bn) \in bitmap[wo - 1 - wn])
          BY <4>1, <4>3, DivModUnique DEF testBit
        <4>5. wo >= wn => bitmap[wo - wn] \subseteq Bits
          BY <3>1, <2>2, WordsAssumption DEF Bitmaps, WordIdx
        <4>6. wo - 1 >= wn => wo > 0
          BY <3>1, <2>2 DEF WordIdx
        <4> HIDE DEF wo, bo, wn, bn, mid, new
        <4>7. ~ (bo - bn \in mid[wo])
          BY <4>1, <4>5, <3>3
        <4> QED BY <3>2, <3>4, <4>2, <4>4, <4>6, <4>7
      <3> QED BY <3>5, <3>6
    <2> QED BY <2>4, <2>5
  <1> QED BY <1>1, <1>2
-----------------------------------------------------------------------------
(***************************************************************************)
(* Records(w, acc): window w remembers exactly the set acc of accepted     *)
(* sequence numbers, as far as it reaches back.                            *)
(***************************************************************************)
Records(w, acc) ==
    /\ acc \subseteq 1 .. w.lastSeq
    /\ w.lastSeq # 0 => w.lastSeq \in acc
    /\ \A o \in Offsets : testBit(w.bitmap, o) <=> w.lastSeq - o \in acc

\* A window has room for a number.
LEMMA SizePositive == Size \in Nat \ {0}
  BY WordBitsAssumption, WordsAssumption, Z3 DEF Size

\* A new window records nothing.
LEMMA NewWindowRecords ==
    NewReplayWindow \in Windows /\ Records(NewReplayWindow, {})
  <1>1. NewReplayWindow \in Windows
    BY DEF NewReplayWindow, Windows, Bitmaps
  <1>2. \A o \in Offsets : ~ testBit(NewReplayWindow.bitmap, o)
    BY OffsetWord DEF NewReplayWindow, testBit
  <1> QED BY <1>1, <1>2 DEF Records, NewReplayWindow

(***************************************************************************)
(* Check on such a window accepts exactly the non-zero numbers that are    *)
(* new and not left of the window.                                         *)
(***************************************************************************)
LEMMA CheckExact ==
    ASSUME NEW w \in Windows, NEW acc, Records(w, acc), NEW s \in Nat
    PROVE  Check(w, s) <=> /\ s # 0
                           /\ s \notin acc
                           /\ \A a \in acc : a - s < Size
  <1>1. w.lastSeq \in Nat /\ acc \subseteq 1 .. w.lastSeq /\ Size \in Nat \ {0}
    BY SizePositive DEF Records, Windows
  <1>2. CASE s = 0
    BY <1>2 DEF Check
  <1>3. CASE s # 0 /\ w.lastSeq = 0
    BY <1>1, <1>3 DEF Check
  <1>4. CASE s # 0 /\ w.lastSeq # 0 /\ s > w.lastSeq
    BY <1>1, <1>4 DEF Check
  <1>5. CASE s # 0 /\ w.lastSeq # 0 /\ s <= w.lastSeq
    <2> DEFINE o == w.lastSeq - s
    <2>1. o \in Nat
      BY <1>1, <1>5
    <2>2. Check(w, s) <=> o < Size /\ ~ testBit(w.bitmap, o)
      BY <1>1, <1>5 DEF Check
    <2>3. o < Size => o \in Offsets
      BY <2>1, <1>1 DEF Offsets
    <2>4. w.lastSeq - o = s
      BY <1>1
    <2>5. o < Size => (testBit(w.bitmap, o) <=> s \in acc)
      BY <2>3, <2>4 DEF Records
    <2>6. o < Size <=> \A a \in acc : a - s < Size
      BY <1>1, <1>5, <2>1 DEF Records
    <2> QED BY <1>5, <2>2, <2>5, <2>6
  <1> QED BY <1>1, <1>2, <1>3, <1>4, <1>5

(***************************************************************************)
(* Advance with an acceptable number adds that number to what the window   *)
(* records, and the right edge never moves back.                           *)
(***************************************************************************)
LEMMA AdvanceRecords ==
    ASSUME NEW w \in Windows, NEW acc, Records(w, acc), NEW s \in Nat, Check(w, s)
    PROVE  /\ Advance(w, s) \in Windows
           /\ Records(Advance(w, s), acc \cup {s})
           /\ Advance(w, s).lastSeq \in {w.lastSeq, s}
           /\ Advance(w, s).lastSeq >= w.lastSeq
  <1> DEFINE v == Advance(w, s)
  <1>1. /\ w.lastSeq \in Nat /\ w.bitmap \in Bitmaps
        /\ acc \subseteq 1 .. w.lastSeq /\ Size \in Nat \ {0}
    BY SizePositive DEF Records, Windows
  <1>2. s # 0 /\ 0 \in Offsets
    BY <1>1 DEF Check, Offsets
  <1>3. CASE w.lastSeq = 0
    <2>1. v = [bitmap |-> setBit(w.bitmap, 0), lastSeq |-> s]
      BY <1>2, <1>3 DEF Advance
    <2>2. /\ v.bitmap \in Bitmaps
          /\ \A o \in Offsets : testBit(v.bitmap, o) <=> o = 0 \/ testBit(w.bitmap, o)
      BY <2>1, <1>1, <1>2, SetBitEffect
    <2>3. acc = {}
      BY <1>1, <1>3
    <2>4. \A o \in Offsets : testBit(v.bitmap, o) <=> s - o \in acc \cup {s}
      BY <2>2, <2>3, <1>3, OffsetWord DEF Records
    <2> QED BY <2>1, <2>2, <2>3, <2>4, <1>2, <1>3 DEF Records, Windows
  <1>4. CASE w.lastSeq # 0 /\ s > w.lastSeq
    <2> DEFINE n == s - w.lastSeq
               mid == shiftBitmap(w.bitmap, n)
    <2>1. v = [bitmap |-> setBit(mid, 0), lastSeq |-> s]
      BY <1>2, <1>4 DEF Advance
    <2>2. n \in Nat \ {0} /\ w.lastSeq = s - n
      BY <1>1, <1>4
    <2>3. /\ mid \in Bitmaps
          /\ \A o \in Offsets : testBit(mid, o) <=> o >= n /\ testBit(w.bitmap, o - n)
      BY <2>2, <1>1, ShiftBitmapEffect
    <2> HIDE DEF n, mid
    <2>4. /\ v.bitmap \in Bitmaps
          /\ \A o \in Offsets : testBit(v.bitmap, o) <=> o = 0 \/ testBit(mid, o)
      BY <2>1, <2>3, <1>2, SetBitEffect
    <2>5. ASSUME NEW o \in Offsets
          PROVE  testBit(v.bitmap, o) <=> s - o \in acc \cup {s}
      <3>1. o \in Nat /\ (s - o = s <=> o = 0)
        BY OffsetWord
      <3>2. o >= n => o - n \in Offsets /\ w.lastSeq - (o - n) = s - o
        BY <3>1, <2>2, <1>1 DEF Offsets
      <3>3. ~ (o >= n) => s - o \notin acc
        BY <3>1, <2>2, <1>1
      <3>4. testBit(mid, o) <=> s - o \in acc
        BY <2>3, <3>2, <3>3 DEF Records
      <3> QED BY <2>4, <3>1, <3>4
    <2>6. acc \cup {s} \subseteq 1 .. s
      BY <1>1, <1>2, <1>4
    <2> QED BY <2>1, <2>4, <2>5, <2>6, <1>1, <1>4 DEF Records, Windows
  <1>5. CASE w.lastSeq # 0 /\ ~ (s > w.lastSeq)
    <2> DEFINE n == w.lastSeq - s
    <2>1. n \in Nat /\ n < Size /\ w.lastSeq - n = s
      BY <1>1, <1>2, <1>5 DEF Check
    <2>2. n \in Offsets
      BY <2>1, <1>1 DEF Offsets
    <2>3. v = [bitmap |-> setBit(w.bitmap, n), lastSeq |-> w.lastSeq]
      BY <1>2, <1>5, <2>1 DEF Advance
    <2>4. v.lastSeq = w.lastSeq /\ v.bitmap = setBit(w.bitmap, n)
      BY <2>3
    <2>5. /\ v.bitmap \in Bitmaps
          /\ \A o \in Offsets : testBit(v.bitmap, o) <=> o = n \/ testBit(w.bitmap, o)
      BY <2>4, <2>2, <1>1, SetBitEffect
    <2>6. ASSUME NEW o \in Offsets
          PROVE  testBit(v.bitmap, o) <=> w.lastSeq - o \in acc \cup {s}
      <3>1. o = n <=> w.lastSeq - o = s
        BY OffsetWord, <1>1, <2>1
      <3> QED BY <3>1, <2>5 DEF Records
    <2>7. acc \cup {s} \subseteq 1 .. w.lastSeq
      BY <1>1, <1>2, <1>5
    <2>8. v \in Windows
      BY <2>3, <2>5, <2>4 DEF Windows
    <2> QED BY <2>4, <2>6, <2>7, <2>8, <1>1 DEF Records
  <1> QED BY <1>1, <1>3, <1>4, <1>5

-----------------------------------------------------------------------------

(***************************************************************************)
(* The inductive invariant.  The packets sent are numbered by their call   *)
(* of Encrypt; the window records exactly the accepted numbers, each the   *)
(* number of a packet sent; the packet in the receiver's hands still       *)
(* passes Check; what was delivered was accepted.                          *)
(***************************************************************************)
WireInv ==
    /\ \A p \in wire : p.auth /\ p.id = p.seq /\ p.seq \in 1 .. seqNum
    /\ SeqNotReused

RxInv ==
    rx # NoPkt => /\ rx.pkt \in wire \cup Damaged
                  /\ Check(rw, rx.pkt.seq)

HistoryInv ==
    /\ \A a \in accepted : \E p \in wire : p.seq = a
    /\ \A i \in 1 .. MaxEncrypts : delivered[i] <= 1
    /\ \A i \in 1 .. MaxEncrypts : delivered[i] # 0 => i \in accepted

IInv == TypeOK /\ Records(rw, accepted) /\ WireInv /\ RxInv /\ HistoryInv

\* A new SA has an empty window and an empty wire.
LEMMA InitIInv == Init => IInv
  <1> SUFFICES ASSUME Init PROVE IInv
    OBVIOUS
  <1>1. TypeOK
    BY NewWindowRecords, MaxEncryptsAssumption DEF Init, TypeOK
  <1>2. Records(rw, accepted)
    BY NewWindowRecords DEF Init
  <1>3. WireInv /\ RxInv
    BY DEF Init, WireInv, SeqNotReused, RxInv
  <1>4. HistoryInv
    BY DEF Init, HistoryInv
  <1> QED BY <1>1, <1>2, <1>3, <1>4 DEF IInv

\* Encrypt puts a number on the wire that no earlier packet has.
LEMMA EncryptIInv ==
    ASSUME IInv, NEW body \in Bodies, Encrypt(body)
    PROVE  IInv'
  <1> USE DEF IInv
  <1> DEFINE new == [seq |-> seqNum', auth |-> TRUE, body |-> body, id |-> seqNum']
  <1>1. seqNum' \in 1 .. MaxEncrypts /\ seqNum' = seqNum + 1
    BY MaxEncryptsAssumption DEF Encrypt, TypeOK
  <1>2. wire' = wire \/ (seqNum' <= SeqMax /\ wire' = wire \cup {new})
    <2>1. seqNum' <= SeqMax => seqNum' % (SeqMax + 1) = seqNum'
      BY <1>1, SeqMaxAssumption
    <2> QED BY <2>1, <1>1, SeqMaxAssumption DEF Encrypt
  <1>3. seqNum' <= SeqMax => new \in Packets
    BY <1>1, SeqMaxAssumption, BodiesAssumption DEF Packets, Seqs
  <1>4. TypeOK'
    <2>1. wire' \subseteq Packets
      <3> HIDE DEF new
      <3> QED BY <1>2, <1>3 DEF TypeOK
    <2>2. seqNum' \in 0 .. MaxEncrypts
      BY <1>1
    <2> QED BY <2>1, <2>2 DEF Encrypt, TypeOK
  <1>5. Records(rw, accepted)'
    BY DEF Encrypt
  <1>6. WireInv'
    <2>1. \A p \in wire : p.seq \in 1 .. seqNum /\ p.seq # seqNum'
      BY <1>1, MaxEncryptsAssumption DEF WireInv, TypeOK
    <2>2. \A p \in wire' : p.auth /\ p.id = p.seq /\ p.seq \in 1 .. seqNum'
      BY <1>1, <1>2, <2>1 DEF WireInv, TypeOK
    <2>3. \A p, q \in wire' : p.seq = q.seq => p = q
      <3>1. \A p, q \in wire : p.seq = q.seq => p = q
        BY DEF WireInv, SeqNotReused
      <3>2. new.seq = seqNum'
        OBVIOUS
      <3> HIDE DEF new
      <3> QED BY <1>2, <2>1, <3>1, <3>2
    <2> QED BY <2>2, <2>3 DEF WireInv, SeqNotReused
  <1>7. RxInv'
    BY <1>2 DEF RxInv, Encrypt
  <1>8. HistoryInv'
    BY <1>2 DEF HistoryInv, Encrypt
  <1> QED BY <1>4, <1>5, <1>6, <1>7, <1>8

\* The first half of Decrypt only picks a packet that passes Check.
LEMMA BeginDecryptIInv ==
    ASSUME IInv, NEW pkt \in wire \cup Damaged, NEW from \in Addrs,
           BeginDecrypt(pkt, from)
    PROVE  IInv'
  <1> USE DEF IInv
  <1>1. pkt \in Packets
    <2>1. CASE pkt \in wire
      BY <2>1 DEF TypeOK
    <2>2. CASE pkt \in Damaged
      <3>1. PICK s \in Seqs :
               pkt = [seq |-> s, auth |-> FALSE, body |-> "inner", id |-> 0]
        BY <2>2 DEF Damaged
      <3>2. 0 \in 0 .. MaxEncrypts /\ "inner" \in AllBodies /\ FALSE \in BOOLEAN
        BY MaxEncryptsAssumption DEF AllBodies
      <3> QED BY <3>1, <3>2, Zenon DEF Packets
    <2> QED BY <2>1, <2>2
  <1>2. TypeOK'
    BY <1>1 DEF BeginDecrypt, TypeOK
  <1>3. RxInv'
    BY DEF BeginDecrypt, RxInv
  <1> QED
    BY <1>2, <1>3 DEF BeginDecrypt, WireInv, SeqNotReused, HistoryInv

\* A packet whose ICV fails changes nothing but the hands of the receiver.
LEMMA OpenFailsIInv == IInv /\ OpenFails => IInv'
  BY DEF OpenFails, IInv, TypeOK, WireInv, SeqNotReused, RxInv, HistoryInv

(***************************************************************************)
(* The step that matters: the packet passes its integrity check, so it is  *)
(* on the wire; it still passes Check, so its number is new.               *)
(***************************************************************************)
LEMMA EndDecryptIInv ==
    ASSUME IInv, EndDecrypt
    PROVE  IInv'
  <1> USE DEF IInv
  <1> DEFINE pkt == rx.pkt
             s   == rx.pkt.seq
  <1>1. /\ rx \in [pkt : Packets, from : Addrs]
        /\ pkt \in Packets
        /\ s \in Nat
    BY SeqMaxAssumption DEF EndDecrypt, TypeOK, Packets, Seqs
  <1>2. pkt \in wire /\ pkt.id = s /\ s \in 1 .. seqNum
    BY DEF EndDecrypt, RxInv, Damaged, WireInv
  <1>3. Check(rw, s)
    BY DEF EndDecrypt, RxInv
  <1>4. rw \in Windows /\ Records(rw, accepted)
    BY DEF TypeOK
  <1>5. s \notin accepted
    BY <1>1, <1>3, <1>4, CheckExact
  <1>6. rw' \in Windows /\ Records(rw', accepted')
    BY <1>1, <1>3, <1>4, AdvanceRecords DEF EndDecrypt
  <1>7. s \in 1 .. MaxEncrypts /\ delivered[s] = 0
    BY <1>2, <1>5, MaxEncryptsAssumption DEF HistoryInv, TypeOK
  <1>8. delivered' \in {delivered, [delivered EXCEPT ![s] = 1]}
    BY <1>2, <1>7 DEF EndDecrypt
  <1>9. TypeOK'
    <2>1. accepted' \subseteq Seqs
      BY <1>1 DEF EndDecrypt, TypeOK, Packets
    <2>2. delivered' \in [1 .. MaxEncrypts -> Nat]
      BY <1>7, <1>8 DEF TypeOK
    <2>3. peerAddr' \in Addrs
      BY <1>1 DEF EndDecrypt, TypeOK
    <2> QED BY <1>6, <2>1, <2>2, <2>3 DEF EndDecrypt, TypeOK
  <1>10. WireInv' /\ RxInv'
    BY DEF EndDecrypt, WireInv, SeqNotReused, RxInv
  <1>11. HistoryInv'
    <2>1. accepted' = accepted \cup {s} /\ wire' = wire
      BY DEF EndDecrypt
    <2>2. \A a \in accepted' : \E p \in wire' : p.seq = a
      BY <2>1, <1>2 DEF HistoryInv
    <2>3. \A i \in 1 .. MaxEncrypts :
             delivered'[i] <= 1 /\ (delivered'[i] # 0 => i \in accepted')
      <3> SUFFICES ASSUME NEW i \in 1 .. MaxEncrypts
                   PROVE  delivered'[i] <= 1 /\ (delivered'[i] # 0 => i \in accepted')
        OBVIOUS
      <3>1. /\ delivered[i] <= 1
            /\ delivered[i] # 0 => i \in accepted
        BY DEF HistoryInv
      <3>2. delivered'[i] = delivered[i] \/ (i = s /\ delivered'[i] = 1)
        BY <1>7, <1>8 DEF TypeOK
      <3> QED BY <2>1, <3>1, <3>2
    <2> QED BY <2>2, <2>3 DEF HistoryInv
  <1> QED BY <1>6, <1>9, <1>10, <1>11

(***************************************************************************)
(* The invariant of one SA, of every window size, sequence width and       *)
(* traffic: the window records what was accepted, and what is on the wire  *)
(* or being decrypted fits it.                                             *)
(***************************************************************************)
THEOREM IInvInvariant == Spec => []IInv
  <1>1. IInv /\ [Next]_vars => IInv'
    <2> SUFFICES ASSUME IInv, [Next]_vars PROVE IInv'
      OBVIOUS
    <2>1. CASE UNCHANGED vars
      BY <2>1 DEF vars, IInv, TypeOK, WireInv, SeqNotReused, RxInv, HistoryInv
    <2> QED
      BY <2>1, EncryptIInv, BeginDecryptIInv, OpenFailsIInv, EndDecryptIInv DEF Next
  <1> QED BY InitIInv, <1>1, PTL DEF Spec
-----------------------------------------------------------------------------
(***************************************************************************)
(* TypeOK: the counters, the window's words and the packets of Encrypt and *)
(* Decrypt keep their ranges.                                              *)
(***************************************************************************)
THEOREM EspTypes == Spec => []TypeOK
  <1>1. IInv => TypeOK
    BY DEF IInv
  <1> QED BY IInvInvariant, <1>1, PTL

(***************************************************************************)
(* No inner packet is handed on twice, whatever the network repeats        *)
(* (packet.go Decrypt with replay.go Check and Advance).                   *)
(***************************************************************************)
THEOREM AntiReplay == Spec => []DeliveredOnce
  <1>1. IInv => DeliveredOnce
    BY DEF IInv, HistoryInv, DeliveredOnce
  <1> QED BY IInvInvariant, <1>1, PTL

(***************************************************************************)
(* For every word size and number of words the shifted bitmap of replay.go *)
(* accepts exactly the sequence numbers that are new and in the window.    *)
(***************************************************************************)
THEOREM WindowIsExact == Spec => []WindowExact
  <1>1. IInv => WindowExact
    <2> SUFFICES ASSUME IInv, NEW s \in Seqs
                 PROVE  Check(rw, s) <=> /\ s # 0
                                         /\ s \notin accepted
                                         /\ \A a \in accepted : a - s < Size
      BY DEF WindowExact
    <2>1. s \in Nat /\ rw \in Windows /\ Records(rw, accepted)
      BY SeqMaxAssumption DEF IInv, TypeOK, Seqs
    <2> QED BY <2>1, CheckExact
  <1> QED BY IInvInvariant, <1>1, PTL

(***************************************************************************)
(* Only packets the peer really sent move the window's right edge          *)
(* (packet.go: Advance comes after the integrity check).                   *)
(***************************************************************************)
THEOREM EdgeAuthentic == Spec => []EdgeIsAuthentic
  <1>1. IInv => EdgeIsAuthentic
    BY DEF IInv, Records, HistoryInv, EdgeIsAuthentic
  <1> QED BY IInvInvariant, <1>1, PTL

(***************************************************************************)
(* Encrypt never uses a sequence number twice under one SA, also when its  *)
(* 64-bit counter runs past the 32-bit header field (encryptAEAD).         *)
(***************************************************************************)
THEOREM SeqUnique == Spec => []SeqNotReused
  <1>1. IInv => SeqNotReused
    BY DEF IInv, WireInv
  <1> QED BY IInvInvariant, <1>1, PTL

(***************************************************************************)
(* The peer address moves only on a packet that was never accepted before  *)
(* (engine.go, HandleInboundESP): a repeated packet cannot redirect the SA.*)
(***************************************************************************)
THEOREM PeerFollows == Spec => PeerFollowsFreshPackets
  <1>1. IInv /\ [Next]_vars => [peerAddr' # peerAddr => accepted' # accepted]_vars
    <2> SUFFICES ASSUME IInv, Next, peerAddr' # peerAddr
                 PROVE  accepted' # accepted
      BY DEF vars
    <2>1. EndDecrypt
      BY DEF Next, Encrypt, BeginDecrypt, OpenFails
    <2>2. /\ rx.pkt.seq \in Nat /\ Check(rw, rx.pkt.seq)
          /\ rw \in Windows /\ Records(rw, accepted)
      BY <2>1, SeqMaxAssumption DEF IInv, TypeOK, RxInv, EndDecrypt, Packets, Seqs
    <2>3. rx.pkt.seq \notin accepted
      BY <2>2, CheckExact
    <2> QED BY <2>1, <2>3 DEF EndDecrypt
  <1> QED BY IInvInvariant, <1>1, PTL DEF Spec, PeerFollowsFreshPackets
=============================================================================
