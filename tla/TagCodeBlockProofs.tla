------------------------- MODULE TagCodeBlockProofs -------------------------
(***************************************************************************)
(* Proofs about the tag's code block for every byte size and block length. *)
(***************************************************************************)
EXTENDS TagCodeBlock, TLAPS

-----------------------------------------------------------------------------
(* Arithmetic of the two stored bytes and of the blocks. *)

(* Dividing n by b: the quotient and the remainder the code takes apart. *)
LEMMA DivMod ==
  ASSUME NEW n \in Nat, NEW b \in Nat \ {0}
  PROVE  /\ n \div b \in Nat /\ n % b \in 0 .. b - 1
         /\ n = b * (n \div b) + (n % b)
  BY SMT

(* A product grows with its first factor. *)
LEMMA MulMono ==
  ASSUME NEW x \in Nat, NEW y \in Nat, NEW b \in Nat, x <= y
  PROVE  x * b <= y * b
  <1>1. PICK d \in Nat : y = x + d
    <2>1. y - x \in Nat /\ y = x + (y - x)
      OBVIOUS
    <2>2. QED
      BY <2>1
  <1>2. y * b = x * b + d * b /\ d * b \in Nat
    BY <1>1
  <1>3. QED
    BY <1>2

(* seq lies in block q exactly if it is between the first numbers of q and *)
(* of q + 1.                                                               *)
LEMMA BlockBounds ==
  ASSUME NEW s \in Nat
  PROVE  /\ BlockOf(s) \in Nat
         /\ FirstSeq(BlockOf(s)) <= s
         /\ s < FirstSeq(BlockOf(s) + 1)
  <1>1. /\ BlockLen \in Nat /\ s \div BlockLen \in Nat
        /\ s % BlockLen \in 0 .. BlockLen - 1
        /\ s = BlockLen * (s \div BlockLen) + (s % BlockLen)
    BY BlockLenAssumption, DivMod
  <1>2. QED
    BY <1>1 DEF BlockOf, FirstSeq

(* Both bytes of n are bytes if n fits, and n + 1 has n's high byte unless *)
(* its low byte is zero.                                                   *)
LEMMA Bytes ==
  ASSUME NEW n \in 0 .. MaxBlock
  PROVE  /\ LowByte(n) \in 0 .. ByteSize - 1
         /\ HighByte(n) \in 0 .. ByteSize - 1
         /\ n = HighByte(n) * ByteSize + LowByte(n)
  <1> DEFINE q == n \div ByteSize
  <1>1. /\ ByteSize \in Nat \ {0} /\ n \in Nat
        /\ ByteSize * ByteSize \in Nat /\ n < ByteSize * ByteSize
    BY ByteSizeAssumption DEF MaxBlock
  <1>2. /\ q \in Nat /\ n % ByteSize \in 0 .. ByteSize - 1
        /\ n = ByteSize * q + (n % ByteSize)
    BY <1>1, DivMod
  <1>3. q < ByteSize
    <2>1. SUFFICES ASSUME q >= ByteSize PROVE FALSE
      BY <1>1, <1>2
    <2>2. ByteSize * ByteSize <= q * ByteSize
      BY <1>1, <1>2, <2>1, MulMono
    <2>3. QED
      BY <1>1, <1>2, <2>2
  <1>4. QED
    BY <1>1, <1>2, <1>3 DEF LowByte, HighByte

LEMMA CarryOnly ==
  ASSUME NEW h \in Nat, NEW l \in 0 .. ByteSize - 1,
         NEW n \in 0 .. MaxBlock, n = h * ByteSize + l + 1
  PROVE  /\ h <= HighByte(n)
         /\ HighByte(n) # h => HighByte(n) = h + 1 /\ LowByte(n) = 0
         /\ HighByte(n) = h => LowByte(n) = l + 1
  <1> DEFINE q == HighByte(n)
             r == LowByte(n)
  <1>1. /\ r \in 0 .. ByteSize - 1 /\ q \in Nat
        /\ n = q * ByteSize + r /\ ByteSize \in Nat /\ ByteSize >= 2
    BY Bytes, ByteSizeAssumption
  <1> HIDE DEF q, r
  <1>2. h <= q
    <2>1. SUFFICES ASSUME q + 1 <= h PROVE FALSE
      BY <1>1
    <2>2. (q + 1) * ByteSize <= h * ByteSize
      BY <1>1, <2>1, MulMono
    <2>3. (q + 1) * ByteSize = q * ByteSize + ByteSize
      BY <1>1
    <2>4. q * ByteSize \in Nat /\ h * ByteSize \in Nat
      BY <1>1
    <2>5. QED
      BY <1>1, <2>2, <2>3, <2>4
  <1>3. q <= h + 1
    <2>1. SUFFICES ASSUME h + 2 <= q PROVE FALSE
      BY <1>1
    <2>2. (h + 2) * ByteSize <= q * ByteSize
      BY <1>1, <2>1, MulMono
    <2>3. (h + 2) * ByteSize = h * ByteSize + ByteSize + ByteSize
      BY <1>1
    <2>4. q * ByteSize \in Nat /\ h * ByteSize \in Nat
      BY <1>1
    <2>5. QED
      BY <1>1, <2>2, <2>3, <2>4
  <1>4. CASE q = h
    <2>1. h * ByteSize \in Nat
      BY <1>1
    <2>2. QED
      BY <1>1, <1>4, <2>1 DEF q, r
  <1>5. CASE q = h + 1
    <2>1. q * ByteSize = h * ByteSize + ByteSize /\ h * ByteSize \in Nat
      BY <1>1, <1>5
    <2>2. QED
      BY <1>1, <1>5, <2>1 DEF q, r
  <1>6. QED
    BY <1>1, <1>2, <1>3, <1>4, <1>5
-----------------------------------------------------------------------------
(* The inductive invariant. *)

(* The EEPROM and the RAM copy agree except while a store is between its   *)
(* bytes; then the low byte is new and the high byte may be one behind.    *)
StoredAgrees ==
  /\ pc \in {"store", "start", "build", "send"} => code_block = Stored
  /\ pc \in {"start", "build", "send"} => code_block >= 1
  /\ pc = "storeHigh" =>
       /\ code_block >= 1
       /\ eeprom[0] = LowByte(code_block)
       /\ \/ HighByte(code_block) = eeprom[1] /\ LowByte(code_block) # 0
          \/ HighByte(code_block) = eeprom[1] + 1 /\ LowByte(code_block) = 0

(* In the loop seq is at most one block away from the stored one, and on   *)
(* its way to the air it is a block behind.                                *)
SeqFollowsBlock ==
  /\ pc = "build" =>
       /\ FirstSeq(code_block - 1) <= seq
       /\ seq <= FirstSeq(code_block)
  /\ pc = "store" /\ resume = "send" =>
       code_block < MaxBlock /\ seq = FirstSeq(code_block)
  /\ pc = "storeHigh" /\ resume = "send" => seq = FirstSeq(code_block - 1)
  /\ pc = "send" =>
       FirstSeq(code_block - 1) <= seq /\ seq < FirstSeq(code_block)

(* Everything sent so far lies below the stored block, and in the loop     *)
(* below the next packet, as long as no carry was torn.                    *)
NewestBehind ==
  ~torn =>
    /\ pc # "storeHigh" => newest < Rank(FirstSeq(Stored), 0)
    /\ pc = "storeHigh" \/ (pc = "start" /\ code_block # MaxBlock) =>
         newest < Rank(FirstSeq(code_block - 1), 0)
    /\ pc \in {"build", "send"} => newest < Rank(seq, i)

(* Torn carries or not: everything sent so far lies below the blocks of    *)
(* the next high byte, and below the stored block right after a carry that *)
(* was completed.                                                          *)
NewestInHighByte ==
  /\ newest < Rank(FirstSeq((eeprom[1] + 1) * ByteSize), 0)
  /\ eeprom[0] = 0 /\ (pc \in {"build", "send"} \/ (pc = "start" /\ code_block # MaxBlock)) =>
       newest < Rank(FirstSeq(code_block), 0)

IInv == TypeOK /\ StoredAgrees /\ SeqFollowsBlock /\ NewestBehind /\ NewestInHighByte

-----------------------------------------------------------------------------
(* What the steps of the proof need to know about FirstSeq and Stored. *)
LEMMA FirstSeqFacts ==
  ASSUME NEW b \in Nat
  PROVE  /\ FirstSeq(b) \in Nat
         /\ FirstSeq(b + 1) = FirstSeq(b) + BlockLen
         /\ \A c \in Nat : b <= c => FirstSeq(b) <= FirstSeq(c)
  BY BlockLenAssumption, MulMono DEF FirstSeq

LEMMA FirstSeqStep ==
  ASSUME NEW b \in Nat, b >= 1
  PROVE  /\ FirstSeq(b - 1) \in Nat /\ FirstSeq(b) \in Nat
         /\ FirstSeq(b - 1) < FirstSeq(b)
  <1>1. b - 1 \in Nat /\ (b - 1) + 1 = b
    OBVIOUS
  <1>2. FirstSeq((b - 1) + 1) = FirstSeq(b - 1) + BlockLen /\ FirstSeq(b - 1) \in Nat
    BY <1>1, FirstSeqFacts
  <1>3. QED
    BY <1>1, <1>2, BlockLenAssumption

(* The block of a number between the first ones of b and b + 1. *)
LEMMA BlockUnique ==
  ASSUME NEW b \in Nat, NEW s \in Nat, FirstSeq(b) <= s, s < FirstSeq(b + 1)
  PROVE  BlockOf(s) = b
  <1>1. /\ BlockOf(s) \in Nat /\ FirstSeq(BlockOf(s)) <= s
        /\ s < FirstSeq(BlockOf(s) + 1)
    BY BlockBounds
  <1>2. ~(b + 1 <= BlockOf(s))
    <2>1. b + 1 <= BlockOf(s) => FirstSeq(b + 1) <= FirstSeq(BlockOf(s))
      BY <1>1, FirstSeqFacts
    <2>2. FirstSeq(b + 1) \in Nat /\ FirstSeq(BlockOf(s)) \in Nat
      BY <1>1, FirstSeqFacts
    <2>3. QED
      BY <1>1, <2>1, <2>2
  <1>3. ~(BlockOf(s) + 1 <= b)
    <2>1. BlockOf(s) + 1 <= b => FirstSeq(BlockOf(s) + 1) <= FirstSeq(b)
      BY <1>1, FirstSeqFacts
    <2>2. FirstSeq(b) \in Nat /\ FirstSeq(BlockOf(s) + 1) \in Nat
      BY <1>1, FirstSeqFacts
    <2>3. QED
      BY <1>1, <2>1, <2>2
  <1>4. QED
    BY <1>1, <1>2, <1>3

(* The stored block fits in two bytes and lies in its high byte's range. *)
LEMMA StoredFacts ==
  ASSUME eeprom \in [{0, 1} -> 0 .. ByteSize - 1]
  PROVE  /\ Stored \in 0 .. MaxBlock /\ MaxBlock \in Nat
         /\ Stored < (eeprom[1] + 1) * ByteSize
         /\ eeprom[1] * ByteSize \in Nat
         /\ (eeprom[1] + 1) * ByteSize = eeprom[1] * ByteSize + ByteSize
         /\ (eeprom[1] + 1) * ByteSize \in Nat
  <1>1. /\ ByteSize \in Nat /\ ByteSize >= 2
        /\ eeprom[0] \in 0 .. ByteSize - 1 /\ eeprom[1] \in 0 .. ByteSize - 1
    BY ByteSizeAssumption
  <1>2. /\ eeprom[1] * ByteSize \in Nat
        /\ (eeprom[1] + 1) * ByteSize = eeprom[1] * ByteSize + ByteSize
        /\ ByteSize * ByteSize \in Nat
    BY <1>1
  <1>3. (eeprom[1] + 1) * ByteSize <= ByteSize * ByteSize
    BY <1>1, MulMono
  <1>4. QED
    BY <1>1, <1>2, <1>3 DEF Stored, MaxBlock

(* The initial state: nothing stored, nothing sent. *)
LEMMA InitIInv == Init => IInv
  <1> SUFFICES ASSUME Init PROVE IInv
    OBVIOUS
  <1> USE DEF Init
  <1>1. /\ eeprom \in [{0, 1} -> 0 .. ByteSize - 1] /\ eeprom[1] = 0
        /\ ByteSize \in Nat /\ ByteSize >= 2
    BY ByteSizeAssumption
  <1>2. /\ MaxBlock \in Nat /\ Stored \in Nat /\ (eeprom[1] + 1) * ByteSize \in Nat
    BY <1>1, StoredFacts
  <1>3. /\ FirstSeq(MaxBlock) \in Nat /\ FirstSeq(Stored) \in Nat
        /\ FirstSeq((eeprom[1] + 1) * ByteSize) \in Nat
    BY <1>2, FirstSeqFacts
  <1>4. TypeOK
    <2>1. /\ code_block \in 0 .. MaxBlock /\ i \in 0 .. Strengths - 1
          /\ seq \in Nat /\ seq <= FirstSeq(MaxBlock)
      BY <1>2, <1>3 DEF Strengths
    <2>2. newest \in Int /\ -1 <= newest /\ newest < Rank(FirstSeq(MaxBlock), 0)
      BY <1>3 DEF Rank, Strengths
    <2>3. QED
      BY <1>1, <2>1, <2>2 DEF TypeOK
  <1>5. StoredAgrees /\ SeqFollowsBlock
    BY DEF StoredAgrees, SeqFollowsBlock
  <1>6. NewestBehind /\ NewestInHighByte
    BY <1>3 DEF NewestBehind, NewestInHighByte, Rank, Strengths
  <1>7. QED
    BY <1>4, <1>5, <1>6 DEF IInv
-----------------------------------------------------------------------------
(* Every step keeps the invariant. *)
LEMMA NextIInv == IInv /\ [Next]_vars => IInv'
  <1> SUFFICES ASSUME IInv, [Next]_vars PROVE IInv'
    OBVIOUS
  <1> USE DEF IInv
  <1>0. /\ MaxBlock \in Nat /\ Stored \in 0 .. MaxBlock
        /\ Stored < (eeprom[1] + 1) * ByteSize
        /\ (eeprom[1] + 1) * ByteSize \in Nat
        /\ ByteSize \in Nat /\ ByteSize >= 2
        /\ eeprom[0] \in 0 .. ByteSize - 1 /\ eeprom[1] \in 0 .. ByteSize - 1
    BY StoredFacts, ByteSizeAssumption DEF TypeOK
  <1>1. CASE UNCHANGED vars
    BY <1>1 DEF vars, TypeOK, StoredAgrees, SeqFollowsBlock, NewestBehind,
                NewestInHighByte, Stored
  <1>2. CASE PowerOn
    <2>1. TypeOK'
      BY <1>0, <1>2 DEF PowerOn, TypeOK
    <2>2. StoredAgrees' /\ SeqFollowsBlock'
      BY <1>2 DEF PowerOn, StoredAgrees, SeqFollowsBlock, Stored
    <2>3. NewestBehind' /\ NewestInHighByte'
      BY <1>2 DEF PowerOn, NewestBehind, NewestInHighByte, Stored
    <2>4. QED
      BY <2>1, <2>2, <2>3
  <1>3. CASE StoreSaturated
    <2>1. code_block = MaxBlock /\ pc = "store" /\ resume # "send"
      BY <1>0, <1>3 DEF StoreSaturated, SeqFollowsBlock
    <2>2. resume = "start"
      BY <2>1 DEF TypeOK
    <2>3. TypeOK'
      BY <1>3, <2>2 DEF StoreSaturated, TypeOK
    <2>4. code_block >= 1
      <3>1. 4 <= ByteSize * ByteSize
        BY <1>0, MulMono
      <3>2. QED
        BY <1>0, <2>1, <3>1 DEF MaxBlock
    <2>5. StoredAgrees' /\ SeqFollowsBlock'
      BY <1>3, <2>1, <2>2, <2>4 DEF StoreSaturated, StoredAgrees, SeqFollowsBlock, Stored
    <2>6. NewestBehind' /\ NewestInHighByte'
      BY <1>3, <2>1, <2>2 DEF StoreSaturated, NewestBehind, NewestInHighByte, Stored
    <2>7. QED
      BY <2>3, <2>5, <2>6
  <1>4. CASE StoreLow
    <2>1. /\ code_block = Stored /\ code_block \in Nat /\ code_block < MaxBlock
          /\ code_block' = code_block + 1
          /\ eeprom'[0] = LowByte(code_block') /\ eeprom'[1] = eeprom[1]
          /\ pc = "store" /\ pc' = "storeHigh"
          /\ UNCHANGED <<resume, seq, i, newest, torn>>
      BY <1>0, <1>4 DEF StoreLow, StoredAgrees, TypeOK
    <2>2. /\ code_block' \in 0 .. MaxBlock
          /\ code_block' = eeprom[1] * ByteSize + eeprom[0] + 1
      BY <1>0, <2>1 DEF Stored
    <2>3. /\ LowByte(code_block') \in 0 .. ByteSize - 1
          /\ HighByte(code_block') \in 0 .. ByteSize - 1
          /\ eeprom[1] <= HighByte(code_block')
          /\ HighByte(code_block') # eeprom[1] =>
               HighByte(code_block') = eeprom[1] + 1 /\ LowByte(code_block') = 0
          /\ HighByte(code_block') = eeprom[1] => LowByte(code_block') = eeprom[0] + 1
      <3> DEFINE n == code_block'
      <3>1. n \in 0 .. MaxBlock /\ n = eeprom[1] * ByteSize + eeprom[0] + 1
        BY <2>2
      <3> HIDE DEF n
      <3>2. /\ eeprom[1] <= HighByte(n)
            /\ HighByte(n) # eeprom[1] => HighByte(n) = eeprom[1] + 1 /\ LowByte(n) = 0
            /\ HighByte(n) = eeprom[1] => LowByte(n) = eeprom[0] + 1
        <4>1. \A h \in Nat, l \in 0 .. ByteSize - 1 : n = h * ByteSize + l + 1 =>
                /\ h <= HighByte(n)
                /\ HighByte(n) # h => HighByte(n) = h + 1 /\ LowByte(n) = 0
                /\ HighByte(n) = h => LowByte(n) = l + 1
          BY <3>1, CarryOnly
        <4>2. eeprom[1] \in Nat /\ eeprom[0] \in 0 .. ByteSize - 1
          BY <1>0
        <4>3. QED
          BY <4>1, <4>2, <3>1
      <3>3. LowByte(n) \in 0 .. ByteSize - 1 /\ HighByte(n) \in 0 .. ByteSize - 1
        BY <3>1, Bytes
      <3>4. QED
        BY <3>2, <3>3 DEF n
    <2>4. TypeOK'
      BY <1>0, <1>4, <2>1, <2>2, <2>3 DEF StoreLow, TypeOK
    <2>5. StoredAgrees'
      BY <1>0, <2>1, <2>3 DEF StoredAgrees
    <2>6. SeqFollowsBlock'
      BY <2>1 DEF SeqFollowsBlock
    <2>7. NewestBehind' /\ NewestInHighByte'
      BY <2>1 DEF NewestBehind, NewestInHighByte
    <2>8. QED
      BY <2>4, <2>5, <2>6, <2>7
  <1>5. CASE StoreHigh
    <2> DEFINE n == code_block
    <2>1. /\ n \in 0 .. MaxBlock /\ n >= 1 /\ n - 1 \in Nat
          /\ n = HighByte(n) * ByteSize + LowByte(n)
          /\ HighByte(n) \in 0 .. ByteSize - 1
          /\ eeprom[0] = LowByte(n)
          /\ HighByte(n) \in {eeprom[1], eeprom[1] + 1}
          /\ eeprom[0] = 0 => HighByte(n) = eeprom[1] + 1
          /\ eeprom'[0] = eeprom[0] /\ eeprom'[1] = HighByte(n)
          /\ pc = "storeHigh" /\ pc' = resume
          /\ UNCHANGED <<resume, code_block, seq, i, newest, torn>>
      BY <1>0, <1>5, Bytes DEF StoreHigh, StoredAgrees, TypeOK
    <2>2. Stored' = n
      BY <2>1 DEF Stored
    <2>3. TypeOK'
      BY <1>5, <2>1 DEF StoreHigh, TypeOK
    <2>4. StoredAgrees'
      BY <2>1, <2>2, <2>3 DEF StoredAgrees, TypeOK
    <2>5. SeqFollowsBlock'
      <3>1. FirstSeq(n - 1) < FirstSeq(n) /\ FirstSeq(n - 1) \in Nat
        BY <1>0, <2>1, FirstSeqStep
      <3>2. QED
        BY <2>1, <2>3, <3>1 DEF SeqFollowsBlock, TypeOK
    <2>6. NewestBehind'
      <3>1. /\ FirstSeq(n - 1) <= FirstSeq(n) /\ FirstSeq(n - 1) \in Nat
            /\ FirstSeq(n) \in Nat
        BY <1>0, <2>1, FirstSeqStep
      <3>2. resume = "send" => seq = FirstSeq(n - 1)
        BY <2>1 DEF SeqFollowsBlock
      <3>3. ~torn => newest < Rank(FirstSeq(n - 1), 0)
        BY <2>1 DEF NewestBehind
      <3>4. resume \in {"start", "send"} /\ i \in 0 .. 3 /\ newest \in Int
        BY DEF TypeOK, Strengths
      <3>5. QED
        BY <2>1, <2>2, <3>1, <3>2, <3>3, <3>4 DEF NewestBehind, Rank, Strengths
    <2>7. NewestInHighByte'
      <3>1. newest < Rank(FirstSeq((eeprom[1] + 1) * ByteSize), 0)
        BY DEF NewestInHighByte
      <3>2. /\ (HighByte(n) + 1) * ByteSize \in Nat
            /\ (eeprom[1] + 1) * ByteSize <= (HighByte(n) + 1) * ByteSize
        <4>1. eeprom[1] + 1 \in Nat /\ HighByte(n) + 1 \in Nat /\ eeprom[1] + 1 <= HighByte(n) + 1
          BY <1>0, <2>1
        <4>2. QED
          BY <1>0, <4>1, MulMono
      <3>3. /\ FirstSeq((eeprom[1] + 1) * ByteSize) \in Nat
            /\ FirstSeq((HighByte(n) + 1) * ByteSize) \in Nat
            /\ FirstSeq((eeprom[1] + 1) * ByteSize) <= FirstSeq((HighByte(n) + 1) * ByteSize)
        BY <1>0, <3>2, FirstSeqFacts
      <3>4. newest < Rank(FirstSeq((HighByte(n) + 1) * ByteSize), 0)
        BY <3>1, <3>3 DEF Rank, Strengths, TypeOK
      <3>5. eeprom[0] = 0 => n = (eeprom[1] + 1) * ByteSize
        BY <1>0, <2>1
      <3>6. QED
        BY <2>1, <3>1, <3>4, <3>5 DEF NewestInHighByte
    <2>8. QED
      BY <2>3, <2>4, <2>5, <2>6, <2>7
  <1>6. CASE Start
    <2> DEFINE n == code_block
    <2>1. /\ n \in 0 .. MaxBlock /\ n >= 1 /\ n - 1 \in Nat /\ n \in Nat
          /\ pc = "start" /\ n = Stored
          /\ pc' = (IF n # MaxBlock THEN "build" ELSE "rest")
          /\ seq' = FirstSeq(n - 1) /\ i' = 0
          /\ UNCHANGED <<eeprom, resume, code_block, newest, torn>>
      BY <1>0, <1>6 DEF Start, StoredAgrees, TypeOK
    <2>2. /\ FirstSeq(n - 1) <= FirstSeq(n) /\ FirstSeq(n - 1) \in Nat
          /\ FirstSeq(n) \in Nat /\ FirstSeq(n - 1) <= FirstSeq(MaxBlock)
      BY <1>0, <2>1, FirstSeqFacts
    <2>3. TypeOK'
      BY <2>1, <2>2 DEF TypeOK, Strengths
    <2>4. StoredAgrees' /\ SeqFollowsBlock'
      BY <2>1, <2>2 DEF StoredAgrees, SeqFollowsBlock, Stored
    <2>5. NewestBehind' /\ NewestInHighByte'
      BY <2>1 DEF NewestBehind, NewestInHighByte, Stored, Rank
    <2>6. QED
      BY <2>3, <2>4, <2>5
  <1>7. CASE Build
    <2> DEFINE n == code_block
    <2>1. /\ n \in 0 .. MaxBlock /\ n >= 1 /\ n - 1 \in Nat /\ n \in Nat
          /\ pc = "build" /\ n = Stored /\ seq \in Nat
          /\ FirstSeq(n - 1) <= seq /\ seq <= FirstSeq(n)
          /\ resume' = "send"
          /\ UNCHANGED <<eeprom, code_block, seq, i, newest, torn>>
      BY <1>0, <1>7 DEF Build, StoredAgrees, SeqFollowsBlock, TypeOK
    <2>2. /\ FirstSeq(n) \in Nat /\ FirstSeq(n) < FirstSeq(n + 1)
          /\ FirstSeq((n - 1) + 1) = FirstSeq(n)
      BY <2>1, FirstSeqFacts, BlockLenAssumption
    <2>3. BlockOf(seq) = n \/ BlockOf(seq) = n - 1
      <3>1. CASE seq = FirstSeq(n)
        BY <2>1, <2>2, <3>1, BlockUnique
      <3>2. CASE seq < FirstSeq(n)
        BY <2>1, <2>2, <3>2, BlockUnique
      <3>3. QED
        BY <2>1, <2>2, <3>1, <3>2
    <2>4. BlockOf(seq) = n => seq = FirstSeq(n)
      BY <2>1, <2>2, BlockBounds
    <2>5. BlockOf(seq) = n - 1 => seq < FirstSeq(n)
      BY <2>1, <2>2, BlockBounds
    <2>6. /\ pc' \in {"rest", "store", "send"}
          /\ pc' = "store" => n < MaxBlock /\ seq = FirstSeq(n)
          /\ pc' = "send" => seq < FirstSeq(n)
      BY <1>0, <1>7, <2>1, <2>3, <2>4, <2>5 DEF Build
    <2>7. TypeOK'
      BY <2>1, <2>6 DEF TypeOK
    <2>8. StoredAgrees' /\ SeqFollowsBlock'
      BY <2>1, <2>6 DEF StoredAgrees, SeqFollowsBlock, Stored
    <2>9. NewestBehind' /\ NewestInHighByte'
      BY <2>1, <2>6 DEF NewestBehind, NewestInHighByte, Stored
    <2>10. QED
      BY <2>7, <2>8, <2>9
  <1>8. CASE Send
    <2> DEFINE n == code_block
    <2>1. /\ n \in 0 .. MaxBlock /\ n >= 1 /\ n - 1 \in Nat /\ n \in Nat
          /\ pc = "send" /\ pc' = "build" /\ n = Stored /\ seq \in Nat /\ i \in 0 .. 3
          /\ FirstSeq(n - 1) <= seq /\ seq < FirstSeq(n) /\ newest \in Int /\ -1 <= newest
          /\ newest' \in {newest, Rank(seq, i)}
          /\ newest' >= Rank(seq, i)
          /\ ~torn => newest' = Rank(seq, i)
          /\ UNCHANGED <<eeprom, resume, code_block, torn>>
      BY <1>0, <1>8 DEF Send, StoredAgrees, SeqFollowsBlock, NewestBehind, TypeOK, Rank, Strengths
    <2>2. /\ i < 3 => i' = i + 1 /\ seq' = seq
          /\ i = 3 => i' = 0 /\ seq' = seq + 1
      <3>1. CASE i = 3
        BY <3>1, <1>8 DEF Send, Strengths
      <3>2. CASE i < 3
        BY <3>2, <2>1, <1>8 DEF Send, Strengths
      <3>3. QED
        BY <3>1, <3>2
    <2>3. i' \in 0 .. 3 /\ seq' \in Nat /\ seq <= seq' /\ seq' <= FirstSeq(n)
      <3>1. FirstSeq(n) \in Nat
        BY <2>1, FirstSeqFacts
      <3>2. QED
        BY <2>1, <2>2, <3>1
    <2>4. Rank(seq, i) < Rank(seq', i')
      BY <2>1, <2>2 DEF Rank, Strengths
    <2>5. /\ FirstSeq(n) \in Nat /\ FirstSeq(MaxBlock) \in Nat /\ FirstSeq(n) <= FirstSeq(MaxBlock)
          /\ FirstSeq((eeprom[1] + 1) * ByteSize) \in Nat
          /\ FirstSeq(n) <= FirstSeq((eeprom[1] + 1) * ByteSize)
      <3>1. n <= MaxBlock /\ n <= (eeprom[1] + 1) * ByteSize
        BY <1>0, <2>1
      <3>2. QED
        BY <1>0, <2>1, <3>1, FirstSeqFacts
    <2>6. Rank(seq, i) < Rank(FirstSeq(n), 0)
      BY <2>1, <2>5 DEF Rank, Strengths
    <2>7. newest < Rank(FirstSeq(MaxBlock), 0)
      BY DEF TypeOK
    <2>8. TypeOK'
      <3>1. newest' \in Int /\ -1 <= newest' /\ newest' < Rank(FirstSeq(MaxBlock), 0)
        BY <2>1, <2>5, <2>6, <2>7 DEF Rank, Strengths
      <3>2. QED
        BY <2>1, <2>3, <2>5, <3>1 DEF TypeOK, Strengths
    <2>9. StoredAgrees' /\ SeqFollowsBlock'
      <3>1. FirstSeq(n - 1) \in Nat /\ FirstSeq(n) \in Nat
        BY <2>1, FirstSeqStep
      <3>2. FirstSeq(n - 1) <= seq'
        BY <2>1, <2>3, <3>1
      <3>3. QED
        BY <2>1, <2>3, <3>2 DEF StoredAgrees, SeqFollowsBlock, Stored
    <2>10. NewestBehind'
      BY <2>1, <2>4, <2>6 DEF NewestBehind, Stored
    <2>11. NewestInHighByte'
      BY <2>1, <2>5, <2>6 DEF NewestInHighByte, Rank, Strengths
    <2>12. QED
      BY <2>8, <2>9, <2>10, <2>11
  <1>9. CASE PowerLoss
    <2>1. /\ pc # "off" /\ pc' = "off" /\ seq' = 0 /\ i' = 0 /\ code_block' = 0
          /\ resume' = "start" /\ UNCHANGED <<eeprom, newest>>
          /\ torn' = (torn \/ (pc = "storeHigh" /\ eeprom[1] # HighByte(code_block)))
      BY <1>9 DEF PowerLoss, Powered
    <2>2. FirstSeq(MaxBlock) \in Nat
      BY <1>0, FirstSeqFacts
    <2>3. TypeOK'
      BY <1>0, <2>1, <2>2 DEF TypeOK, Strengths
    <2>4. StoredAgrees' /\ SeqFollowsBlock' /\ NewestInHighByte'
      BY <2>1 DEF StoredAgrees, SeqFollowsBlock, NewestInHighByte
    <2>5. NewestBehind'
      <3>1. SUFFICES ASSUME ~torn' PROVE newest < Rank(FirstSeq(Stored), 0)
        BY <2>1 DEF NewestBehind, Stored
      <3>2. CASE pc # "storeHigh"
        BY <2>1, <3>1, <3>2 DEF NewestBehind
      <3>3. CASE pc = "storeHigh"
        <4>1. eeprom[1] = HighByte(code_block) /\ eeprom[0] = LowByte(code_block)
              /\ code_block >= 1 /\ ~torn
          BY <2>1, <3>1, <3>3 DEF StoredAgrees
        <4>2. code_block \in 0 .. MaxBlock /\ code_block - 1 \in Nat
          BY <1>0, <4>1 DEF TypeOK
        <4>3. code_block = HighByte(code_block) * ByteSize + LowByte(code_block)
          BY <4>2, Bytes
        <4>4. Stored = code_block
          BY <4>1, <4>3 DEF Stored
        <4>5. newest < Rank(FirstSeq(code_block - 1), 0)
          BY <3>3, <4>1 DEF NewestBehind
        <4>6. /\ FirstSeq(code_block - 1) \in Nat /\ FirstSeq(code_block) \in Nat
              /\ FirstSeq(code_block - 1) <= FirstSeq(code_block)
          BY <4>2, FirstSeqFacts
        <4>7. QED
          BY <4>4, <4>5, <4>6 DEF Rank, Strengths, TypeOK
      <3>4. QED
        BY <3>2, <3>3
    <2>6. QED
      BY <2>3, <2>4, <2>5
  <1>10. QED
    BY <1>1, <1>2, <1>3, <1>4, <1>5, <1>6, <1>7, <1>8, <1>9 DEF Next, Run
-----------------------------------------------------------------------------
(* The results. *)

(* The invariant holds of every behaviour. *)
THEOREM InvariantHolds == Spec => []IInv
  <1>1. QED
    BY InitIInv, NextIInv, PTL DEF Spec

(* Type correctness: both EEPROM bytes stay bytes and the sequence number  *)
(* never exceeds the first one of the last block (main.c:127-138,          *)
(* 206-266).                                                               *)
THEOREM TypeCorrect == Spec => []TypeOK
  <1>1. IInv => TypeOK
    BY DEF IInv
  <1>2. QED
    BY <1>1, InvariantHolds, PTL

(* Replay protection: unless a battery change tore a carry, every packet   *)
(* is newer than all packets sent before it, over any number of battery    *)
(* changes (main.c:204, 211, 235).                                         *)
THEOREM NeverReused == Spec => []StrictlyNewer
  <1>1. IInv => StrictlyNewer
    BY DEF IInv, NewestBehind, StrictlyNewer
  <1>2. QED
    BY <1>1, InvariantHolds, PTL

(* The sequence number never reaches the last block on air, so it can not  *)
(* wrap (main.c:232).                                                      *)
THEOREM NoWrap == Spec => []NeverWraps
  <1>1. ASSUME IInv, pc = "send" PROVE seq < FirstSeq(MaxBlock)
    <2>1. /\ code_block \in Nat /\ MaxBlock \in Nat /\ code_block <= MaxBlock
          /\ seq \in Nat /\ seq < FirstSeq(code_block)
      BY <1>1, StoredFacts DEF IInv, TypeOK, SeqFollowsBlock
    <2>2. /\ FirstSeq(code_block) \in Nat /\ FirstSeq(MaxBlock) \in Nat
          /\ FirstSeq(code_block) <= FirstSeq(MaxBlock)
      BY <2>1, FirstSeqFacts
    <2>3. QED
      BY <2>1, <2>2
  <1>2. IInv => NeverWraps
    BY <1>1 DEF NeverWraps
  <1>3. QED
    BY <1>2, InvariantHolds, PTL

(* The damage of torn carries is bounded: whatever battery changes did,    *)
(* the tag is never set back by ByteSize blocks or more.                   *)
THEOREM SetbackIsBounded == Spec => []BoundedSetback
  <1>1. ASSUME IInv, pc = "send"
        PROVE  Rank(seq + FirstSeq(ByteSize), 0) > newest
    <2> DEFINE n == code_block
               h == eeprom[1] * ByteSize
    <2>1. /\ n = Stored /\ n >= 1 /\ seq \in Nat /\ newest \in Int
          /\ n \in Nat /\ FirstSeq(n - 1) <= seq
          /\ eeprom[0] \in Nat /\ ByteSize \in Nat /\ ByteSize >= 2
          /\ h \in Nat /\ (eeprom[1] + 1) * ByteSize = h + ByteSize
      BY <1>1, StoredFacts, ByteSizeAssumption
      DEF IInv, TypeOK, StoredAgrees, SeqFollowsBlock
    <2>2. n = h + eeprom[0]
      BY <2>1 DEF Stored
    <2> HIDE DEF h
    <2>3. \A b \in Nat : FirstSeq(b) \in Nat
      BY FirstSeqFacts
    <2>4. CASE eeprom[0] = 0
      <3>1. newest < Rank(FirstSeq(n), 0)
        BY <1>1, <2>4 DEF IInv, NewestInHighByte
      <3>2. FirstSeq(n) = FirstSeq(n - 1) + BlockLen /\ FirstSeq(n - 1) \in Nat
        <4>1. n - 1 \in Nat /\ (n - 1) + 1 = n
          BY <2>1
        <4>2. QED
          BY <4>1, FirstSeqFacts
      <3>3. BlockLen <= FirstSeq(ByteSize)
        <4>1. FirstSeq(1) <= FirstSeq(ByteSize) /\ FirstSeq(1) = BlockLen
          BY <2>1, FirstSeqFacts, BlockLenAssumption DEF FirstSeq
        <4>2. QED
          BY <4>1
      <3>4. FirstSeq(n) <= seq + FirstSeq(ByteSize)
        BY <2>1, <2>3, <3>2, <3>3, BlockLenAssumption
      <3>5. QED
        BY <2>1, <2>3, <3>1, <3>4 DEF Rank, Strengths
    <2>5. CASE eeprom[0] >= 1
      <3>1. newest < Rank(FirstSeq(h + ByteSize), 0)
        BY <1>1, <2>1 DEF IInv, NewestInHighByte
      <3>2. FirstSeq(h) <= FirstSeq(n - 1)
        <4>1. n - 1 \in Nat /\ h <= n - 1
          BY <2>1, <2>2, <2>5
        <4>2. QED
          BY <2>1, <4>1, FirstSeqFacts
      <3>3. FirstSeq(h + ByteSize) = FirstSeq(h) + FirstSeq(ByteSize)
        BY <2>1, BlockLenAssumption DEF FirstSeq
      <3>4. n - 1 \in Nat
        BY <2>1
      <3>5. QED
        BY <2>1, <2>3, <3>1, <3>2, <3>3, <3>4 DEF Rank, Strengths
    <2>6. QED
      BY <2>1, <2>4, <2>5
  <1>2. IInv => BoundedSetback
    BY <1>1 DEF BoundedSetback
  <1>3. QED
    BY <1>2, InvariantHolds, PTL

(* What a tag with its last block stored does: it boots, leaves the stored *)
(* block alone, and rests.                                                 *)
UsedUp ==
  /\ Stored = MaxBlock
  /\ \/ pc = "off"
     \/ /\ code_block = MaxBlock
        /\ pc \in {"start", "rest"} \/ (pc = "store" /\ resume = "start")

LEMMA StaysUsedUp == UsedUp /\ [Next]_vars => UsedUp'
  <1> SUFFICES ASSUME UsedUp, [Next]_vars
               PROVE  UsedUp'
    OBVIOUS
  <1>1. MaxBlock \in Int
    BY ByteSizeAssumption DEF MaxBlock
  <1>2. CASE PowerOn \/ PowerLoss \/ UNCHANGED vars
    BY <1>2 DEF UsedUp, PowerOn, PowerLoss, Stored, vars
  <1>3. CASE StoreSaturated \/ Start
    BY <1>3 DEF UsedUp, StoreSaturated, Start, Stored
  <1>4. ~ StoreLow /\ ~ StoreHigh /\ ~ Build /\ ~ Send
    BY <1>1 DEF UsedUp, StoreLow, StoreHigh, Build, Send
  <1> QED
    BY <1>2, <1>3, <1>4 DEF Next, Run

(* A tag that was switched off with its last block stored is never heard   *)
(* again: the saturation test of store_incremented_codeblock() (main.c     *)
(* 130) and that of main() (214) agree, for every number of boots.         *)
THEOREM UsedUpForGood == Spec => ExhaustedForGood
  <1>1. pc = "off" /\ Stored = MaxBlock => UsedUp
    BY DEF UsedUp
  <1>2. UsedUp => pc # "send"
    BY DEF UsedUp
  <1> QED
    BY <1>1, <1>2, StaysUsedUp, PTL DEF Spec, ExhaustedForGood
=============================================================================
