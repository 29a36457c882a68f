---------------------------- MODULE TagCodeBlock ----------------------------
(***************************************************************************)
(* The beacon loop of the PIC16 tag (firmware/pic16/tag/src/main.c) and    *)
(* the code block it keeps in EEPROM so that its sequence numbers do not   *)
(* repeat when the battery is taken out and put back.                      *)
(*                                                                         *)
(* seq is 32 bits: the high half is the code block the tag is using up,    *)
(* the low half counts inside it.  The 16 bit code_block is stored as two  *)
(* EEPROM bytes that are written one after the other, low byte first, with *)
(* 10 ms of sleep after each: the battery can go at any point.             *)
(***************************************************************************)
EXTENDS Integers

CONSTANTS
  ByteSize,   \* values of one EEPROM byte (256 in the code)
  BlockLen    \* sequence numbers in one code block (2^16 in the code)

ASSUME ByteSizeAssumption == ByteSize \in Nat /\ ByteSize >= 2
ASSUME BlockLenAssumption == BlockLen \in Nat \ {0}

VARIABLES
  eeprom,      \* <<low byte, high byte>> as a function on {0, 1}; survives power loss
  pc,          \* where main() is
  resume,      \* where store_incremented_codeblock() returns to
  code_block, seq, i,      \* the RAM variables of the same names
  newest,      \* history: the highest Rank on air so far, -1 before the first packet
  torn         \* history: the power once went between the two bytes of a carry

vars == <<eeprom, pc, resume, code_block, seq, i, newest, torn>>

Strengths == 4                          \* packets per sequence number, i = 0..3
MaxBlock  == ByteSize * ByteSize - 1    \* 0xFFFF
Stored    == eeprom[1] * ByteSize + eeprom[0]
LowByte(n)  == n % ByteSize
HighByte(n) == n \div ByteSize
BlockOf(s)  == s \div BlockLen          \* seq >> 16
FirstSeq(b) == b * BlockLen             \* b << 16

(* Packets in the order one uninterrupted run sends them. *)
Rank(s, k) == Strengths * s + k

Powered == pc # "off"

TypeOK ==
  /\ eeprom \in [{0, 1} -> 0 .. ByteSize - 1]
  /\ pc \in {"off", "store", "storeHigh", "start", "build", "send", "rest"}
  /\ resume \in {"start", "send"}
  /\ code_block \in 0 .. MaxBlock
  /\ seq \in Nat /\ seq <= FirstSeq(MaxBlock)
  /\ i \in 0 .. Strengths - 1
  /\ newest \in Int /\ -1 <= newest /\ newest < Rank(FirstSeq(MaxBlock), 0)
  /\ torn \in BOOLEAN

-----------------------------------------------------------------------------
(* A factory-fresh tag: __EEPROM_DATA is all zero and no battery is in. *)
Init ==
  /\ eeprom = [a \in {0, 1} |-> 0]
  /\ pc = "off" /\ resume = "start"
  /\ code_block = 0 /\ seq = 0 /\ i = 0
  /\ newest = -1 /\ torn = FALSE

(* Battery in: main() reads both bytes and calls the store routine. *)
PowerOn ==
  /\ pc = "off"
  /\ code_block' = Stored
  /\ pc' = "store" /\ resume' = "start"
  /\ UNCHANGED <<eeprom, seq, i, newest, torn>>

(* store_incremented_codeblock(): a saturated counter is left alone. *)
StoreSaturated ==
  /\ pc = "store" /\ code_block = MaxBlock
  /\ pc' = resume
  /\ UNCHANGED <<eeprom, resume, code_block, seq, i, newest, torn>>

(* Bug variant: the saturation test of the store routine is missing. *)
StoreLowUnguarded ==
  /\ pc = "store"
  /\ code_block' = code_block + 1
  /\ eeprom' = [eeprom EXCEPT ![0] = LowByte(code_block')]
  /\ pc' = "storeHigh"
  /\ UNCHANGED <<resume, seq, i, newest, torn>>

StoreLow ==
  /\ pc = "store" /\ code_block < MaxBlock
  /\ code_block' = code_block + 1
  /\ eeprom' = [eeprom EXCEPT ![0] = LowByte(code_block')]
  /\ pc' = "storeHigh"
  /\ UNCHANGED <<resume, seq, i, newest, torn>>

(* Bug variant: the high byte is not written. *)
StoreHighForgotten ==
  /\ pc = "storeHigh"
  /\ pc' = resume
  /\ UNCHANGED <<eeprom, resume, code_block, seq, i, newest, torn>>

StoreHigh ==
  /\ pc = "storeHigh"
  /\ eeprom' = [eeprom EXCEPT ![1] = HighByte(code_block)]
  /\ pc' = resume
  /\ UNCHANGED <<resume, code_block, seq, i, newest, torn>>

(* Bug variant: main() enters the loop with a saturated code block. *)
StartAlways ==
  /\ pc = "start"
  /\ seq' = FirstSeq(code_block - 1)
  /\ i' = 0
  /\ pc' = "build"
  /\ UNCHANGED <<eeprom, resume, code_block, newest, torn>>

(* Enter the beacon loop one block behind the stored one, or rest if the   *)
(* blocks are used up.                                                     *)
Start ==
  /\ pc = "start"
  /\ seq' = FirstSeq(code_block - 1)
  /\ i' = 0
  /\ pc' = IF code_block # MaxBlock THEN "build" ELSE "rest"
  /\ UNCHANGED <<eeprom, resume, code_block, newest, torn>>

(* Bug variants: the next block is stored one packet too late, and the     *)
(* break at the last block is missing.                                     *)
BuildStoresLate ==
  /\ pc = "build"
  /\ pc' = IF BlockOf(seq) = MaxBlock THEN "rest"
           ELSE IF BlockOf(seq) > code_block THEN "store" ELSE "send"
  /\ resume' = "send"
  /\ UNCHANGED <<eeprom, code_block, seq, i, newest, torn>>
BuildWithoutBreak ==
  /\ pc = "build"
  /\ pc' = IF BlockOf(seq) = code_block THEN "store" ELSE "send"
  /\ resume' = "send"
  /\ UNCHANGED <<eeprom, code_block, seq, i, newest, torn>>

(* Fill in the packet, then make sure that its block lies behind the       *)
(* stored one before it goes on air; stop when the last block is reached.  *)
Build ==
  /\ pc = "build"
  /\ pc' = IF BlockOf(seq) = MaxBlock THEN "rest"
           ELSE IF BlockOf(seq) = code_block THEN "store" ELSE "send"
  /\ resume' = "send"
  /\ UNCHANGED <<eeprom, code_block, seq, i, newest, torn>>

(* Bug variant: seq++ is missing. *)
SendSameSeq ==
  /\ pc = "send"
  /\ newest' = IF Rank(seq, i) > newest THEN Rank(seq, i) ELSE newest
  /\ i' = (i + 1) % Strengths
  /\ pc' = "build"
  /\ UNCHANGED <<eeprom, resume, code_block, seq, torn>>

(* Transmit the packet and step to the next strength, or to the next       *)
(* sequence number after the strongest one.                                *)
Send ==
  /\ pc = "send"
  /\ newest' = IF Rank(seq, i) > newest THEN Rank(seq, i) ELSE newest
  /\ i' = (i + 1) % Strengths
  /\ seq' = IF i + 1 >= Strengths THEN seq + 1 ELSE seq
  /\ pc' = "build"
  /\ UNCHANGED <<eeprom, resume, code_block, torn>>

(* Battery out, at any point.  RAM starts from zero at the next boot.      *)
PowerLoss ==
  /\ Powered
  /\ pc' = "off" /\ resume' = "start"
  /\ code_block' = 0 /\ seq' = 0 /\ i' = 0
  /\ torn' = (torn \/ (pc = "storeHigh" /\ eeprom[1] # HighByte(code_block)))
  /\ UNCHANGED <<eeprom, newest>>

Run  == StoreSaturated \/ StoreLow \/ StoreHigh \/ Start \/ Build \/ Send
Next == PowerOn \/ Run \/ PowerLoss

Spec == Init /\ [][Next]_vars

(* A powered tag keeps executing; nobody has to put a battery in. *)
FairSpec == Spec /\ WF_vars(Run)

-----------------------------------------------------------------------------
(* Replay protection across battery changes: unless a battery change ever  *)
(* hit a carry between the two bytes, no packet goes on air again and each *)
(* one is newer than everything this tag ever sent (main.c:209, 230).      *)
StrictlyNewer == pc = "send" /\ ~torn => Rank(seq, i) > newest

(* How bad a torn carry can get, however often it happens: the tag falls   *)
(* back by less than the ByteSize blocks that share one high byte.         *)
BoundedSetback ==
  pc = "send" => Rank(seq + FirstSeq(ByteSize), 0) > newest

(* The promise of the comments at main.c:209 and main.c:230 as written:    *)
(* after a battery change seq is higher or equal.                          *)
HigherOrEqualAfterBatteryChange ==
  pc = "send" => Rank(seq, i) >= newest

(* The last code block is never used on air, so the 32 bit sequence number *)
(* can not wrap (main.c:232-234).                                          *)
NeverWraps == pc = "send" => seq < FirstSeq(MaxBlock)

(* A tag that lost power with its last block stored is used up: it stays   *)
(* silent over every later battery change (main.c:130, 214).               *)
ExhaustedForGood ==
  [](pc = "off" /\ Stored = MaxBlock => [](pc # "send"))

(* A tag whose battery stays in sends on until its blocks are used up; the *)
(* store routine never makes it miss its way back into the loop.           *)
RunsUntilExhausted == <>[]Powered => <>(pc = "rest")
=============================================================================
