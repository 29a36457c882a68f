-------------------------- MODULE BeaconRatingProofs --------------------------
(***************************************************************************)
(* Proofs about BeaconRating, for any ring, any tags and strengths, any    *)
(* load and any time: what becomes of the commands that the command task   *)
(* leaves for the radio task without a lock; and that the radio task       *)
(* publishes the rating of the live beacons, of which the rating task      *)
(* prints the head.                                                        *)
(***************************************************************************)
EXTENDS BeaconRating, TLAPS, FiniteSetTheorems, FunctionTheorems, SequenceTheorems,
        WellFoundedInduction

RadioPc == {"receive", "send", "update", "take", "publish"}
Fields  == [reader : Nat, opcode : Nat, data : Nat]

Types ==
  /\ now \in Nat
  /\ \E W : radio \in [pc : RadioPc, last : Nat, words : W]
  /\ cmd \in [pc : {"idle", "opcode", "data"}, number : Nat]
  /\ slot \in Fields /\ air \in Seq(Fields)

(* The numbers that were given out; that of a command whose opcode is not  *)
(* entered yet is in no other place.                                       *)
Known(k) == k <= cmd.number /\ (cmd.pc = "opcode" => k < cmd.number)

Numbers ==
  /\ Known(slot.opcode)
  /\ \A i \in DOMAIN air : Known(air[i].opcode) /\ air[i].opcode # 0
  /\ cmd.pc = "opcode" => slot.reader = cmd.number

(* A command that is in the slot is not sent yet, or is being sent.        *)
SentOnce ==
  /\ \A i, j \in DOMAIN air : air[i].opcode = air[j].opcode => i = j
  /\ radio.pc # "send" /\ slot.opcode # 0 => \A i \in DOMAIN air : air[i].opcode # slot.opcode

Whole(k) == [reader |-> k, opcode |-> k, data |-> k]

Sending(k) == \E i \in DOMAIN air : air[i] = Whole(k)

(* It is in the slot, if not all of it is.                                 *)
Waiting(k) ==
  /\ radio.pc # "send"
  /\ k = cmd.number /\ slot.opcode = k /\ slot.reader = k
  /\ cmd.pc = "data" \/ (cmd.pc = "idle" /\ slot.data = k)

(* Where a command is that met nothing.                                    *)
Fate ==
  \A k \in (1 .. cmd.number) \ NopCommand :
    k \notin met => Sending(k) \/ Waiting(k) \/ (k = cmd.number /\ cmd.pc = "opcode")

IInv == Types /\ Numbers /\ SentOnce /\ Fate

-----------------------------------------------------------------------------
(* What the steps do.                                                      *)
LEMMA RadioTypes ==
  ASSUME Types, [Next]_vars
  PROVE  /\ \E W : radio' \in [pc : RadioPc, last : Nat, words : W]
         /\ ~ SendCommand => (radio'.pc = "send" => radio' = radio)
         /\ SendCommand => radio'.pc = "send"
  <1>0. PICK W : radio \in [pc : RadioPc, last : Nat, words : W]
    BY DEF Types
  <1>1. CASE SendCommand
    <2>1. radio' = [radio EXCEPT !.pc = "send"]
      BY <1>1 DEF SendCommand
    <2>2. radio' \in [pc : RadioPc, last : Nat, words : W] /\ radio'.pc = "send"
      BY <1>0, <2>1 DEF RadioPc
    <2> QED
      BY <1>1, <2>2
  <1>2. CASE CommandSent \/ NoCommand
    <2>1. radio' = [radio EXCEPT !.pc = "update"]
      BY <1>2 DEF CommandSent, NoCommand
    <2>2. radio' \in [pc : RadioPc, last : Nat, words : W] /\ radio'.pc = "update"
      BY <1>0, <2>1 DEF RadioPc
    <2> QED
      BY <2>2, <1>2 DEF SendCommand, CommandSent, NoCommand
  <1>3. CASE UpdateRating
    <2>1. PICK ws : radio' = [pc |-> "take", last |-> now, words |-> ws]
      BY <1>3 DEF UpdateRating
    <2>2. radio' \in [pc : RadioPc, last : Nat, words : {ws}] /\ radio'.pc = "take"
      BY <2>1 DEF RadioPc, Types
    <2> QED
      BY <1>3, <2>2 DEF SendCommand, UpdateRating
  <1>4. CASE NotYet \/ EndPublish
    <2>1. radio' = [radio EXCEPT !.pc = "receive"]
      BY <1>4 DEF NotYet, EndPublish
    <2>2. radio' \in [pc : RadioPc, last : Nat, words : W] /\ radio'.pc = "receive"
      BY <1>0, <2>1 DEF RadioPc
    <2> QED
      BY <1>4, <2>2 DEF SendCommand, NotYet, EndPublish
  <1>5. CASE BeginPublish
    <2>1. radio' = [radio EXCEPT !.pc = "publish"]
      BY <1>5 DEF BeginPublish
    <2>2. radio' \in [pc : RadioPc, last : Nat, words : W] /\ radio'.pc = "publish"
      BY <1>0, <2>1 DEF RadioPc
    <2> QED
      BY <1>5, <2>2 DEF SendCommand, BeginPublish
  <1>6. CASE GiveUpPublish
    <2>1. radio' = [radio EXCEPT !.pc = "receive", !.words = <<>>]
      BY <1>6 DEF GiveUpPublish
    <2>2. radio' \in [pc : RadioPc, last : Nat, words : W \cup {<<>>}] /\ radio'.pc = "receive"
      BY <1>0, <2>1 DEF RadioPc
    <2> QED
      BY <1>6, <2>2 DEF SendCommand, GiveUpPublish
  <1>7. CASE PublishWord
    <2> DEFINE ws == Tail(radio.words)
    <2>1. radio' = [radio EXCEPT !.words = ws] /\ radio.pc = "publish"
      BY <1>7 DEF PublishWord
    <2> HIDE DEF ws
    <2>2. radio' \in [pc : RadioPc, last : Nat, words : W \cup {ws}] /\ radio'.pc = "publish"
      BY <1>0, <2>1 DEF RadioPc
    <2> QED
      BY <2>1, <2>2 DEF SendCommand
  <1>8. CASE radio' = radio
    BY <1>0, <1>8 DEF SendCommand
  <1> QED
    BY <1>1, <1>2, <1>3, <1>4, <1>5, <1>6, <1>7, <1>8 DEF Next, RadioTask, RatingTask, CommandTask,
       Receive, BeginCopy, CopyEntry, EndCopy, GiveUpCopy, Printed, EnterReader, EnterOpcode,
       EnterData, Tick, vars

LEMMA SendDoes ==
  ASSUME Types, SendCommand
  PROVE  /\ radio.pc = "receive" /\ radio'.pc = "send" /\ slot.opcode # 0
         /\ air' = Append(air, slot) /\ slot' = slot /\ cmd' = cmd
         /\ met' = IF cmd.pc = "data" THEN met \cup {cmd.number} ELSE met
  BY DEF Types, SendCommand

LEMMA SentDoes ==
  ASSUME Types, CommandSent
  PROVE  /\ radio.pc = "send" /\ radio'.pc # "send"
         /\ slot' \in Fields /\ slot'.opcode = 0 /\ slot'.reader = slot.reader
         /\ UNCHANGED <<cmd, air, met>>
  BY DEF Types, CommandSent, Sent, Fields

LEMMA ReaderDoes ==
  ASSUME Types, EnterReader
  PROVE  /\ cmd.pc = "idle" /\ cmd'.pc = "opcode" /\ cmd'.number = cmd.number + 1
         /\ cmd' \in [pc : {"idle", "opcode", "data"}, number : Nat]
         /\ slot' \in Fields /\ slot'.reader = cmd'.number /\ slot'.opcode = slot.opcode
         /\ met' = IF radio.pc # "send" THEN met \cup ({slot.opcode} \ {0}) ELSE met
         /\ UNCHANGED <<radio, air>>
  <1> DEFINE n == cmd.number + 1
  <1>1. n \in Nat /\ slot \in Fields
    BY DEF Types
  <1>2. slot' = [slot EXCEPT !.reader = n] /\ cmd' = [pc |-> "opcode", number |-> n]
    BY DEF EnterReader
  <1> HIDE DEF n
  <1>3. slot' \in Fields /\ slot'.reader = n /\ slot'.opcode = slot.opcode
    BY <1>1, <1>2 DEF Fields
  <1>4. cmd' \in [pc : {"idle", "opcode", "data"}, number : Nat] /\ cmd'.pc = "opcode"
        /\ cmd'.number = n
    BY <1>1, <1>2
  <1> QED
    BY <1>3, <1>4 DEF EnterReader, n

LEMMA OpcodeDoes ==
  ASSUME Types, EnterOpcode
  PROVE  /\ cmd.pc = "opcode" /\ cmd'.pc = "data" /\ cmd'.number = cmd.number
         /\ cmd' \in [pc : {"idle", "opcode", "data"}, number : Nat]
         /\ slot' \in Fields /\ slot'.reader = slot.reader
         /\ slot'.opcode = IF cmd.number \in NopCommand THEN 0 ELSE cmd.number
         /\ met' = IF radio.pc = "send" THEN met \cup {cmd.number} ELSE met
         /\ UNCHANGED <<radio, air>>
  <1> DEFINE k == IF cmd.number \in NopCommand THEN 0 ELSE cmd.number
  <1>1. k \in Nat
    BY DEF Types
  <1>2. slot' = [slot EXCEPT !.opcode = k]
    BY DEF EnterOpcode
  <1> HIDE DEF k
  <1>3. slot' \in Fields /\ slot'.reader = slot.reader /\ slot'.opcode = k
    BY <1>1, <1>2 DEF Types, Fields
  <1>4. cmd' = [cmd EXCEPT !.pc = "data"]
    BY DEF EnterOpcode
  <1>5. cmd' \in [pc : {"idle", "opcode", "data"}, number : Nat] /\ cmd'.pc = "data"
        /\ cmd'.number = cmd.number
    BY <1>4 DEF Types
  <1> QED
    BY <1>3, <1>5 DEF EnterOpcode, k

LEMMA DataDoes ==
  ASSUME Types, EnterData
  PROVE  /\ cmd.pc = "data" /\ cmd'.pc = "idle" /\ cmd'.number = cmd.number
         /\ cmd' \in [pc : {"idle", "opcode", "data"}, number : Nat]
         /\ slot' \in Fields /\ slot'.reader = slot.reader /\ slot'.opcode = slot.opcode
         /\ slot'.data = cmd.number
         /\ UNCHANGED <<radio, air, met>>
  BY DEF Types, EnterData, Fields

LEMMA OtherSteps ==
  ASSUME [Next]_vars, ~ SendCommand, ~ CommandSent, ~ CommandTask
  PROVE  UNCHANGED <<slot, cmd, air, met>>
  BY DEF Next, RadioTask, RatingTask, Receive, NoCommand, UpdateRating, NotYet, BeginPublish,
     GiveUpPublish, PublishWord, EndPublish, BeginCopy, CopyEntry, EndCopy, GiveUpCopy, Printed,
     Tick, vars, command

LEMMA TypesStep ==
  ASSUME Types, [Next]_vars
  PROVE  Types'
  <1>1. now' \in Nat
    BY DEF Types, Next, RadioTask, RatingTask, CommandTask, Receive, SendCommand, CommandSent,
       NoCommand, UpdateRating, NotYet, BeginPublish, GiveUpPublish, PublishWord, EndPublish,
       BeginCopy, CopyEntry, EndCopy, GiveUpCopy, Printed, EnterReader, EnterOpcode, EnterData,
       Tick, vars
  <1>2. cmd' \in [pc : {"idle", "opcode", "data"}, number : Nat] /\ slot' \in Fields
        /\ air' \in Seq(Fields)
    <2>0. cmd \in [pc : {"idle", "opcode", "data"}, number : Nat] /\ slot \in Fields
          /\ air \in Seq(Fields)
      BY DEF Types
    <2>1. CASE SendCommand
      BY <2>0, <2>1, SendDoes
    <2>2. CASE CommandSent
      BY <2>0, <2>2, SentDoes
    <2>3. CASE CommandTask
      BY <2>0, <2>3, ReaderDoes, OpcodeDoes, DataDoes DEF CommandTask
    <2>4. CASE ~ SendCommand /\ ~ CommandSent /\ ~ CommandTask
      BY <2>0, <2>4, OtherSteps
    <2> QED
      BY <2>1, <2>2, <2>3, <2>4
  <1> QED
    BY <1>1, <1>2, RadioTypes DEF Types

-----------------------------------------------------------------------------
(* The commands.                                                           *)
LEMMA AppendedAir ==
  ASSUME Types, SendCommand
  PROVE  /\ DOMAIN air = 1 .. Len(air) /\ Len(air) \in Nat
         /\ DOMAIN air' = (DOMAIN air) \cup {Len(air) + 1} /\ Len(air) + 1 \notin DOMAIN air
         /\ air'[Len(air) + 1] = slot
         /\ \A i \in DOMAIN air : air'[i] = air[i]
  <1>1. air \in Seq(Fields) /\ slot \in Fields /\ air' = Append(air, slot)
    BY SendDoes DEF Types
  <1> QED
    BY <1>1

LEMMA FieldTypes ==
  ASSUME Types
  PROVE  /\ slot.opcode \in Nat /\ slot.reader \in Nat /\ cmd.number \in Nat
         /\ \A i \in DOMAIN air : air[i].opcode \in Nat
  <1>1. \A i \in DOMAIN air : air[i] \in Fields
    BY DEF Types
  <1> QED
    BY <1>1 DEF Types, Fields

LEMMA NumbersStep ==
  ASSUME Types, Numbers, [Next]_vars
  PROVE  Numbers'
  <1>0. /\ slot.opcode \in Nat /\ slot.reader \in Nat /\ cmd.number \in Nat
        /\ \A i \in DOMAIN air : air[i].opcode \in Nat
    BY FieldTypes
  <1>1. CASE SendCommand
    BY <1>0, <1>1, SendDoes, AppendedAir DEF Numbers, Known
  <1>2. CASE CommandSent
    BY <1>0, <1>2, SentDoes DEF Numbers, Known
  <1>3. CASE EnterReader
    BY <1>0, <1>3, ReaderDoes DEF Numbers, Known
  <1>4. CASE EnterOpcode
    BY <1>0, <1>4, OpcodeDoes DEF Numbers, Known
  <1>5. CASE EnterData
    BY <1>0, <1>5, DataDoes DEF Numbers, Known
  <1>6. CASE ~ SendCommand /\ ~ CommandSent /\ ~ CommandTask
    BY <1>6, OtherSteps DEF Numbers, Known
  <1> QED
    BY <1>1, <1>2, <1>3, <1>4, <1>5, <1>6 DEF CommandTask

LEMMA SentOnceStep ==
  ASSUME Types, Numbers, SentOnce, [Next]_vars
  PROVE  SentOnce'
  <1>0. /\ slot.opcode \in Nat /\ cmd.number \in Nat
        /\ \A i \in DOMAIN air : air[i].opcode \in Nat
    BY FieldTypes
  <1>1. CASE SendCommand
    <2>1. \A i \in DOMAIN air : air[i].opcode # slot.opcode
      BY <1>1, SendDoes DEF SentOnce
    <2> QED
      BY <1>1, <2>1, SendDoes, AppendedAir DEF SentOnce
  <1>2. CASE CommandSent
    BY <1>2, SentDoes DEF SentOnce
  <1>3. CASE EnterReader
    BY <1>3, ReaderDoes DEF SentOnce
  <1>4. CASE EnterOpcode
    BY <1>0, <1>4, OpcodeDoes DEF SentOnce, Numbers, Known
  <1>5. CASE EnterData
    BY <1>5, DataDoes DEF SentOnce
  <1>6. CASE ~ SendCommand /\ ~ CommandSent /\ ~ CommandTask
    <2>1. UNCHANGED <<slot, cmd, air>>
      BY <1>6, OtherSteps
    <2>2. radio'.pc # "send" => radio.pc # "send"
      BY <1>6 DEF Next, RadioTask, RatingTask, Receive, NoCommand, UpdateRating, NotYet,
         BeginPublish, GiveUpPublish, PublishWord, EndPublish, BeginCopy, CopyEntry, EndCopy,
         GiveUpCopy, Printed, Tick, vars
    <2> QED
      BY <2>1, <2>2 DEF SentOnce
  <1> QED
    BY <1>1, <1>2, <1>3, <1>4, <1>5, <1>6 DEF CommandTask

LEMMA WholeIs ==
  ASSUME NEW f \in Fields, NEW k, f.reader = k, f.opcode = k, f.data = k
  PROVE  f = Whole(k)
  BY DEF Fields, Whole

LEMMA FateStep ==
  ASSUME Types, Numbers, SentOnce, Fate, [Next]_vars
  PROVE  Fate'
  <1>0. /\ slot \in Fields /\ cmd.number \in Nat /\ slot.opcode \in Nat
        /\ cmd.pc \in {"idle", "opcode", "data"}
        /\ NopCommand \subseteq Nat \ {0}
    BY BeaconRatingAssumption DEF Types, Fields
  <1> SUFFICES ASSUME NEW k \in (1 .. cmd'.number) \ NopCommand, k \notin met'
               PROVE  Sending(k)' \/ Waiting(k)' \/ (k = cmd'.number /\ cmd'.pc = "opcode")
    BY DEF Fate
  <1>1. CASE SendCommand
    <2>1. k \notin met /\ k \in (1 .. cmd.number) \ NopCommand
          /\ (cmd.pc = "data" => k # cmd.number)
      BY <1>1, SendDoes
    <2>2. Sending(k) => Sending(k)'
      BY <1>1, AppendedAir DEF Sending
    <2>3. ASSUME Waiting(k)
          PROVE  Sending(k)'
      <3>1. slot.opcode = k /\ slot.reader = k /\ slot.data = k
        BY <2>1, <2>3 DEF Waiting
      <3>2. slot = Whole(k)
        BY <1>0, <3>1, WholeIs
      <3> QED
        BY <1>1, <3>2, AppendedAir DEF Sending
    <2> QED
      BY <1>1, <2>1, <2>2, <2>3, SendDoes DEF Fate
  <1>2. CASE CommandSent
    <2>1. ~ Waiting(k)
      BY <1>2, SentDoes DEF Waiting
    <2> QED
      BY <1>2, <2>1, SentDoes DEF Fate, Sending
  <1>3. CASE EnterReader
    <2>1. CASE k = cmd'.number
      BY <1>3, <2>1, ReaderDoes
    <2>2. CASE k # cmd'.number
      <3>1. k \in (1 .. cmd.number) \ NopCommand /\ k \notin met
        BY <1>0, <1>3, <2>2, ReaderDoes
      <3>2. ~ Waiting(k)
        <4>1. SUFFICES ASSUME radio.pc # "send", slot.opcode = k
                       PROVE  FALSE
          BY DEF Waiting
        <4>2. k # 0
          BY <1>0, <3>1
        <4> QED
          BY <1>3, <4>1, <4>2, ReaderDoes
      <3> QED
        BY <1>3, <3>1, <3>2, ReaderDoes DEF Fate, Sending
    <2> QED
      BY <2>1, <2>2
  <1>4. CASE EnterOpcode
    <2>1. k \in (1 .. cmd.number) \ NopCommand /\ k \notin met
      BY <1>4, OpcodeDoes
    <2>2. CASE k = cmd.number
      BY <1>4, <2>1, <2>2, OpcodeDoes DEF Waiting, Numbers
    <2>3. CASE k # cmd.number
      BY <1>4, <2>1, <2>3, OpcodeDoes DEF Fate, Waiting, Sending
    <2> QED
      BY <2>2, <2>3
  <1>5. CASE EnterData
    BY <1>5, DataDoes DEF Fate, Waiting, Sending
  <1>6. CASE ~ SendCommand /\ ~ CommandSent /\ ~ CommandTask
    <2>1. UNCHANGED <<slot, cmd, air, met>>
      BY <1>6, OtherSteps
    <2>2. radio'.pc = "send" => radio.pc = "send"
      BY <1>6, RadioTypes
    <2> QED
      BY <2>1, <2>2 DEF Fate, Waiting, Sending
  <1> QED
    BY <1>1, <1>2, <1>3, <1>4, <1>5, <1>6 DEF CommandTask

LEMMA IInvInit ==
  ASSUME Init
  PROVE  IInv
  <1>1. radio \in [pc : RadioPc, last : Nat, words : {<<>>}]
    BY DEF Init, RadioPc
  <1>2. Types
    <2>1. cmd = [pc |-> "idle", number |-> 0] /\ slot = [reader |-> 0, opcode |-> 0, data |-> 0]
          /\ air = <<>> /\ now = 0
      BY DEF Init
    <2>2. cmd \in [pc : {"idle", "opcode", "data"}, number : Nat] /\ slot \in Fields
      BY <2>1 DEF Fields
    <2>3. air \in Seq(Fields) /\ now \in Nat
      BY <2>1
    <2> QED
      BY <1>1, <2>2, <2>3 DEF Types
  <1>3. slot.opcode = 0 /\ cmd.pc = "idle" /\ cmd.number = 0 /\ DOMAIN air = {}
    BY DEF Init
  <1> QED
    BY <1>2, <1>3 DEF IInv, Numbers, Known, SentOnce, Fate

LEMMA FateOfCommands ==
  ASSUME IInv
  PROVE  CommandFate
  <1> SUFFICES ASSUME NEW k \in (1 .. cmd.number) \ NopCommand,
                      NEW sent, sent = {i \in DOMAIN air : air[i].opcode = k}
               PROVE  /\ Cardinality(sent) <= 1
                      /\ cmd.pc = "idle" /\ slot.opcode = 0 /\ k \notin met =>
                           \E i \in sent : air[i] = [reader |-> k, opcode |-> k, data |-> k]
    BY DEF CommandFate
  <1>1. \A i, j \in sent : i = j
    BY DEF IInv, SentOnce
  <1>2. Cardinality(sent) <= 1
    <2>1. CASE sent = {}
      <3>1. Cardinality({}) = 0
        BY FS_EmptySet
      <3>2. Cardinality(sent) = 0
        BY <2>1, <3>1
      <3> QED
        BY <3>2
    <2>2. CASE sent # {}
      <3>1. PICK i : sent = {i}
        BY ZenonT(40), <1>1, <2>2
      <3>2. Cardinality({i}) = 1
        BY FS_Singleton
      <3>3. Cardinality(sent) = 1
        BY <3>1, <3>2
      <3> QED
        BY <3>3
    <2> QED
      BY <2>1, <2>2
  <1>3. ASSUME cmd.pc = "idle", slot.opcode = 0, k \notin met
        PROVE  \E i \in sent : air[i] = [reader |-> k, opcode |-> k, data |-> k]
    <2>1. k # 0 /\ cmd.number \in Nat
      BY DEF IInv, Types
    <2>2. Sending(k)
      BY <1>3, <2>1 DEF IInv, Fate, Waiting
    <2>3. PICK i \in DOMAIN air : air[i] = Whole(k)
      BY <2>2 DEF Sending
    <2>4. air[i].opcode = k
      BY <2>3 DEF Whole
    <2> QED
      BY <2>3, <2>4 DEF Whole
  <1> QED
    BY <1>2, <1>3

(* The inductive invariant: where a command is, with what fields.          *)
THEOREM InvariantHolds ==
  Spec => []IInv
  <1>1. Init => IInv
    BY IInvInit
  <1>2. IInv /\ [Next]_vars => IInv'
    BY TypesStep, NumbersStep, SentOnceStep, FateStep DEF IInv
  <1> QED
    BY <1>1, <1>2, PTL DEF Spec

(* wifi_tx_reader_command() 311-314 and vnRFtaskRxTx() 442-450 share the   *)
(* fields of a command without a lock: still no command is sent twice, and *)
(* one that neither met a transmission nor the next command is sent with   *)
(* all of its fields.                                                      *)
THEOREM CommandsSentWholeAndOnce ==
  Spec => []CommandFate
  <1>1. IInv => CommandFate
    BY FateOfCommands
  <1> QED
    BY <1>1, InvariantHolds, PTL

-----------------------------------------------------------------------------
(* Numbers, and the members of a set in order.                             *)
(* A set of numbers has a least one.                                       *)
LEMMA LeastNumber ==
  ASSUME NEW T, T \subseteq Nat, T # {}
  PROVE  \E x \in T : \A y \in T : x <= y
  <1> DEFINE Segment == {0 .. n : n \in T}
             Shorter == StrictSubsetOrdering(Nat)
  <1>1. Segment \subseteq FiniteSubsetsOf(Nat)
    <2> SUFFICES ASSUME NEW n \in T PROVE 0 .. n \in FiniteSubsetsOf(Nat)
      OBVIOUS
    <2>1. IsFiniteSet(0 .. n)
      BY FS_Interval
    <2> QED
      BY <2>1 DEF FiniteSubsetsOf
  <1>2. IsWellFoundedOn(Shorter, FiniteSubsetsOf(Nat))
    BY FS_StrictSubsetOrderingWellFounded
  <1>3. Segment # {}
    OBVIOUS
  <1>4. PICK s \in Segment : \A u \in Segment : ~ (<<u, s>> \in Shorter)
    <2> HIDE DEF Segment, Shorter
    <2> QED
      BY <1>1, <1>2, <1>3, WFMin
  <1>5. PICK x \in T : s = 0 .. x
    OBVIOUS
  <1>6. ASSUME NEW y \in T, y < x
        PROVE  FALSE
    <2>1. 0 .. y \subseteq 0 .. x /\ 0 .. y # 0 .. x
      BY <1>6
    <2>2. <<0 .. y, 0 .. x>> \in Shorter
      BY <2>1 DEF StrictSubsetOrdering
    <2> QED
      BY <2>2, <1>4, <1>5
  <1> QED
    BY <1>6

LEMMA MinOfTwo ==
  ASSUME NEW a \in Nat, NEW b \in Nat
  PROVE  Min({a, b}) \in Nat /\ Min({a, b}) <= a /\ Min({a, b}) <= b
  <1>1. \E x \in {a, b} : \A y \in {a, b} : x <= y
    OBVIOUS
  <1>2. Min({a, b}) \in {a, b} /\ \A y \in {a, b} : Min({a, b}) <= y
    BY <1>1 DEF Min
  <1> QED
    BY <1>2

(* A set of numbers that holds 0, and with each number the next up to n.   *)
LEMMA Up ==
  ASSUME NEW n \in Nat, NEW T, 0 \in T, \A i \in 1 .. n : i - 1 \in T => i \in T
  PROVE  \A i \in 0 .. n : i \in T
  <1> DEFINE U == {i \in 0 .. n : i \notin T}
  <1>1. SUFFICES ASSUME U # {}
                 PROVE  FALSE
    OBVIOUS
  <1>2. U \subseteq Nat
    OBVIOUS
  <1>3. PICK x \in U : \A y \in U : x <= y
    <2> HIDE DEF U
    <2> QED
      BY <1>1, <1>2, LeastNumber
  <1>4. x \in 1 .. n /\ x - 1 \in 0 .. n
    OBVIOUS
  <1>5. x - 1 \in T
    BY <1>3, <1>4
  <1> QED
    BY <1>4, <1>5

(* A strict order of all the members of a set.                             *)
StrictOrder(S, R) ==
  /\ \A x \in S : <<x, x>> \notin R
  /\ \A x, y, z \in S : <<x, y>> \in R /\ <<y, z>> \in R => <<x, z>> \in R
  /\ \A x, y \in S : x # y => <<x, y>> \in R \/ <<y, x>> \in R

Ascends(s, n, R) == \A i, j \in 1 .. n : i < j => <<s[i], s[j]>> \in R

(* The rank of a member is its place.                                      *)
LEMMA EnumerationExists ==
  ASSUME NEW S, IsFiniteSet(S), NEW R, StrictOrder(S, R)
  PROVE  \E s \in [1 .. Cardinality(S) -> S] : Ascends(s, Cardinality(S), R)
  <1> DEFINE n == Cardinality(S)
             Lower(x) == {y \in S : <<y, x>> \in R}
             rank == [x \in S |-> Cardinality(Lower(x)) + 1]
  <1>1. n \in Nat /\ IsFiniteSet(1 .. n) /\ Cardinality(1 .. n) = n
    <2>1. n \in Nat
      BY FS_CardinalityType
    <2> HIDE DEF n
    <2> QED
      BY <2>1, FS_Interval
  <1>2. ASSUME NEW x \in S
        PROVE  IsFiniteSet(Lower(x)) /\ Cardinality(Lower(x)) \in Nat
               /\ Cardinality(Lower(x)) + 1 <= n
    <2>1. Lower(x) \in SUBSET S /\ x \notin Lower(x)
      BY DEF StrictOrder
    <2>2. IsFiniteSet(Lower(x)) /\ Cardinality(Lower(x)) <= n
          /\ (n = Cardinality(Lower(x)) => S = Lower(x))
      BY <2>1, FS_Subset
    <2>3. Cardinality(Lower(x)) \in Nat
      BY <2>2, FS_CardinalityType
    <2> HIDE DEF n, Lower
    <2> QED
      BY <1>1, <2>1, <2>2, <2>3
  <1>3. ASSUME NEW x \in S, NEW y \in S, <<x, y>> \in R
        PROVE  rank[x] < rank[y]
    <2>1. Lower(x) \in SUBSET Lower(y) /\ x \in Lower(y) /\ x \notin Lower(x)
      BY <1>3 DEF StrictOrder
    <2>2. Cardinality(Lower(x)) <= Cardinality(Lower(y))
          /\ (Cardinality(Lower(y)) = Cardinality(Lower(x)) => Lower(y) = Lower(x))
      BY <1>2, <2>1, FS_Subset
    <2>3. Cardinality(Lower(x)) \in Nat /\ Cardinality(Lower(y)) \in Nat
      BY <1>2
    <2>4. rank[x] = Cardinality(Lower(x)) + 1 /\ rank[y] = Cardinality(Lower(y)) + 1
      OBVIOUS
    <2> HIDE DEF n, Lower, rank
    <2> QED
      BY <2>1, <2>2, <2>3, <2>4
  <1>4. rank \in [S -> 1 .. n]
    <2>1. ASSUME NEW x \in S
          PROVE  Cardinality(Lower(x)) + 1 \in 1 .. n
      <3> HIDE DEF n, Lower
      <3> QED
        BY <1>1, <1>2
    <2> HIDE DEF n, Lower
    <2> QED
      BY <2>1
  <1> HIDE DEF rank, n, Lower
  <1>5. \A x, y \in S : rank[x] = rank[y] => x = y
    <2> SUFFICES ASSUME NEW x \in S, NEW y \in S, x # y
                 PROVE  rank[x] # rank[y]
      OBVIOUS
    <2>1. rank[x] \in Int /\ rank[y] \in Int
      BY <1>1, <1>4
    <2>2. <<x, y>> \in R \/ <<y, x>> \in R
      BY DEF StrictOrder
    <2> QED
      BY <1>3, <2>1, <2>2
  <1>6. rank \in Injection(S, 1 .. n)
    BY <1>4, <1>5, Fun_IsInj
  <1>7. rank \in Surjection(S, 1 .. n)
    BY <1>1, <1>6, FS_Injection DEF n
  <1>8. \A k \in 1 .. n : \E x \in S : rank[x] = k
    BY <1>7 DEF Surjection
  <1> DEFINE s == [k \in 1 .. n |-> CHOOSE x \in S : rank[x] = k]
  <1>9. ASSUME NEW k \in 1 .. n
        PROVE  s[k] \in S /\ rank[s[k]] = k
    BY <1>8
  <1>10. s \in [1 .. n -> S]
    BY <1>9
  <1> HIDE DEF s
  <1>11. ASSUME NEW i \in 1 .. n, NEW j \in 1 .. n, i < j
         PROVE  <<s[i], s[j]>> \in R
    <2>1. s[i] \in S /\ s[j] \in S /\ rank[s[i]] = i /\ rank[s[j]] = j
      BY <1>9
    <2>2. s[i] # s[j]
      BY <1>1, <1>11, <2>1
    <2>3. ~ (<<s[j], s[i]>> \in R)
      <3>1. SUFFICES ASSUME <<s[j], s[i]>> \in R
                     PROVE  FALSE
        OBVIOUS
      <3>2. rank[s[j]] < rank[s[i]]
        BY <1>3, <2>1, <3>1
      <3> QED
        BY <1>1, <1>11, <2>1, <3>2
    <2> QED
      BY <2>1, <2>2, <2>3 DEF StrictOrder
  <1> QED
    BY <1>10, <1>11 DEF Ascends, n

(* It meets each member once.                                              *)
LEMMA EnumerationIsOnto ==
  ASSUME NEW S, IsFiniteSet(S), NEW R, StrictOrder(S, R),
         NEW s \in [1 .. Cardinality(S) -> S], Ascends(s, Cardinality(S), R)
  PROVE  s \in Bijection(1 .. Cardinality(S), S)
  <1> DEFINE n == Cardinality(S)
  <1>1. n \in Nat
    BY FS_CardinalityType
  <1>2. s \in [1 .. n -> S] /\ Ascends(s, n, R)
    OBVIOUS
  <1>3. n = Cardinality(S)
    OBVIOUS
  <1> HIDE DEF n
  <1>4. IsFiniteSet(1 .. n) /\ Cardinality(1 .. n) = n
    BY <1>1, FS_Interval
  <1>5. ASSUME NEW i \in 1 .. n, NEW j \in 1 .. n, s[i] = s[j]
        PROVE  i = j
    <2>1. s[i] \in S /\ s[j] \in S
      BY <1>2
    <2>2. ~ (i < j) /\ ~ (j < i)
      BY <1>2, <1>5, <2>1 DEF Ascends, StrictOrder
    <2> QED
      BY <1>1, <2>2
  <1>6. s \in Injection(1 .. n, S)
    BY <1>2, <1>5, Fun_IsInj
  <1>7. s \in Surjection(1 .. n, S)
    BY <1>3, <1>4, <1>6, FS_Injection
  <1> QED
    BY <1>3, <1>6, <1>7 DEF Bijection

(* There is no other.                                                      *)
Enumerates(s, n, S, R) ==
  /\ s \in [1 .. n -> S]
  /\ Ascends(s, n, R)
  /\ \A x \in S : \E i \in 1 .. n : s[i] = x

LEMMA EnumerationIsUnique ==
  ASSUME NEW S, NEW R, StrictOrder(S, R), NEW n \in Nat,
         NEW s, Enumerates(s, n, S, R), NEW u, Enumerates(u, n, S, R)
  PROVE  s = u
  <1> USE DEF Enumerates
  <1> DEFINE T == {k \in 1 .. n : s[k] # u[k]}
  <1>0. (\A k \in 1 .. n : s[k] = u[k]) => s = u
    OBVIOUS
  <1>1. SUFFICES ASSUME T # {}
                 PROVE  FALSE
    BY <1>0
  <1>2. T \subseteq Nat
    OBVIOUS
  <1>3. PICK k \in T : \A y \in T : k <= y
    <2> HIDE DEF T
    <2> QED
      BY <1>1, <1>2, LeastNumber
  <1>4. k \in 1 .. n /\ s[k] # u[k] /\ s[k] \in S /\ u[k] \in S
    OBVIOUS
  <1>5. \A j \in 1 .. n : j < k => s[j] = u[j]
    <2> SUFFICES ASSUME NEW j \in 1 .. n, j < k
                 PROVE  s[j] = u[j]
      OBVIOUS
    <2>1. ~ (k <= j)
      BY <1>4
    <2> QED
      BY <1>3, <2>1
  <1>6. PICK j \in 1 .. n : u[j] = s[k]
    BY <1>4
  <1>7. PICK i \in 1 .. n : s[i] = u[k]
    BY <1>4
  <1> HIDE DEF T
  <1>8. k < j
    <2>1. ~ (j < k)
      <3>1. SUFFICES ASSUME j < k
                     PROVE  FALSE
        OBVIOUS
      <3>2. s[j] = s[k]
        BY <1>5, <1>6, <3>1
      <3>3. <<s[j], s[k]>> \in R
        BY <1>4, <3>1 DEF Ascends
      <3> QED
        BY <1>4, <3>2, <3>3 DEF StrictOrder
    <2>2. j # k
      BY <1>4, <1>6
    <2> QED
      BY <1>4, <2>1, <2>2
  <1>9. k < i
    <2>1. ~ (i < k)
      <3>1. SUFFICES ASSUME i < k
                     PROVE  FALSE
        OBVIOUS
      <3>2. u[i] = u[k]
        BY <1>5, <1>7, <3>1
      <3>3. <<u[i], u[k]>> \in R
        BY <1>4, <3>1 DEF Ascends
      <3> QED
        BY <1>4, <3>2, <3>3 DEF StrictOrder
    <2>2. i # k
      BY <1>4, <1>7
    <2> QED
      BY <1>4, <2>1, <2>2
  <1>10. <<u[k], s[k]>> \in R
    BY <1>4, <1>6, <1>8 DEF Ascends
  <1>11. <<s[k], u[k]>> \in R
    BY <1>4, <1>7, <1>9 DEF Ascends
  <1> QED
    BY <1>4, <1>10, <1>11 DEF StrictOrder

-----------------------------------------------------------------------------
(* The passes over the words.                                              *)
WordSet == [strength : Nat, rest : Nat, oid : Nat]

LEMMA WordParts ==
  /\ \A w \in WordSet : w.strength \in Nat /\ w.rest \in Nat /\ w.oid \in Nat
  /\ \A v, w \in WordSet :
       v.strength = w.strength /\ v.rest = w.rest /\ v.oid = w.oid => v = w
  /\ \A a, b, c \in Nat :
       /\ Word(a, b, c) \in WordSet
       /\ Word(a, b, c).strength = a /\ Word(a, b, c).rest = b /\ Word(a, b, c).oid = c
  /\ ZeroWord \in WordSet /\ ZeroWord.oid = 0
  BY DEF WordSet, Word, ZeroWord

LEMMA WordEqual ==
  ASSUME NEW v \in WordSet, NEW w \in WordSet,
         v.strength = w.strength, v.rest = w.rest, v.oid = w.oid
  PROVE  v = w
  BY WordParts

LEMMA BelowStrength ==
  ASSUME NEW v \in WordSet, NEW w \in WordSet, Below(v, w)
  PROVE  v.strength <= w.strength
  <1>1. v.strength \in Nat /\ w.strength \in Nat
    BY WordParts
  <1> QED
    BY <1>1 DEF Below

LEMMA BelowOrders ==
  /\ \A v \in WordSet : ~ Below(v, v)
  /\ \A u, v, w \in WordSet : Below(u, v) /\ Below(v, w) => Below(u, w)
  /\ \A v, w \in WordSet : v # w => Below(v, w) \/ Below(w, v)
  <1> HIDE DEF WordSet
  <1>1. \A v \in WordSet : ~ Below(v, v)
    BY WordParts DEF Below
  <1>2. ASSUME NEW u \in WordSet, NEW v \in WordSet, NEW w \in WordSet, Below(u, v), Below(v, w)
        PROVE  Below(u, w)
    <2>1. /\ u.strength \in Nat /\ u.rest \in Nat /\ u.oid \in Nat
          /\ v.strength \in Nat /\ v.rest \in Nat /\ v.oid \in Nat
          /\ w.strength \in Nat /\ w.rest \in Nat /\ w.oid \in Nat
      BY WordParts
    <2> QED
      BY <1>2, <2>1 DEF Below
  <1>3. ASSUME NEW v \in WordSet, NEW w \in WordSet, v # w
        PROVE  Below(v, w) \/ Below(w, v)
    <2>1. /\ v.strength \in Nat /\ v.rest \in Nat /\ v.oid \in Nat
          /\ w.strength \in Nat /\ w.rest \in Nat /\ w.oid \in Nat
          /\ ~ (v.strength = w.strength /\ v.rest = w.rest /\ v.oid = w.oid)
      BY <1>3, WordParts
    <2> QED
      BY <2>1 DEF Below
  <1> QED
    BY <1>1, <1>2, <1>3

Rises(s, n) == \A i, j \in 1 .. n : i < j => Below(s[i], s[j]) \/ s[i] = s[j]

(* sort() makes a permutation that rises.                                  *)
LEMMA AscendingIs ==
  ASSUME NEW n \in Nat, NEW w \in [1 .. n -> WordSet]
  PROVE  \E p \in Bijection(1 .. n, 1 .. n) :
           /\ Ascending(w) = [k \in 1 .. n |-> w[p[k]]]
           /\ Rises(Ascending(w), n)
  <1> DEFINE S == 1 .. n
             before(i, j) == Below(w[i], w[j]) \/ (w[i] = w[j] /\ i < j)
             R == {q \in S \X S : before(q[1], q[2])}
             p == CHOOSE s \in [1 .. Cardinality(S) -> S] :
                    \A i, j \in DOMAIN s : i < j => before(s[i], s[j])
  <1>1. IsFiniteSet(S) /\ Cardinality(S) = n
    BY FS_Interval
  <1>2. \A i, j \in S : <<i, j>> \in R <=> before(i, j)
    OBVIOUS
  <1>3. \A i \in S : i \in Nat /\ w[i] \in WordSet
    OBVIOUS
  <1>4. StrictOrder(S, R)
    <2>1. \A i \in S : ~ before(i, i)
      BY <1>3, BelowOrders
    <2>2. \A i, j, k \in S : before(i, j) /\ before(j, k) => before(i, k)
      <3> HIDE DEF S
      <3> SUFFICES ASSUME NEW i \in S, NEW j \in S, NEW k \in S, before(i, j), before(j, k)
                   PROVE  before(i, k)
        OBVIOUS
      <3>1. i \in Nat /\ j \in Nat /\ k \in Nat
            /\ w[i] \in WordSet /\ w[j] \in WordSet /\ w[k] \in WordSet
        BY <1>3
      <3>2. Below(w[i], w[j]) /\ Below(w[j], w[k]) => Below(w[i], w[k])
        BY <3>1, BelowOrders
      <3> QED
        BY <3>1, <3>2
    <2>3. \A i, j \in S : i # j => before(i, j) \/ before(j, i)
      <3> HIDE DEF S
      <3> SUFFICES ASSUME NEW i \in S, NEW j \in S, i # j
                   PROVE  before(i, j) \/ before(j, i)
        OBVIOUS
      <3>1. i \in Nat /\ j \in Nat /\ w[i] \in WordSet /\ w[j] \in WordSet
        BY <1>3
      <3>2. w[i] # w[j] => Below(w[i], w[j]) \/ Below(w[j], w[i])
        BY <3>1, BelowOrders
      <3> QED
        BY <3>1, <3>2
    <2> HIDE DEF S, R, before
    <2> QED
      BY <1>2, <2>1, <2>2, <2>3 DEF StrictOrder
  <1>5. Ascending(w) = [k \in 1 .. n |-> w[p[k]]]
    BY DEF Ascending, Ordered
  <1>6. p \in [1 .. n -> S] /\ \A i, j \in 1 .. n : i < j => before(p[i], p[j])
    <2> HIDE DEF S, R, before
    <2>1. PICK s \in [1 .. Cardinality(S) -> S] : Ascends(s, Cardinality(S), R)
      BY <1>1, <1>4, EnumerationExists
    <2>2. s \in [1 .. n -> S]
      BY <1>1, <2>1
    <2>3. \A i, j \in DOMAIN s : i < j => before(s[i], s[j])
      BY <1>1, <1>2, <2>1, <2>2 DEF Ascends
    <2>4. \E u \in [1 .. Cardinality(S) -> S] :
             \A i, j \in DOMAIN u : i < j => before(u[i], u[j])
      BY <2>1, <2>3
    <2>5. p \in [1 .. Cardinality(S) -> S] /\ \A i, j \in DOMAIN p : i < j => before(p[i], p[j])
      BY <2>4
    <2> HIDE DEF p
    <2>6. p \in [1 .. n -> S] /\ DOMAIN p = 1 .. n
      BY <1>1, <2>5
    <2> QED
      BY <2>5, <2>6
  <1> HIDE DEF p
  <1>7. p \in Bijection(S, S)
    <2>1. Ascends(p, n, R)
      <3> HIDE DEF R, before
      <3>1. \A i \in 1 .. n : p[i] \in S
        BY <1>6
      <3> QED
        BY <1>2, <1>6, <3>1 DEF Ascends
    <2>2. p \in [1 .. Cardinality(S) -> S] /\ Ascends(p, Cardinality(S), R)
      BY <1>1, <1>6, <2>1
    <2>3. p \in Bijection(1 .. Cardinality(S), S)
      <3> HIDE DEF R, S
      <3> QED
        BY <1>1, <1>4, <2>2, EnumerationIsOnto
    <2> QED
      BY <1>1, <2>3
  <1>8. Rises(Ascending(w), n)
    BY <1>5, <1>6 DEF Rises
  <1> QED
    BY <1>5, <1>7, <1>8

(* A pass is defined by its steps.                                         *)
StepOf(F, n, S) == F \in [S \X (1 .. n) -> S]

Pass(f, n, S, b, F) ==
  /\ f \in [0 .. n -> S]
  /\ f[0] = b
  /\ \A i \in 1 .. n : f[i] = F[<<f[i - 1], i>>]

LEMMA PassExists ==
  ASSUME NEW n \in Nat, NEW S, NEW b \in S, NEW F, StepOf(F, n, S)
  PROVE  \E f : Pass(f, n, S, b, F)
  <1> DEFINE Done(f, m) == Pass(f, m, S, b, F)
             T == {m \in 0 .. n : \E f : Done(f, m)}
  <1> USE DEF StepOf, Pass
  <1>1. 0 \in T
    <2>1. Done([i \in 0 .. 0 |-> b], 0)
      OBVIOUS
    <2>2. 0 \in 0 .. n
      OBVIOUS
    <2> HIDE DEF Done
    <2> QED
      BY <2>1, <2>2
  <1>2. ASSUME NEW m \in 1 .. n, m - 1 \in T
        PROVE  m \in T
    <2>1. PICK f : Done(f, m - 1)
      BY <1>2
    <2> DEFINE e == F[<<f[m - 1], m>>]
               g == [i \in 0 .. m |-> IF i = m THEN e ELSE f[i]]
    <2>2. m - 1 \in 0 .. (m - 1)
      OBVIOUS
    <2>3. f[m - 1] \in S
      BY <2>1, <2>2
    <2>4. e \in S
      BY <2>3
    <2>5. \A i \in 0 .. m : i # m => i \in 0 .. (m - 1)
      OBVIOUS
    <2>6. g \in [0 .. m -> S]
      <3> HIDE DEF e
      <3> QED
        BY <2>1, <2>4, <2>5
    <2>7. g[0] = b /\ g[m] = e /\ \A i \in 0 .. (m - 1) : g[i] = f[i]
      <3> HIDE DEF e
      <3> QED
        BY <2>1
    <2>8. ASSUME NEW i \in 1 .. m
          PROVE  g[i] = F[<<g[i - 1], i>>]
      <3>1. i - 1 \in 0 .. (m - 1)
        OBVIOUS
      <3>2. g[i - 1] = f[i - 1]
        <4> HIDE DEF g
        <4> QED
          BY <2>7, <3>1
      <3>3. CASE i = m
        <4> HIDE DEF g
        <4> QED
          BY <2>7, <3>2, <3>3
      <3>4. CASE i # m
        <4>1. i \in 1 .. (m - 1) /\ i \in 0 .. (m - 1)
          BY <3>4
        <4>2. g[i] = f[i] /\ f[i] = F[<<f[i - 1], i>>]
          <5> HIDE DEF g, e
          <5> QED
            BY <2>1, <2>7, <4>1
        <4> HIDE DEF g
        <4> QED
          BY <3>2, <4>2
      <3> QED
        BY <3>3, <3>4
    <2>9. Done(g, m)
      <3> HIDE DEF g, e
      <3> QED
        BY <2>6, <2>7, <2>8
    <2> HIDE DEF Done, g
    <2> QED
      BY <2>9
  <1> HIDE DEF Done
  <1>3. \A m \in 0 .. n : m \in T
    <2> HIDE DEF T
    <2> QED
      BY <1>1, <1>2, Up
  <1>4. PICK f : Done(f, n)
    BY <1>3
  <1> QED
    BY <1>4 DEF Done

Accounts == [word : WordSet, count : Nat, out : Seq(WordSet)]

(* What a step does to the account.                                        *)
LEMMA GrownIs ==
  ASSUME NEW a \in Accounts
  PROVE  /\ Grown(a) \in Accounts
         /\ Grown(a).word = a.word /\ Grown(a).count = a.count + 1 /\ Grown(a).out = a.out
  <1> DEFINE c == a.count + 1
  <1>1. c \in Nat
    BY DEF Accounts
  <1>2. Grown(a) = [a EXCEPT !.count = c]
    BY DEF Grown
  <1> HIDE DEF c
  <1>3. Grown(a) \in Accounts /\ Grown(a).word = a.word /\ Grown(a).count = c
        /\ Grown(a).out = a.out
    BY <1>1, <1>2 DEF Accounts
  <1> QED
    BY <1>3 DEF c

(* A word with a count.                                                    *)
Tallied(w, c) == [w EXCEPT !.rest = COUNT_MAX - Min({c, COUNT_MAX})]

LEMMA TalliedIs ==
  ASSUME NEW w \in WordSet, NEW c \in Nat
  PROVE  /\ Tallied(w, c) \in WordSet
         /\ Tallied(w, c).strength = w.strength /\ Tallied(w, c).oid = w.oid
         /\ Tallied(w, c).rest = COUNT_MAX - Min({c, COUNT_MAX})
  <1> DEFINE r == COUNT_MAX - Min({c, COUNT_MAX})
  <1>1. COUNT_MAX \in Nat
    BY BeaconRatingAssumption
  <1>2. Min({c, COUNT_MAX}) \in Nat /\ Min({c, COUNT_MAX}) <= COUNT_MAX
    BY <1>1, MinOfTwo
  <1>3. r \in Nat
    BY <1>1, <1>2
  <1>4. Tallied(w, c) = [w EXCEPT !.rest = r]
    BY DEF Tallied
  <1> HIDE DEF r
  <1>5. Tallied(w, c) \in WordSet /\ Tallied(w, c).strength = w.strength
        /\ Tallied(w, c).oid = w.oid /\ Tallied(w, c).rest = r
    BY <1>3, <1>4 DEF WordSet
  <1> QED
    BY <1>5 DEF r

LEMMA ClosedIs ==
  ASSUME NEW n \in Nat \ {0}, NEW s \in [1 .. n -> WordSet], NEW a \in Accounts, NEW i \in 1 .. n
  PROVE  /\ Closed(s, a, i) \in Accounts
         /\ i < n => Closed(s, a, i).word = s[i + 1]
         /\ Closed(s, a, i).count = 1
         /\ Closed(s, a, i).out = Append(a.out, Tallied(a.word, a.count))
  <1> DEFINE m == Min({i + 1, n})
             o == Append(a.out, Tallied(a.word, a.count))
  <1>1. Len(s) = n
    OBVIOUS
  <1>2. m \in 1 .. n /\ (i < n => m = i + 1)
    <2>1. i + 1 \in Nat /\ n \in Nat
      OBVIOUS
    <2>2. m \in {i + 1, n} /\ m <= i + 1 /\ m <= n
      <3>1. \E x \in {i + 1, n} : \A y \in {i + 1, n} : x <= y
        BY <2>1
      <3> QED
        BY <3>1 DEF Min
    <2> HIDE DEF m
    <2> QED
      BY <2>2
  <1>3. a.word \in WordSet /\ a.count \in Nat /\ a.out \in Seq(WordSet)
    BY DEF Accounts
  <1>4. o \in Seq(WordSet)
    <2>1. Tallied(a.word, a.count) \in WordSet
      BY <1>3, TalliedIs
    <2> QED
      BY <1>3, <2>1
  <1>5. Closed(s, a, i) = [word |-> s[m], count |-> 1, out |-> o]
    BY <1>1 DEF Closed, Tallied
  <1> HIDE DEF m, o
  <1>6. s[m] \in WordSet
    BY <1>2
  <1>7. Closed(s, a, i) \in Accounts /\ Closed(s, a, i).word = s[m]
        /\ Closed(s, a, i).count = 1 /\ Closed(s, a, i).out = o
    BY <1>4, <1>5, <1>6 DEF Accounts
  <1> QED
    BY <1>2, <1>7 DEF o

LEMMA CountedIs ==
  ASSUME NEW n \in Nat \ {0}, NEW s \in [1 .. n -> WordSet]
  PROVE  \E f \in [0 .. n -> Accounts] :
           /\ f[0] = Start(s)
           /\ \A i \in 1 .. n : f[i] = CountStep(s, f[i - 1], i)
           /\ Counted(s) = f[n].out
  <1> DEFINE F == [q \in Accounts \X (1 .. n) |-> CountStep(s, q[1], q[2])]
             at == CHOOSE f : f = [i \in 0 .. n |-> IF i = 0 THEN Start(s)
                                                    ELSE CountStep(s, f[i - 1], i)]
  <1>1. Len(s) = n
    OBVIOUS
  <1>2. Start(s) \in Accounts
    <2>1. s[1] \in WordSet /\ 1 \in Nat /\ <<>> \in Seq(WordSet)
      OBVIOUS
    <2> QED
      BY <2>1 DEF Start, Accounts
  <1>3. ASSUME NEW a \in Accounts, NEW i \in 1 .. n
        PROVE  CountStep(s, a, i) \in Accounts
    BY GrownIs, ClosedIs DEF CountStep
  <1>4. F \in [Accounts \X (1 .. n) -> Accounts]
    BY <1>3
  <1>5. \A a \in Accounts, i \in 1 .. n : F[<<a, i>>] = CountStep(s, a, i)
    OBVIOUS
  <1> HIDE DEF F
  <1>6. PICK f \in [0 .. n -> Accounts] :
               f[0] = Start(s) /\ \A i \in 1 .. n : f[i] = F[<<f[i - 1], i>>]
    <2>1. n \in Nat /\ StepOf(F, n, Accounts)
      BY <1>4 DEF StepOf
    <2>2. \E f : Pass(f, n, Accounts, Start(s), F)
      BY <1>2, <2>1, PassExists
    <2> QED
      BY <2>2 DEF Pass
  <1>7. ASSUME NEW i \in 1 .. n
        PROVE  f[i] = CountStep(s, f[i - 1], i)
    <2>1. i - 1 \in 0 .. n
      OBVIOUS
    <2> QED
      BY <1>5, <1>6, <2>1
  <1>8. f = [i \in 0 .. n |-> IF i = 0 THEN Start(s) ELSE CountStep(s, f[i - 1], i)]
    <2>1. \A i \in 0 .. n : i # 0 => i \in 1 .. n
      OBVIOUS
    <2>2. \A i \in 0 .. n : f[i] = IF i = 0 THEN Start(s) ELSE CountStep(s, f[i - 1], i)
      BY <1>6, <1>7, <2>1
    <2> QED
      BY <2>2
  <1>9. at = [i \in 0 .. n |-> IF i = 0 THEN Start(s) ELSE CountStep(s, at[i - 1], i)]
    BY <1>8
  <1>10. Counted(s) = at[n].out
    BY <1>1 DEF Counted
  <1> HIDE DEF at
  <1>11. at[0] = Start(s) /\ \A i \in 1 .. n : at[i] = CountStep(s, at[i - 1], i)
    <2>1. \A i \in 1 .. n : i \in 0 .. n /\ i # 0
      OBVIOUS
    <2>2. 0 \in 0 .. n
      OBVIOUS
    <2> QED
      BY <1>9, <2>1, <2>2
  <1>12. \A i \in 0 .. n : at[i] \in Accounts
    <2> DEFINE T == {i \in 0 .. n : at[i] \in Accounts}
    <2>1. 0 \in T
      BY <1>2, <1>11
    <2>2. ASSUME NEW i \in 1 .. n, i - 1 \in T
          PROVE  i \in T
      BY <1>3, <1>11, <2>2
    <2>3. \A i \in 0 .. n : i \in T
      <3> HIDE DEF T
      <3>1. n \in Nat
        OBVIOUS
      <3> QED
        BY <2>1, <2>2, <3>1, Up
    <2> QED
      BY <2>3
  <1>13. at \in [0 .. n -> Accounts]
    <2> DEFINE e(i) == IF i = 0 THEN Start(s) ELSE CountStep(s, at[i - 1], i)
    <2>1. at = [i \in 0 .. n |-> e(i)]
      BY <1>9
    <2> HIDE DEF e
    <2> QED
      BY <1>12, <2>1
  <1> QED
    BY <1>10, <1>11, <1>13

(* A sequence of words that has each member of X once.                     *)
Once(p, X) ==
  /\ p \in Seq(WordSet)
  /\ \A a, b \in DOMAIN p : p[a] = p[b] => a = b
  /\ \A a \in DOMAIN p : p[a] \in X
  /\ \A x \in X : \E a \in DOMAIN p : p[a] = x

LEMMA OnceAppend ==
  ASSUME NEW X, NEW p, Once(p, X), NEW e \in WordSet, e \notin X
  PROVE  Once(Append(p, e), X \cup {e})
  <1> DEFINE q == Append(p, e)
  <1>1. p \in Seq(WordSet)
    BY DEF Once
  <1>2. /\ q \in Seq(WordSet) /\ Len(p) \in Nat /\ Len(q) = Len(p) + 1
        /\ q[Len(p) + 1] = e /\ \A a \in 1 .. Len(p) : q[a] = p[a]
        /\ DOMAIN p = 1 .. Len(p) /\ DOMAIN q = 1 .. Len(p) + 1
    BY <1>1
  <1> HIDE DEF q
  <1>3. \A a \in DOMAIN q : a = Len(p) + 1 \/ a \in DOMAIN p
    BY <1>2
  <1>4. \A a \in DOMAIN p : a \in DOMAIN q /\ q[a] = p[a]
    BY <1>2
  <1>5. Len(p) + 1 \in DOMAIN q
    BY <1>2
  <1>6. \A a \in DOMAIN p : p[a] # e
    BY DEF Once
  <1>7. \A a, b \in DOMAIN q : q[a] = q[b] => a = b
    BY <1>2, <1>3, <1>4, <1>6 DEF Once
  <1>8. \A a \in DOMAIN q : q[a] \in X \cup {e}
    BY <1>2, <1>3, <1>4 DEF Once
  <1>9. \A x \in X \cup {e} : \E a \in DOMAIN q : q[a] = x
    BY <1>2, <1>4, <1>5 DEF Once
  <1> QED
    BY <1>2, <1>7, <1>8, <1>9 DEF Once, q

(* The places of a word among the first i.                                 *)
Places(s, i, x) == {j \in 1 .. i : s[j] = x}

LEMMA PlacesFinite ==
  ASSUME NEW i \in Nat, NEW s, NEW x
  PROVE  IsFiniteSet(Places(s, i, x)) /\ Cardinality(Places(s, i, x)) \in Nat
  <1>1. IsFiniteSet(1 .. i) /\ Places(s, i, x) \in SUBSET (1 .. i)
    BY FS_Interval DEF Places
  <1> QED
    BY <1>1, FS_Subset, FS_CardinalityType

(* The word of a place with its count.                                     *)
Tally(s, n, j) == Tallied(s[j], Cardinality(Places(s, n, s[j])))

LEMMA TallyIs ==
  ASSUME NEW n \in Nat, NEW s \in [1 .. n -> WordSet], \A j \in 1 .. n : s[j].rest = 0
  PROVE  /\ \A j \in 1 .. n : Tally(s, n, j) \in WordSet
         /\ \A i, j \in 1 .. n : Tally(s, n, i) = Tally(s, n, j) <=> s[i] = s[j]
  <1>1. \A j \in 1 .. n : s[j] \in WordSet
    OBVIOUS
  <1>2. ASSUME NEW j \in 1 .. n
        PROVE  /\ Tally(s, n, j) \in WordSet
               /\ Tally(s, n, j).strength = s[j].strength /\ Tally(s, n, j).oid = s[j].oid
    BY <1>1, PlacesFinite, TalliedIs DEF Tally
  <1>3. ASSUME NEW i \in 1 .. n, NEW j \in 1 .. n, Tally(s, n, i) = Tally(s, n, j)
        PROVE  s[i] = s[j]
    <2>1. s[i].strength = s[j].strength /\ s[i].oid = s[j].oid /\ s[i].rest = s[j].rest
      BY <1>2, <1>3
    <2> QED
      BY <1>1, <2>1, WordParts
  <1> QED
    BY <1>2, <1>3 DEF Tally

(* The account before word i + 1 is looked at.                             *)
Account(s, n, i, a) ==
  /\ a.word = s[i + 1]
  /\ a.count = Cardinality(Places(s, i + 1, s[i + 1]))
  /\ Once(a.out, {Tally(s, n, j) : j \in {k \in 1 .. i : s[k] # s[i + 1]}})

(* At a change the words before it and those after it differ.              *)
LEMMA ChangeIs ==
  ASSUME NEW n \in Nat, NEW s \in [1 .. n -> WordSet], Rises(s, n),
         NEW i \in 1 .. n, i < n, s[i + 1] # s[i]
  PROVE  /\ \A j \in 1 .. i : s[j] # s[i + 1]
         /\ \A j \in (i + 1) .. n : s[j] # s[i]
  <1>1. \A j \in 1 .. n : s[j] \in WordSet
    OBVIOUS
  <1>2. i + 1 \in 1 .. n /\ Below(s[i], s[i + 1])
    BY DEF Rises
  <1>3. ASSUME NEW j \in 1 .. i
        PROVE  s[j] # s[i + 1]
    <2>1. j \in 1 .. n /\ (j = i \/ j < i)
      OBVIOUS
    <2>2. s[j] = s[i] \/ Below(s[j], s[i])
      BY <2>1 DEF Rises
    <2>3. Below(s[j], s[i + 1])
      BY <1>1, <1>2, <2>1, <2>2, BelowOrders
    <2> QED
      BY <1>1, <1>2, <2>3, BelowOrders
  <1>4. ASSUME NEW j \in (i + 1) .. n
        PROVE  s[j] # s[i]
    <2>1. j \in 1 .. n /\ (j = i + 1 \/ i + 1 < j)
      OBVIOUS
    <2>2. s[j] = s[i + 1] \/ Below(s[i + 1], s[j])
      BY <1>2, <2>1 DEF Rises
    <2>3. Below(s[i], s[j])
      BY <1>1, <1>2, <2>1, <2>2, BelowOrders
    <2> QED
      BY <1>1, <2>1, <2>3, BelowOrders
  <1> QED
    BY <1>3, <1>4

(* A run that is closed is written with the count of all its words.        *)
LEMMA CloseIs ==
  ASSUME NEW n \in Nat, NEW s \in [1 .. n -> WordSet], \A j \in 1 .. n : s[j].rest = 0,
         NEW i \in 1 .. n, \A j \in (i + 1) .. n : s[j] # s[i],
         NEW a, Account(s, n, i - 1, a)
  PROVE  Once(Append(a.out, Tallied(a.word, a.count)), {Tally(s, n, j) : j \in 1 .. i})
  <1>0. i - 1 + 1 = i /\ i \in Nat
    OBVIOUS
  <1> DEFINE B == {k \in 1 .. (i - 1) : s[k] # s[i]}
             X == {Tally(s, n, j) : j \in B}
  <1>1. /\ a.word = s[i] /\ a.count = Cardinality(Places(s, i, s[i]))
        /\ Once(a.out, X)
    BY <1>0 DEF Account
  <1>2. Places(s, i, s[i]) = Places(s, n, s[i])
    <2>1. \A j \in 1 .. n : j \in 1 .. i \/ j \in (i + 1) .. n
      OBVIOUS
    <2>2. \A j \in 1 .. i : j \in 1 .. n
      OBVIOUS
    <2> QED
      BY <2>1, <2>2 DEF Places
  <1>3. Tallied(a.word, a.count) = Tally(s, n, i)
    BY <1>1, <1>2 DEF Tally
  <1>4. \A j \in B : j \in 1 .. n /\ s[j] # s[i]
    OBVIOUS
  <1>5. {Tally(s, n, j) : j \in 1 .. i} = X \cup {Tally(s, n, i)}
    <2>1. ASSUME NEW j \in 1 .. i
          PROVE  j \in B \/ s[j] = s[i]
      OBVIOUS
    <2>2. \A j \in 1 .. i : s[j] = s[i] => Tally(s, n, j) = Tally(s, n, i)
      BY DEF Tally
    <2>3. i \in 1 .. i /\ \A j \in B : j \in 1 .. i
      OBVIOUS
    <2> HIDE DEF B
    <2> QED
      BY <2>1, <2>2, <2>3
  <1>6. Tally(s, n, i) \in WordSet /\ Tally(s, n, i) \notin X
    <2> HIDE DEF B
    <2> QED
      BY <1>4, TallyIs
  <1> HIDE DEF B, X
  <1> QED
    BY <1>1, <1>3, <1>5, <1>6, OnceAppend

LEMMA CountStepIs ==
  ASSUME NEW n \in Nat \ {0}, NEW s \in [1 .. n -> WordSet], Rises(s, n),
         \A j \in 1 .. n : s[j].rest = 0,
         NEW i \in 1 .. n, NEW a \in Accounts, Account(s, n, i - 1, a)
  PROVE  /\ i < n => Account(s, n, i, CountStep(s, a, i))
         /\ i = n => Once(CountStep(s, a, i).out, {Tally(s, n, j) : j \in 1 .. n})
  <1>0. i - 1 + 1 = i /\ i \in Nat /\ n \in Nat /\ Len(s) = n
    OBVIOUS
  <1>1. a.word = s[i] /\ a.count = Cardinality(Places(s, i, s[i]))
    BY <1>0 DEF Account
  <1>2. CASE i = n
    <2>1. \A j \in (i + 1) .. n : s[j] # s[i]
      BY <1>2
    <2>2. Once(Append(a.out, Tallied(a.word, a.count)), {Tally(s, n, j) : j \in 1 .. i})
      BY <1>0, <2>1, CloseIs
    <2>3. CountStep(s, a, i) = Closed(s, a, i)
      BY <1>0, <1>2 DEF CountStep
    <2>4. CountStep(s, a, i).out = Append(a.out, Tallied(a.word, a.count))
      <3>1. Closed(s, a, i).out = Append(a.out, Tallied(a.word, a.count))
        BY ClosedIs
      <3> QED
        BY <2>3, <3>1
    <2> QED
      BY <1>2, <2>2, <2>4
  <1>3. CASE i < n /\ s[i + 1] # s[i]
    <2>1. (\A j \in 1 .. i : s[j] # s[i + 1]) /\ (\A j \in (i + 1) .. n : s[j] # s[i])
      BY <1>0, <1>3, ChangeIs
    <2>2. Once(Append(a.out, Tallied(a.word, a.count)), {Tally(s, n, j) : j \in 1 .. i})
      BY <1>0, <2>1, CloseIs
    <2>3. CountStep(s, a, i) = Closed(s, a, i)
      BY <1>1, <1>3 DEF CountStep
    <2>4. /\ CountStep(s, a, i).out = Append(a.out, Tallied(a.word, a.count))
          /\ CountStep(s, a, i).word = s[i + 1] /\ CountStep(s, a, i).count = 1
      BY <1>3, <2>3, ClosedIs
    <2>5. {k \in 1 .. i : s[k] # s[i + 1]} = 1 .. i
      BY <2>1
    <2>6. Cardinality(Places(s, i + 1, s[i + 1])) = 1
      <3>1. Places(s, i + 1, s[i + 1]) = {i + 1}
        <4>1. \A j \in 1 .. i + 1 : j \in 1 .. i \/ j = i + 1
          OBVIOUS
        <4>2. i + 1 \in 1 .. i + 1
          OBVIOUS
        <4> QED
          BY <2>1, <4>1, <4>2 DEF Places
      <3> QED
        BY <3>1, FS_Singleton
    <2> QED
      BY <1>3, <2>2, <2>4, <2>5, <2>6 DEF Account
  <1>4. CASE i < n /\ s[i + 1] = s[i]
    <2>1. CountStep(s, a, i) = Grown(a)
      BY <1>0, <1>1, <1>4 DEF CountStep
    <2>2. /\ CountStep(s, a, i).word = a.word /\ CountStep(s, a, i).count = a.count + 1
          /\ CountStep(s, a, i).out = a.out
      BY <2>1, GrownIs
    <2>3. Cardinality(Places(s, i + 1, s[i + 1])) = a.count + 1
      <3>1. Places(s, i + 1, s[i + 1]) = Places(s, i, s[i]) \cup {i + 1}
        <4>1. \A j \in 1 .. i + 1 : j \in 1 .. i \/ j = i + 1
          OBVIOUS
        <4>2. i + 1 \in 1 .. i + 1 /\ \A j \in 1 .. i : j \in 1 .. i + 1
          OBVIOUS
        <4> QED
          BY <1>4, <4>1, <4>2 DEF Places
      <3>2. i + 1 \notin Places(s, i, s[i])
        BY DEF Places
      <3>3. IsFiniteSet(Places(s, i, s[i]))
        BY <1>0, PlacesFinite
      <3> QED
        BY <1>1, <3>1, <3>2, <3>3, FS_AddElement
    <2> DEFINE B == {k \in 1 .. (i - 1) : s[k] # s[i]}
    <2>4. {k \in 1 .. i : s[k] # s[i + 1]} = B
      BY <1>4
    <2>5. Once(a.out, {Tally(s, n, j) : j \in B})
      BY <1>0 DEF Account
    <2> HIDE DEF B
    <2>6. Once(CountStep(s, a, i).out, {Tally(s, n, j) : j \in {k \in 1 .. i : s[k] # s[i + 1]}})
      BY <2>2, <2>4, <2>5
    <2> QED
      BY <1>1, <1>4, <2>2, <2>3, <2>6 DEF Account
  <1> QED
    BY <1>0, <1>2, <1>3, <1>4

(* Each word becomes one, with its count.                                  *)
LEMMA CountedOnce ==
  ASSUME NEW n \in Nat \ {0}, NEW s \in [1 .. n -> WordSet], Rises(s, n),
         \A j \in 1 .. n : s[j].rest = 0
  PROVE  Once(Counted(s), {Tally(s, n, j) : j \in 1 .. n})
  <1>1. PICK f \in [0 .. n -> Accounts] :
               /\ f[0] = Start(s)
               /\ \A i \in 1 .. n : f[i] = CountStep(s, f[i - 1], i)
               /\ Counted(s) = f[n].out
    BY CountedIs
  <1> DEFINE T == {i \in 0 .. (n - 1) : Account(s, n, i, f[i])}
  <1>2. 0 \in T
    <2>1. 0 + 1 = 1 /\ 1 \in 1 .. n /\ 0 \in 0 .. (n - 1)
      OBVIOUS
    <2>2. f[0].word = s[1] /\ f[0].count = 1 /\ f[0].out = <<>>
      BY <1>1 DEF Start
    <2>3. Places(s, 1, s[1]) = {1}
      BY DEF Places
    <2>4. Cardinality(Places(s, 1, s[1])) = 1
      BY <2>3, FS_Singleton
    <2>5. {Tally(s, n, j) : j \in {k \in 1 .. 0 : s[k] # s[1]}} = {}
      OBVIOUS
    <2>6. Once(<<>>, {})
      BY DEF Once
    <2>7. Account(s, n, 0, f[0])
      BY <2>1, <2>2, <2>4, <2>5, <2>6 DEF Account
    <2> QED
      BY <2>1, <2>7
  <1>3. ASSUME NEW i \in 1 .. (n - 1), i - 1 \in T
        PROVE  i \in T
    <2>1. i \in 1 .. n /\ i < n /\ i - 1 \in 0 .. n /\ i \in 0 .. (n - 1)
      OBVIOUS
    <2>2. f[i - 1] \in Accounts /\ Account(s, n, i - 1, f[i - 1])
      BY <1>1, <1>3, <2>1
    <2>3. Account(s, n, i, CountStep(s, f[i - 1], i))
      BY <2>1, <2>2, CountStepIs
    <2> QED
      BY <1>1, <2>1, <2>3
  <1>4. \A i \in 0 .. (n - 1) : i \in T
    <2> HIDE DEF T
    <2>1. n - 1 \in Nat
      OBVIOUS
    <2> QED
      BY <1>2, <1>3, <2>1, Up
  <1>5. n \in 1 .. n /\ n - 1 \in 0 .. (n - 1) /\ n - 1 \in 0 .. n
    OBVIOUS
  <1>6. Account(s, n, n - 1, f[n - 1]) /\ f[n - 1] \in Accounts
    BY <1>1, <1>4, <1>5
  <1>7. Once(CountStep(s, f[n - 1], n).out, {Tally(s, n, j) : j \in 1 .. n})
    BY <1>5, <1>6, CountStepIs
  <1> QED
    BY <1>1, <1>5, <1>7

(* Sorted, they ascend.                                                    *)
Strict(s, n) == \A i, j \in 1 .. n : i < j => Below(s[i], s[j])

LEMMA AscendingOnce ==
  ASSUME NEW X, NEW p, Once(p, X)
  PROVE  /\ Once(Ascending(p), X)
         /\ Len(Ascending(p)) = Len(p)
         /\ Strict(Ascending(p), Len(p))
  <1> DEFINE n == Len(p)
             d == Ascending(p)
  <1>1. p \in [1 .. n -> WordSet] /\ n \in Nat
    BY DEF Once
  <1> HIDE DEF n
  <1>2. PICK o \in Bijection(1 .. n, 1 .. n) :
               d = [k \in 1 .. n |-> p[o[k]]] /\ Rises(d, n)
    BY <1>1, AscendingIs
  <1>3. /\ o \in [1 .. n -> 1 .. n]
        /\ \A i, j \in 1 .. n : o[i] = o[j] => i = j
        /\ \A k \in 1 .. n : \E i \in 1 .. n : o[i] = k
    BY DEF Bijection, Injection, Surjection, IsInjective
  <1> HIDE DEF d
  <1>4. /\ \A i, j \in 1 .. n : p[i] = p[j] => i = j
        /\ \A i \in 1 .. n : p[i] \in X
        /\ \A x \in X : \E i \in 1 .. n : p[i] = x
    BY <1>1 DEF Once
  <1>5. d \in [1 .. n -> WordSet]
    BY <1>1, <1>2, <1>3
  <1>6. d \in Seq(WordSet) /\ Len(d) = n /\ DOMAIN d = 1 .. n
    BY <1>1, <1>5
  <1>7. \A i, j \in 1 .. n : d[i] = d[j] => i = j
    BY ZenonT(40), <1>2, <1>3, <1>4
  <1>8. \A i \in 1 .. n : d[i] \in X
    BY <1>2, <1>3, <1>4
  <1>9. ASSUME NEW x \in X
        PROVE  \E i \in 1 .. n : d[i] = x
    <2>1. PICK k \in 1 .. n : p[k] = x
      BY <1>4
    <2>2. PICK i \in 1 .. n : o[i] = k
      BY <1>3
    <2> QED
      BY <1>2, <2>1, <2>2
  <1>10. Once(d, X)
    BY <1>6, <1>7, <1>8, <1>9 DEF Once
  <1>11. Strict(d, n)
    <2> SUFFICES ASSUME NEW i \in 1 .. n, NEW j \in 1 .. n, i < j
                 PROVE  Below(d[i], d[j])
      BY DEF Strict
    <2>1. d[i] # d[j]
      BY <1>1, <1>7
    <2> QED
      BY <1>2, <2>1 DEF Rises
  <1> QED
    BY <1>6, <1>10, <1>11 DEF d, n

(* A word that is not the first of its tag among the first i is cleared.   *)
Later(d, i, k) == \E j \in 1 .. i : j < k /\ d[j].oid = d[k].oid /\ d[k].oid # 0

LEMMA WithoutDuplicatesIs ==
  ASSUME NEW m \in Nat, NEW d \in [1 .. m -> WordSet]
  PROVE  WithoutDuplicates(d) = [k \in 1 .. m |-> IF Later(d, m, k) THEN ZeroWord ELSE d[k]]
  <1> DEFINE L == [1 .. m -> WordSet]
             F == [q \in L \X (1 .. m) |-> Cleared(q[1], q[2])]
             at == CHOOSE f : f = [i \in 0 .. m |-> IF i = 0 THEN d ELSE Cleared(f[i - 1], i)]
             After(i) == [k \in 1 .. m |-> IF Later(d, i, k) THEN ZeroWord ELSE d[k]]
  <1>0. Len(d) = m /\ m \in 0 .. m
    OBVIOUS
  <1>1. ASSUME NEW e \in L, NEW i \in 1 .. m
        PROVE  /\ Cleared(e, i) \in L
               /\ Cleared(e, i) = [k \in 1 .. m |->
                    IF e[i].oid # 0 /\ k > i /\ e[k].oid = e[i].oid THEN ZeroWord ELSE e[k]]
    <2>1. DOMAIN e = 1 .. m /\ \A k \in 1 .. m : e[k] \in WordSet
      OBVIOUS
    <2> DEFINE c == [k \in 1 .. m |->
                       IF e[i].oid # 0 /\ k > i /\ e[k].oid = e[i].oid THEN ZeroWord ELSE e[k]]
    <2>2. CASE e[i].oid = 0
      <3>1. Cleared(e, i) = e
        BY <2>2 DEF Cleared
      <3>2. \A k \in 1 .. m : c[k] = e[k]
        BY <2>2
      <3>3. c = e
        BY <2>1, <3>2
      <3> QED
        BY <3>1, <3>3
    <2>3. CASE e[i].oid # 0
      <3>1. Cleared(e, i) = [k \in 1 .. m |->
                               IF k > i /\ e[k].oid = e[i].oid THEN ZeroWord ELSE e[k]]
        BY <2>1, <2>3 DEF Cleared
      <3>2. Cleared(e, i) = c
        BY <2>3, <3>1
      <3>3. c \in L
        BY <2>1, WordParts
      <3> QED
        BY <3>2, <3>3
    <2> QED
      BY <2>2, <2>3
  <1>2. PICK f : Pass(f, m, L, d, F)
    <2>1. StepOf(F, m, L)
      <3> HIDE DEF L
      <3>1. \A e \in L, i \in 1 .. m : Cleared(e, i) \in L
        BY <1>1
      <3> QED
        BY <3>1 DEF StepOf
    <2>2. d \in L
      OBVIOUS
    <2> HIDE DEF F, L
    <2> QED
      BY <2>1, <2>2, PassExists
  <1>3. \A e \in L, i \in 1 .. m : F[<<e, i>>] = Cleared(e, i)
    <2> HIDE DEF L
    <2> QED
      OBVIOUS
  <1> HIDE DEF F
  <1>4. at = [i \in 0 .. m |-> IF i = 0 THEN d ELSE Cleared(at[i - 1], i)]
    <2> HIDE DEF L
    <2>1. f \in [0 .. m -> L] /\ f[0] = d /\ \A i \in 1 .. m : f[i] = F[<<f[i - 1], i>>]
      BY <1>2 DEF Pass
    <2>2. \A i \in 1 .. m : f[i] = Cleared(f[i - 1], i)
      <3>1. \A i \in 1 .. m : i - 1 \in 0 .. m
        OBVIOUS
      <3> QED
        BY <1>3, <2>1, <3>1
    <2>3. \A i \in 0 .. m : i # 0 => i \in 1 .. m
      OBVIOUS
    <2>4. f = [i \in 0 .. m |-> IF i = 0 THEN d ELSE Cleared(f[i - 1], i)]
      BY <2>1, <2>2, <2>3
    <2> QED
      BY <2>4
  <1>5. WithoutDuplicates(d) = at[m]
    BY <1>0 DEF WithoutDuplicates
  <1> HIDE DEF at
  <1>6. at[0] = d /\ \A i \in 1 .. m : at[i] = Cleared(at[i - 1], i)
    <2>1. \A i \in 1 .. m : i \in 0 .. m /\ i # 0
      OBVIOUS
    <2>2. 0 \in 0 .. m
      OBVIOUS
    <2> QED
      BY <1>4, <2>1, <2>2
  <1> DEFINE T == {i \in 0 .. m : at[i] = After(i)}
  <1>7. 0 \in T
    <2>1. \A k \in 1 .. m : ~ Later(d, 0, k)
      BY DEF Later
    <2>2. After(0) = d
      BY <2>1
    <2> QED
      BY <1>6, <2>2
  <1>8. ASSUME NEW i \in 1 .. m, i - 1 \in T
        PROVE  i \in T
    <2> DEFINE e == After(i - 1)
    <2>1. at[i - 1] = e
      BY <1>8
    <2>2. \A k \in 1 .. m : d[k] \in WordSet
      OBVIOUS
    <2>3. \A k \in 1 .. m : e[k] = IF Later(d, i - 1, k) THEN ZeroWord ELSE d[k]
      OBVIOUS
    <2>4. e \in L
      BY <2>2, WordParts
    <2> HIDE DEF e, L
    <2>5. at[i] = [k \in 1 .. m |->
                     IF e[i].oid # 0 /\ k > i /\ e[k].oid = e[i].oid THEN ZeroWord ELSE e[k]]
      BY <1>1, <1>6, <2>1, <2>4
    <2>6. ASSUME NEW k \in 1 .. m
          PROVE  (IF e[i].oid # 0 /\ k > i /\ e[k].oid = e[i].oid THEN ZeroWord ELSE e[k])
                 = IF Later(d, i, k) THEN ZeroWord ELSE d[k]
      <3>1. Later(d, i, k) <=> Later(d, i - 1, k)
                               \/ (i < k /\ d[i].oid = d[k].oid /\ d[k].oid # 0)
        <4>1. \A j \in 1 .. i : j \in 1 .. (i - 1) \/ j = i
          OBVIOUS
        <4>2. i \in 1 .. i /\ \A j \in 1 .. (i - 1) : j \in 1 .. i
          OBVIOUS
        <4> QED
          BY <4>1, <4>2 DEF Later
      <3>2. i < k /\ d[i].oid = d[k].oid /\ d[k].oid # 0 /\ Later(d, i - 1, i)
            => Later(d, i - 1, k)
        <4>1. \A j \in 1 .. (i - 1) : j < i /\ i < k => j < k
          OBVIOUS
        <4> QED
          BY <4>1 DEF Later
      <3>3. ZeroWord.oid = 0
        BY WordParts
      <3>4. k > i <=> i < k
        OBVIOUS
      <3> HIDE DEF T
      <3>5. CASE Later(d, i - 1, k)
        BY <2>3, <3>1, <3>5
      <3>6. CASE ~ Later(d, i - 1, k)
        <4>1. e[k] = d[k]
          BY <2>3, <3>6
        <4>2. CASE Later(d, i - 1, i)
          <5>1. e[i].oid = 0
            BY <2>3, <3>3, <4>2
          <5> QED
            BY <3>1, <3>2, <3>6, <4>1, <4>2, <5>1
        <4>3. CASE ~ Later(d, i - 1, i)
          <5>1. e[i] = d[i]
            BY <2>3, <4>3
          <5> QED
            BY <3>1, <3>4, <3>6, <4>1, <5>1
        <4> QED
          BY <4>2, <4>3
      <3> QED
        BY <3>5, <3>6
    <2>7. at[i] = After(i)
      BY <2>5, <2>6
    <2> QED
      BY <2>7
  <1>9. \A i \in 0 .. m : i \in T
    <2> HIDE DEF T
    <2> QED
      BY <1>7, <1>8, Up
  <1> QED
    BY <1>0, <1>5, <1>9

-----------------------------------------------------------------------------
(* What the passes make of the live beacons.                               *)
Beacon   == [oid : Nat, strength : Nat, time : Nat]
EntrySet == [strength : Nat, packets : Int, oid : Nat]

LEMMA EntryMade ==
  ASSUME NEW a \in Nat, NEW p \in Int, NEW b \in Nat
  PROVE  LET e == [strength |-> a, packets |-> p, oid |-> b]
         IN  e \in EntrySet /\ e.strength = a /\ e.packets = p /\ e.oid = b
  BY DEF EntrySet

LEMMA EntryEqual ==
  ASSUME NEW d \in EntrySet, NEW a, NEW p, NEW b, d.strength = a, d.packets = p, d.oid = b
  PROVE  d = [strength |-> a, packets |-> p, oid |-> b]
  BY DEF EntrySet

LEMMA EntryIs ==
  ASSUME NEW w \in WordSet
  PROVE  /\ Entry(w) \in EntrySet
         /\ Entry(w).strength = w.strength /\ Entry(w).packets = COUNT_MAX - w.rest
         /\ Entry(w).oid = w.oid
  <1> DEFINE p == COUNT_MAX - w.rest
  <1>1. w.strength \in Nat /\ w.oid \in Nat /\ w.rest \in Nat /\ COUNT_MAX \in Nat
    BY WordParts, BeaconRatingAssumption
  <1>2. p \in Int
    BY <1>1
  <1>3. Entry(w) = [strength |-> w.strength, packets |-> p, oid |-> w.oid]
    BY DEF Entry
  <1> HIDE DEF p
  <1>4. /\ Entry(w) \in EntrySet /\ Entry(w).strength = w.strength /\ Entry(w).packets = p
        /\ Entry(w).oid = w.oid
    BY <1>1, <1>2, <1>3, EntryMade
  <1> QED
    BY <1>4 DEF p

LEMMA EntryOnce ==
  ASSUME NEW v \in WordSet, NEW w \in WordSet, Entry(v) = Entry(w)
  PROVE  v = w
  <1>1. /\ v.strength \in Nat /\ v.oid \in Nat /\ v.rest \in Nat
        /\ w.strength \in Nat /\ w.oid \in Nat /\ w.rest \in Nat /\ COUNT_MAX \in Nat
    BY WordParts, BeaconRatingAssumption
  <1>2. v.strength = w.strength /\ v.oid = w.oid /\ COUNT_MAX - v.rest = COUNT_MAX - w.rest
    BY EntryIs
  <1>3. v.rest = w.rest
    BY <1>1, <1>2
  <1> QED
    BY <1>2, <1>3, WordParts

WordOf(k) == Word(heard[k].strength, 0, heard[k].oid)

EntryOf(t, k) ==
  [strength |-> heard[k].strength,
   packets  |-> Packets(t, heard[k].oid, heard[k].strength),
   oid      |-> heard[k].oid]

LEMMA EntriesAre == \A t : Entries(t) = {EntryOf(t, k) : k \in Listed(t)}
  BY DEF Entries, EntryOf

LEMMA LiveOnesAre ==
  ASSUME heard \in Seq(Beacon), NEW t
  PROVE  /\ IsFiniteSet(LiveOnes(t))
         /\ \A k \in LiveOnes(t) : /\ k \in 1 .. Len(heard)
                                   /\ heard[k].strength \in Nat /\ heard[k].oid \in Nat
                                   /\ heard[k].time \in Nat
                                   /\ WordOf(k) \in WordSet
                                   /\ WordOf(k).strength = heard[k].strength
                                   /\ WordOf(k).rest = 0 /\ WordOf(k).oid = heard[k].oid
  <1>1. Len(heard) \in Nat /\ LiveOnes(t) \in SUBSET (1 .. Len(heard))
    BY DEF LiveOnes
  <1>2. IsFiniteSet(LiveOnes(t))
    <2>1. IsFiniteSet(1 .. Len(heard))
      BY <1>1, FS_Interval
    <2> QED
      BY <1>1, <2>1, FS_Subset
  <1>3. ASSUME NEW k \in LiveOnes(t)
        PROVE  heard[k].strength \in Nat /\ heard[k].oid \in Nat /\ heard[k].time \in Nat
    <2>1. heard[k] \in Beacon
      BY <1>1
    <2> QED
      BY <2>1 DEF Beacon
  <1>4. ASSUME NEW k \in LiveOnes(t)
        PROVE  /\ WordOf(k) \in WordSet
               /\ WordOf(k).strength = heard[k].strength
               /\ WordOf(k).rest = 0 /\ WordOf(k).oid = heard[k].oid
    <2> DEFINE a == heard[k].strength
               b == heard[k].oid
    <2>1. a \in Nat /\ b \in Nat /\ 0 \in Nat
      BY <1>3
    <2> HIDE DEF a, b
    <2>2. /\ Word(a, 0, b) \in WordSet /\ Word(a, 0, b).strength = a
          /\ Word(a, 0, b).rest = 0 /\ Word(a, 0, b).oid = b
      BY <2>1, WordParts
    <2> QED
      BY <2>2 DEF WordOf, a, b
  <1> QED
    BY <1>1, <1>2, <1>3, <1>4

(* Words that are published, each that is not zero as an entry.            *)
Ready(u, E) ==
  /\ u \in Seq(WordSet)
  /\ \A i, j \in DOMAIN u : i < j /\ u[i] # ZeroWord /\ u[j] # ZeroWord => Below(u[i], u[j])
  /\ \A i \in DOMAIN u : u[i] # ZeroWord => Entry(u[i]) \in E
  /\ \A e \in E : e # Entry(ZeroWord) => \E i \in DOMAIN u : u[i] # ZeroWord /\ Entry(u[i]) = e

(* The words of the live beacons, in some order.                           *)
WordsOf(w, b, n, t) ==
  /\ n \in Nat
  /\ b \in Bijection(1 .. n, LiveOnes(t))
  /\ w = [i \in 1 .. n |-> WordOf(b[i])]

LEMMA WordsOfAre ==
  ASSUME heard \in Seq(Beacon), NEW t, NEW w, NEW b, NEW n, WordsOf(w, b, n, t)
  PROVE  /\ n \in Nat /\ n = Cardinality(LiveOnes(t)) /\ Len(w) = n
         /\ w \in [1 .. n -> WordSet]
         /\ \A i \in 1 .. n : b[i] \in LiveOnes(t) /\ w[i] = WordOf(b[i])
         /\ \A i, j \in 1 .. n : b[i] = b[j] => i = j
         /\ \A k \in LiveOnes(t) : \E i \in 1 .. n : b[i] = k
  <1>1. /\ n \in Nat /\ b \in [1 .. n -> LiveOnes(t)]
        /\ \A i, j \in 1 .. n : b[i] = b[j] => i = j
        /\ \A k \in LiveOnes(t) : \E i \in 1 .. n : b[i] = k
        /\ w = [i \in 1 .. n |-> WordOf(b[i])]
    BY DEF WordsOf, Bijection, Injection, Surjection, IsInjective
  <1>2. w \in [1 .. n -> WordSet]
    BY <1>1, LiveOnesAre
  <1>3. n = Cardinality(LiveOnes(t))
    <2>1. IsFiniteSet(1 .. n) /\ Cardinality(1 .. n) = n
      BY <1>1, FS_Interval
    <2>2. ExistsBijection(1 .. n, LiveOnes(t))
      BY DEF WordsOf, ExistsBijection
    <2> QED
      BY <2>1, <2>2, FS_Bijection
  <1> QED
    BY <1>1, <1>2, <1>3

(* Sorted, they are the words of the live beacons in another order.        *)
LEMMA SortedWords ==
  ASSUME heard \in Seq(Beacon), NEW t, NEW w, NEW b, NEW n, WordsOf(w, b, n, t)
  PROVE  /\ \E c : WordsOf(Ascending(w), c, n, t)
         /\ Rises(Ascending(w), n)
  <1>1. /\ n \in Nat /\ w \in [1 .. n -> WordSet]
        /\ \A i \in 1 .. n : b[i] \in LiveOnes(t) /\ w[i] = WordOf(b[i])
        /\ \A i, j \in 1 .. n : b[i] = b[j] => i = j
        /\ \A k \in LiveOnes(t) : \E i \in 1 .. n : b[i] = k
    BY WordsOfAre
  <1>2. PICK o \in Bijection(1 .. n, 1 .. n) :
               Ascending(w) = [k \in 1 .. n |-> w[o[k]]] /\ Rises(Ascending(w), n)
    BY <1>1, AscendingIs
  <1>3. /\ o \in [1 .. n -> 1 .. n]
        /\ \A i, j \in 1 .. n : o[i] = o[j] => i = j
        /\ \A k \in 1 .. n : \E i \in 1 .. n : o[i] = k
    BY DEF Bijection, Injection, Surjection, IsInjective
  <1> DEFINE c == [i \in 1 .. n |-> b[o[i]]]
  <1>4. \A i \in 1 .. n : c[i] = b[o[i]] /\ o[i] \in 1 .. n
    BY <1>3
  <1>5. c \in [1 .. n -> LiveOnes(t)]
    BY <1>1, <1>3
  <1> HIDE DEF c
  <1>6. ASSUME NEW i \in 1 .. n, NEW j \in 1 .. n, c[i] = c[j]
        PROVE  i = j
    <2>1. b[o[i]] = b[o[j]] /\ o[i] \in 1 .. n /\ o[j] \in 1 .. n
      BY <1>4, <1>6
    <2>2. o[i] = o[j]
      BY <1>1, <2>1
    <2> QED
      BY <1>3, <2>2
  <1>7. ASSUME NEW k \in LiveOnes(t)
        PROVE  \E i \in 1 .. n : c[i] = k
    <2>1. PICK j \in 1 .. n : b[j] = k
      BY <1>1
    <2>2. PICK i \in 1 .. n : o[i] = j
      BY <1>3
    <2> QED
      BY <1>4, <2>1, <2>2
  <1>8. c \in Bijection(1 .. n, LiveOnes(t))
    BY <1>5, <1>6, <1>7 DEF Bijection, Injection, Surjection, IsInjective
  <1>9. Ascending(w) = [i \in 1 .. n |-> WordOf(c[i])]
    BY <1>1, <1>2, <1>4
  <1>10. WordsOf(Ascending(w), c, n, t)
    BY <1>1, <1>8, <1>9 DEF WordsOf
  <1> QED
    BY <1>2, <1>10

(* The count of a word is that of its packets.                             *)
LEMMA TallyOfBeacon ==
  ASSUME heard \in Seq(Beacon), NEW t, NEW s, NEW b, NEW n, WordsOf(s, b, n, t), n # 1,
         NEW j \in 1 .. n
  PROVE  /\ Tally(s, n, j).strength = heard[b[j]].strength
         /\ Tally(s, n, j).oid = heard[b[j]].oid
         /\ Entry(Tally(s, n, j)) = EntryOf(t, b[j])
  <1>1. /\ n \in Nat /\ n = Cardinality(LiveOnes(t)) /\ s \in [1 .. n -> WordSet]
        /\ \A i \in 1 .. n : b[i] \in LiveOnes(t) /\ s[i] = WordOf(b[i])
        /\ \A i, k \in 1 .. n : b[i] = b[k] => i = k
        /\ \A k \in LiveOnes(t) : \E i \in 1 .. n : b[i] = k
    BY WordsOfAre
  <1> DEFINE o == heard[b[j]].oid
             x == heard[b[j]].strength
             G == {k \in LiveOnes(t) : heard[k].oid = o /\ heard[k].strength = x}
             P == Places(s, n, s[j])
             q == [i \in P |-> b[i]]
  <1>2. \A i \in 1 .. n : i \in P <=> b[i] \in G
    <2> SUFFICES ASSUME NEW i \in 1 .. n
                 PROVE  i \in P <=> b[i] \in G
      OBVIOUS
    <2>1. s[i] = s[j] <=> heard[b[i]].oid = o /\ heard[b[i]].strength = x
      <3>1. /\ s[i] \in WordSet /\ s[j] \in WordSet
            /\ s[i].strength = heard[b[i]].strength /\ s[i].rest = 0 /\ s[i].oid = heard[b[i]].oid
            /\ s[j].strength = x /\ s[j].rest = 0 /\ s[j].oid = o
        BY SMTT(30), <1>1, LiveOnesAre
      <3> QED
        BY <3>1, WordEqual
    <2> QED
      BY <1>1, <2>1 DEF Places
  <1>3. P \subseteq 1 .. n
    BY DEF Places
  <1>4. \A k \in G : k \in LiveOnes(t)
    OBVIOUS
  <1> HIDE DEF P, G
  <1>5. q \in [P -> G]
    BY <1>2, <1>3
  <1>6. \A i, k \in P : q[i] = q[k] => i = k
    BY <1>1, <1>3
  <1>7. \A k \in G : \E i \in P : q[i] = k
    BY <1>1, <1>2, <1>4
  <1>8. q \in Bijection(P, G)
    <2> HIDE DEF q
    <2> QED
      BY <1>5, <1>6, <1>7 DEF Bijection, Injection, Surjection, IsInjective
  <1>9. Cardinality(P) = Cardinality(G) /\ Cardinality(P) \in Nat
    <2>1. IsFiniteSet(P) /\ Cardinality(P) \in Nat
      BY <1>1, PlacesFinite DEF P
    <2>2. ExistsBijection(P, G)
      BY <1>8 DEF ExistsBijection
    <2> QED
      BY <2>1, <2>2, FS_Bijection
  <1>10. Packets(t, o, x) = Min({Cardinality(P), COUNT_MAX})
    BY <1>1, <1>9 DEF Packets, G
  <1> DEFINE m == Min({Cardinality(P), COUNT_MAX})
             v == Tally(s, n, j)
  <1>11. m \in Nat /\ COUNT_MAX \in Nat
    BY <1>9, MinOfTwo, BeaconRatingAssumption
  <1>12. /\ s[j] \in WordSet /\ s[j].strength = x /\ s[j].oid = o
         /\ x \in Nat /\ o \in Nat
    BY <1>1, LiveOnesAre
  <1>13. v \in WordSet /\ v.strength = x /\ v.oid = o /\ v.rest = COUNT_MAX - m
    BY <1>9, <1>12, TalliedIs DEF Tally, P
  <1> HIDE DEF m, v, x, o
  <1>14. COUNT_MAX - (COUNT_MAX - m) = m
    BY <1>11
  <1>15. /\ Entry(v) \in EntrySet /\ Entry(v).strength = x /\ Entry(v).packets = m
         /\ Entry(v).oid = o
    BY <1>13, <1>14, EntryIs
  <1>16. Entry(v) = [strength |-> x, packets |-> m, oid |-> o]
    BY <1>15, EntryEqual
  <1>17. EntryOf(t, b[j]) = [strength |-> x, packets |-> m, oid |-> o]
    BY <1>10 DEF EntryOf, x, o, m
  <1> QED
    BY <1>13, <1>16, <1>17 DEF v, x, o

(* The words sorted and counted: a tag's lowest strength comes first.      *)
LEMMA DistinctReady ==
  ASSUME heard \in Seq(Beacon), NEW t, NEW s, NEW b, NEW n, WordsOf(s, b, n, t), n > 1,
         NEW d, Once(d, {Tally(s, n, j) : j \in 1 .. n}), Strict(d, Len(d))
  PROVE  Ready(WithoutDuplicates(d), Entries(t))
  <1> DEFINE m == Len(d)
             u == WithoutDuplicates(d)
  <1>1. /\ n \in Nat /\ s \in [1 .. n -> WordSet]
        /\ \A i \in 1 .. n : b[i] \in LiveOnes(t) /\ s[i] = WordOf(b[i])
        /\ \A k \in LiveOnes(t) : \E i \in 1 .. n : b[i] = k
    BY WordsOfAre
  <1>2. ASSUME NEW j \in 1 .. n
        PROVE  /\ Tally(s, n, j).strength = heard[b[j]].strength
               /\ Tally(s, n, j).oid = heard[b[j]].oid
               /\ Entry(Tally(s, n, j)) = EntryOf(t, b[j])
    <2>1. n # 1
      BY <1>1
    <2> QED
      BY <2>1, TallyOfBeacon
  <1>3. /\ m \in Nat /\ d \in [1 .. m -> WordSet] /\ DOMAIN d = 1 .. m
        /\ \A i \in 1 .. m : d[i] \in WordSet
    BY DEF Once
  <1>4. \A i \in 1 .. m : \E j \in 1 .. n : d[i] = Tally(s, n, j)
    BY <1>3 DEF Once
  <1>5. \A j \in 1 .. n : \E i \in 1 .. m : d[i] = Tally(s, n, j)
    BY <1>3 DEF Once
  <1>6. \A i, k \in 1 .. m : i < k => Below(d[i], d[k])
    BY DEF Strict
  <1> HIDE DEF m
  <1>7. u = [k \in 1 .. m |-> IF Later(d, m, k) THEN ZeroWord ELSE d[k]]
    BY <1>3, WithoutDuplicatesIs
  <1> HIDE DEF u
  <1>8. u \in [1 .. m -> WordSet]
    BY <1>3, <1>7, WordParts
  <1>9. u \in Seq(WordSet) /\ DOMAIN u = 1 .. m
    BY <1>3, <1>8
  <1>10. \A i \in 1 .. m : u[i] # ZeroWord => u[i] = d[i] /\ ~ Later(d, m, i)
    BY <1>7
  <1>11. \A i, k \in 1 .. m : i < k /\ u[i] # ZeroWord /\ u[k] # ZeroWord => Below(u[i], u[k])
    BY <1>6, <1>10
  <1>12. \A k \in LiveOnes(t) : heard[k].oid \in Nat /\ heard[k].strength \in Nat
    BY LiveOnesAre
  <1>13. ASSUME NEW i \in 1 .. m, u[i] # ZeroWord
         PROVE  Entry(u[i]) \in Entries(t)
    <2>1. u[i] = d[i] /\ ~ Later(d, m, i)
      BY <1>10, <1>13
    <2>2. PICK j \in 1 .. n : d[i] = Tally(s, n, j)
      BY <1>4
    <2>3. b[j] \in LiveOnes(t) /\ Entry(u[i]) = EntryOf(t, b[j])
      BY <1>1, <1>2, <2>1, <2>2
    <2>4. ASSUME heard[b[j]].oid # 0, NEW k \in LiveOnes(t), heard[k].oid = heard[b[j]].oid
          PROVE  heard[b[j]].strength <= heard[k].strength
      <3>1. SUFFICES ASSUME heard[k].strength < heard[b[j]].strength
                     PROVE  FALSE
        BY <1>12, <2>3
      <3>2. PICK l \in 1 .. n : b[l] = k
        BY <1>1
      <3>3. PICK h \in 1 .. m : d[h] = Tally(s, n, l)
        BY <1>5
      <3>4. /\ d[h].strength = heard[k].strength /\ d[h].oid = heard[k].oid
            /\ d[i].strength = heard[b[j]].strength /\ d[i].oid = heard[b[j]].oid
        BY <1>2, <2>2, <3>2, <3>3
      <3>5. ~ Below(d[i], d[h]) /\ d[h] # d[i]
        <4>1. heard[k].strength \in Nat /\ heard[b[j]].strength \in Nat
          BY <1>12, <2>3
        <4>2. d[h].strength < d[i].strength /\ d[h].strength \in Nat /\ d[i].strength \in Nat
          BY <3>1, <3>4, <4>1
        <4>3. ~ Below(d[i], d[h])
          BY <1>3, <4>2, BelowStrength
        <4> QED
          BY <4>2, <4>3
      <3>6. h < i
        <4>1. h # i /\ ~ (i < h)
          BY <1>6, <3>5
        <4> QED
          BY <1>3, <4>1
      <3>7. Later(d, m, i)
        BY <2>4, <3>4, <3>6 DEF Later
      <3> QED
        BY <2>1, <3>7
    <2>5. b[j] \in Listed(t)
      BY <2>3, <2>4 DEF Listed
    <2> QED
      BY <2>3, <2>5, EntriesAre
  <1>14. ASSUME NEW e \in Entries(t), e # Entry(ZeroWord)
         PROVE  \E i \in 1 .. m : u[i] # ZeroWord /\ Entry(u[i]) = e
    <2>1. PICK k \in Listed(t) : e = EntryOf(t, k)
      BY EntriesAre
    <2>2. /\ k \in LiveOnes(t)
          /\ heard[k].oid # 0 => \A l \in LiveOnes(t) :
               heard[l].oid = heard[k].oid => heard[k].strength <= heard[l].strength
      BY DEF Listed
    <2>3. PICK j \in 1 .. n : b[j] = k
      BY <1>1, <2>2
    <2>4. PICK i \in 1 .. m : d[i] = Tally(s, n, j)
      BY <1>5
    <2>5. /\ d[i].strength = heard[k].strength /\ d[i].oid = heard[k].oid /\ Entry(d[i]) = e
      BY <1>2, <2>1, <2>3, <2>4
    <2>6. ~ Later(d, m, i)
      <3>1. SUFFICES ASSUME NEW h \in 1 .. m, h < i, d[h].oid = d[i].oid, d[i].oid # 0
                     PROVE  FALSE
        BY DEF Later
      <3>2. PICK l \in 1 .. n : d[h] = Tally(s, n, l)
        BY <1>4
      <3>3. /\ d[h].strength = heard[b[l]].strength /\ d[h].oid = heard[b[l]].oid
            /\ b[l] \in LiveOnes(t)
        BY <1>1, <1>2, <3>2
      <3>4. heard[k].strength <= heard[b[l]].strength
        BY <2>2, <2>5, <3>1, <3>3
      <3>5. Below(d[h], d[i])
        BY <1>6, <3>1
      <3>6. heard[k].strength = heard[b[l]].strength
        <4>1. heard[k].strength \in Nat /\ heard[b[l]].strength \in Nat
          BY <1>12, <2>2, <3>3
        <4>2. d[h].strength <= d[i].strength
          BY <1>3, <3>5, BelowStrength
        <4>3. heard[b[l]].strength <= heard[k].strength
          BY <2>5, <3>3, <4>2
        <4> DEFINE x == heard[k].strength
                   y == heard[b[l]].strength
        <4>4. x \in Nat /\ y \in Nat /\ x <= y /\ y <= x
          BY <3>4, <4>1, <4>3
        <4> HIDE DEF x, y
        <4>5. x = y
          BY <4>4
        <4> QED
          BY <4>5 DEF x, y
      <3>7. s[l] = s[j]
        <4>1. s[l] = WordOf(b[l]) /\ s[j] = WordOf(k) /\ heard[b[l]].oid = heard[k].oid
          BY <1>1, <2>3, <2>5, <3>1, <3>3
        <4> QED
          BY <3>6, <4>1 DEF WordOf
      <3>8. d[h] = d[i]
        BY <2>4, <3>2, <3>7 DEF Tally
      <3> QED
        BY <1>3, <3>5, <3>8, BelowOrders
    <2>7. u[i] = d[i]
      BY <1>7, <2>6
    <2> QED
      BY <1>14, <2>5, <2>7
  <1> QED
    BY <1>9, <1>11, <1>13, <1>14 DEF Ready, u

(* The passes publish what is meant.                                       *)
LEMMA RatedReady ==
  ASSUME heard \in Seq(Beacon), NEW t, NEW w, NEW b, NEW n, WordsOf(w, b, n, t)
  PROVE  Ready(Rated(w), Entries(t))
  <1>1. /\ n \in Nat /\ n = Cardinality(LiveOnes(t)) /\ Len(w) = n /\ w \in [1 .. n -> WordSet]
        /\ \A i \in 1 .. n : b[i] \in LiveOnes(t) /\ w[i] = WordOf(b[i])
        /\ \A k \in LiveOnes(t) : \E i \in 1 .. n : b[i] = k
    BY WordsOfAre
  <1>2. CASE n > 1
    <2> DEFINE s == Ascending(w)
               c == Counted(s)
               d == Ascending(c)
    <2>1. PICK q : WordsOf(s, q, n, t)
      BY SortedWords
    <2>2. Rises(s, n)
      BY SortedWords
    <2> HIDE DEF s
    <2>3. /\ s \in [1 .. n -> WordSet]
          /\ \A i \in 1 .. n : q[i] \in LiveOnes(t) /\ s[i] = WordOf(q[i])
      BY <2>1, WordsOfAre
    <2>4. \A j \in 1 .. n : s[j].rest = 0
      BY <2>3, LiveOnesAre
    <2>5. n \in Nat \ {0}
      BY <1>1, <1>2
    <2>6. Once(c, {Tally(s, n, j) : j \in 1 .. n})
      BY <2>2, <2>3, <2>4, <2>5, CountedOnce
    <2> HIDE DEF c
    <2>7. Once(d, {Tally(s, n, j) : j \in 1 .. n}) /\ Strict(d, Len(d))
      BY <2>6, AscendingOnce
    <2> HIDE DEF d
    <2>8. Ready(WithoutDuplicates(d), Entries(t))
      BY <1>2, <2>1, <2>7, DistinctReady
    <2>9. Rated(w) = WithoutDuplicates(d)
      BY <1>1, <1>2 DEF Rated, d, c, s
    <2> QED
      BY <2>8, <2>9
  <1>3. CASE n <= 1
    <2>1. Rated(w) = w /\ w \in Seq(WordSet) /\ DOMAIN w = 1 .. n
      BY <1>1, <1>3 DEF Rated
    <2>2. \A i \in 1 .. n : i = 1 /\ n = 1
      BY <1>1, <1>3
    <2>3. \A i, j \in DOMAIN w : ~ (i < j)
      BY <2>1, <2>2
    <2>4. ASSUME NEW i \in 1 .. n
          PROVE  Entry(w[i]) = EntryOf(t, b[i]) /\ b[i] \in Listed(t)
      <3>1. i = 1 /\ n = 1
        BY <2>2
      <3>2. w[i] = Word(heard[b[i]].strength, 0, heard[b[i]].oid)
        BY <1>1 DEF WordOf
      <3>3. COUNT_MAX - 0 = COUNT_MAX
        BY BeaconRatingAssumption
      <3>4. Packets(t, heard[b[i]].oid, heard[b[i]].strength) = COUNT_MAX
        BY <1>1, <3>1 DEF Packets
      <3>5. Entry(w[i]) = EntryOf(t, b[i])
        BY <3>2, <3>3, <3>4 DEF Entry, EntryOf, Word
      <3>6. \A k \in LiveOnes(t) : k = b[i]
        BY <1>1, <2>2
      <3>7. b[i] \in LiveOnes(t) /\ heard[b[i]].strength \in Nat
        BY <1>1, LiveOnesAre
      <3>8. b[i] \in Listed(t)
        BY <3>6, <3>7 DEF Listed
      <3> QED
        BY <3>5, <3>8
    <2>5. \A i \in DOMAIN w : Entry(w[i]) \in Entries(t)
      BY <2>1, <2>4, EntriesAre
    <2>6. ASSUME NEW e \in Entries(t), e # Entry(ZeroWord)
          PROVE  \E i \in DOMAIN w : w[i] # ZeroWord /\ Entry(w[i]) = e
      <3>1. PICK k \in Listed(t) : e = EntryOf(t, k)
        BY EntriesAre
      <3>2. PICK i \in 1 .. n : b[i] = k
        BY <1>1 DEF Listed
      <3>3. Entry(w[i]) = e
        BY <2>4, <3>1, <3>2
      <3> QED
        BY <2>1, <2>6, <3>3
    <2> QED
      BY <2>1, <2>3, <2>5, <2>6 DEF Ready
  <1> QED
    BY <1>1, <1>2, <1>3

-----------------------------------------------------------------------------
(* The words become entries, one at a time.                                *)
LEMMA EntryBeforeIs ==
  ASSUME NEW d, NEW e
  PROVE  EntryBefore(d, e) <=>
           \/ d.strength < e.strength
           \/ d.strength = e.strength /\ - d.packets < - e.packets
           \/ d.strength = e.strength /\ - d.packets = - e.packets /\ d.oid < e.oid
  BY DEF EntryBefore, Below, Word

LEMMA EntryNumbers ==
  ASSUME NEW e \in EntrySet
  PROVE  e.strength \in Nat /\ e.packets \in Int /\ e.oid \in Nat
  BY DEF EntrySet

LEMMA EntriesOrdered ==
  ASSUME NEW S, S \subseteq EntrySet, NEW R,
         \A d, e \in S : <<d, e>> \in R <=> EntryBefore(d, e)
  PROVE  StrictOrder(S, R)
  <1>1. \A e \in S : e.strength \in Nat /\ e.packets \in Int /\ e.oid \in Nat
    BY EntryNumbers
  <1>2. ASSUME NEW e \in S
        PROVE  ~ EntryBefore(e, e)
    BY <1>1, EntryBeforeIs
  <1>3. ASSUME NEW c \in S, NEW d \in S, NEW e \in S, EntryBefore(c, d), EntryBefore(d, e)
        PROVE  EntryBefore(c, e)
    <2>1. /\ c.strength \in Nat /\ c.packets \in Int /\ c.oid \in Nat
          /\ d.strength \in Nat /\ d.packets \in Int /\ d.oid \in Nat
          /\ e.strength \in Nat /\ e.packets \in Int /\ e.oid \in Nat
      BY <1>1
    <2> QED
      BY <1>3, <2>1, EntryBeforeIs
  <1>4. ASSUME NEW d \in S, NEW e \in S, d # e
        PROVE  EntryBefore(d, e) \/ EntryBefore(e, d)
    <2>1. /\ d.strength \in Nat /\ d.packets \in Int /\ d.oid \in Nat
          /\ e.strength \in Nat /\ e.packets \in Int /\ e.oid \in Nat
      BY <1>1
    <2>2. ~ (d.strength = e.strength /\ d.packets = e.packets /\ d.oid = e.oid)
      BY <1>4 DEF EntrySet
    <2> QED
      BY <2>1, <2>2, EntryBeforeIs
  <1> QED
    BY <1>2, <1>3, <1>4 DEF StrictOrder

LEMMA EntryKeepsOrder ==
  ASSUME NEW v \in WordSet, NEW w \in WordSet, Below(v, w)
  PROVE  EntryBefore(Entry(v), Entry(w))
  <1>1. /\ v.strength \in Nat /\ v.oid \in Nat /\ v.rest \in Nat
        /\ w.strength \in Nat /\ w.oid \in Nat /\ w.rest \in Nat /\ COUNT_MAX \in Nat
    BY WordParts, BeaconRatingAssumption
  <1>2. /\ Entry(v).strength = v.strength /\ Entry(v).packets = COUNT_MAX - v.rest
        /\ Entry(v).oid = v.oid
        /\ Entry(w).strength = w.strength /\ Entry(w).packets = COUNT_MAX - w.rest
        /\ Entry(w).oid = w.oid
    BY EntryIs
  <1>3. /\ v.rest < w.rest => - (COUNT_MAX - v.rest) < - (COUNT_MAX - w.rest)
        /\ v.rest = w.rest => - (COUNT_MAX - v.rest) = - (COUNT_MAX - w.rest)
    BY <1>1
  <1> QED
    BY <1>2, <1>3, EntryBeforeIs DEF Below

(* What is published of the words so far.                                  *)
Meant(E) == E \ {Entry(ZeroWord)}

SoFar(out, u, E) ==
  /\ out \in Seq(EntrySet) /\ u \in Seq(WordSet)
  /\ \A i, j \in DOMAIN out : i < j => EntryBefore(out[i], out[j])
  /\ \A i, j \in DOMAIN u : i < j /\ u[i] # ZeroWord /\ u[j] # ZeroWord => Below(u[i], u[j])
  /\ \A i \in DOMAIN out, j \in DOMAIN u : u[j] # ZeroWord => EntryBefore(out[i], Entry(u[j]))
  /\ \A i \in DOMAIN out : out[i] \in Meant(E)
  /\ \A i \in DOMAIN u : u[i] # ZeroWord => Entry(u[i]) \in Meant(E)
  /\ \A e \in Meant(E) : \/ \E i \in DOMAIN out : out[i] = e
                         \/ \E i \in DOMAIN u : u[i] # ZeroWord /\ Entry(u[i]) = e

LEMMA SoFarBegins ==
  ASSUME NEW u, NEW E, Ready(u, E)
  PROVE  SoFar(<<>>, u, E)
  <1>1. <<>> \in Seq(EntrySet) /\ DOMAIN <<>> = {}
    OBVIOUS
  <1>2. u \in Seq(WordSet) /\ \A i \in DOMAIN u : u[i] \in WordSet
    BY DEF Ready
  <1>3. ASSUME NEW i \in DOMAIN u, u[i] # ZeroWord
        PROVE  Entry(u[i]) \in Meant(E)
    <2>1. u[i] \in WordSet /\ ZeroWord \in WordSet
      BY <1>2, WordParts
    <2>2. Entry(u[i]) # Entry(ZeroWord)
      BY <1>3, <2>1, EntryOnce
    <2> QED
      BY <1>3, <2>2 DEF Ready, Meant
  <1>4. \A e \in Meant(E) : \E i \in DOMAIN u : u[i] # ZeroWord /\ Entry(u[i]) = e
    BY DEF Ready, Meant
  <1> QED
    BY <1>1, <1>2, <1>3, <1>4 DEF Ready, SoFar

LEMMA SoFarGrows ==
  ASSUME NEW out, NEW u, NEW E, SoFar(out, u, E), u # <<>>
  PROVE  SoFar(IF Head(u) = ZeroWord THEN out ELSE Append(out, Entry(Head(u))), Tail(u), E)
  <1> DEFINE v == Tail(u)
             x == Head(u)
             e == Entry(x)
             o == Append(out, e)
  <1>1. out \in Seq(EntrySet) /\ u \in Seq(WordSet)
    BY DEF SoFar
  <1>2. /\ v \in Seq(WordSet) /\ x = u[1] /\ x \in WordSet /\ 1 \in DOMAIN u
        /\ \A i \in DOMAIN v : i + 1 \in DOMAIN u /\ v[i] = u[i + 1] /\ 1 < i + 1 /\ i \in Nat
        /\ \A i \in DOMAIN u : i = 1 \/ (i - 1 \in DOMAIN v /\ v[i - 1] = u[i])
    <2>1. /\ Len(u) \in Nat \ {0} /\ DOMAIN u = 1 .. Len(u) /\ x = u[1]
          /\ v \in Seq(WordSet) /\ DOMAIN v = 1 .. (Len(u) - 1)
          /\ \A i \in 1 .. (Len(u) - 1) : v[i] = u[i + 1]
      BY <1>1
    <2>2. 1 \in 1 .. Len(u) /\ \A i \in 1 .. (Len(u) - 1) : i + 1 \in 1 .. Len(u)
      BY <2>1
    <2>3. \A i \in 1 .. Len(u) : i = 1 \/ (i - 1 \in 1 .. (Len(u) - 1) /\ i - 1 + 1 = i)
      BY <2>1
    <2>4. x \in WordSet
      BY <1>1, <2>1, <2>2
    <2>5. \A i \in DOMAIN u : i = 1 \/ (i - 1 \in DOMAIN v /\ v[i - 1] = u[i])
      <3> HIDE DEF v
      <3> QED
        BY <2>1, <2>3
    <2>6. \A i \in DOMAIN v : i + 1 \in DOMAIN u /\ v[i] = u[i + 1] /\ 1 < i + 1 /\ i \in Nat
      <3> HIDE DEF v
      <3> QED
        BY <2>1, <2>2
    <2> QED
      BY <2>1, <2>2, <2>4, <2>5, <2>6
  <1> HIDE DEF v, x
  <1>3. \A i, j \in DOMAIN v : i < j /\ v[i] # ZeroWord /\ v[j] # ZeroWord => Below(v[i], v[j])
    <2> SUFFICES ASSUME NEW i \in DOMAIN v, NEW j \in DOMAIN v, i < j, v[i] # ZeroWord,
                        v[j] # ZeroWord
                 PROVE  Below(v[i], v[j])
      OBVIOUS
    <2>1. i + 1 \in DOMAIN u /\ j + 1 \in DOMAIN u /\ v[i] = u[i + 1] /\ v[j] = u[j + 1]
          /\ i + 1 < j + 1
      BY <1>2
    <2> QED
      BY <2>1 DEF SoFar
  <1>4. \A i \in DOMAIN v : v[i] # ZeroWord => Entry(v[i]) \in Meant(E)
    BY <1>2 DEF SoFar
  <1>5. \A i \in DOMAIN out, j \in DOMAIN v :
           v[j] # ZeroWord => EntryBefore(out[i], Entry(v[j]))
    BY <1>2 DEF SoFar
  <1>6. CASE x = ZeroWord
    <2>1. ASSUME NEW f \in Meant(E)
          PROVE  \/ \E i \in DOMAIN out : out[i] = f
                 \/ \E i \in DOMAIN v : v[i] # ZeroWord /\ Entry(v[i]) = f
      <3>1. CASE \E i \in DOMAIN out : out[i] = f
        BY <3>1
      <3>2. CASE \E i \in DOMAIN u : u[i] # ZeroWord /\ Entry(u[i]) = f
        BY <1>2, <1>6, <3>2
      <3> QED
        BY <3>1, <3>2 DEF SoFar
    <2>2. SoFar(out, v, E)
      BY <1>1, <1>2, <1>3, <1>4, <1>5, <2>1 DEF SoFar
    <2> QED
      BY <1>6, <2>2 DEF v, x
  <1>7. CASE x # ZeroWord
    <2>1. e \in EntrySet /\ e \in Meant(E)
      BY <1>2, <1>7, EntryIs DEF SoFar
    <2> HIDE DEF e
    <2>2. /\ o \in Seq(EntrySet) /\ Len(out) \in Nat /\ Len(out) + 1 \in DOMAIN o
          /\ o[Len(out) + 1] = e
          /\ \A i \in DOMAIN out : i \in DOMAIN o /\ o[i] = out[i] /\ i < Len(out) + 1
          /\ \A i \in DOMAIN o : i = Len(out) + 1 \/ i \in DOMAIN out
      BY <1>1, <2>1
    <2> HIDE DEF o
    <2>3. ASSUME NEW i \in DOMAIN o, NEW j \in DOMAIN o, i < j
          PROVE  EntryBefore(o[i], o[j])
      <3>1. i \in DOMAIN out
        <4>1. i # Len(out) + 1
          <5>1. DOMAIN o = 1 .. Len(out) + 1
            BY <1>1, <2>1 DEF o
          <5> QED
            BY <2>2, <2>3, <5>1
        <4> QED
          BY <2>2, <4>1
      <3>2. CASE j \in DOMAIN out
        BY <2>2, <2>3, <3>1, <3>2 DEF SoFar
      <3>3. CASE j = Len(out) + 1
        <4>1. EntryBefore(out[i], Entry(x))
          BY <1>2, <1>7, <3>1 DEF SoFar
        <4> QED
          BY <2>2, <3>1, <3>3, <4>1 DEF e
      <3> QED
        BY <2>2, <3>2, <3>3
    <2>4. ASSUME NEW i \in DOMAIN o, NEW j \in DOMAIN v, v[j] # ZeroWord
          PROVE  EntryBefore(o[i], Entry(v[j]))
      <3>1. CASE i \in DOMAIN out
        BY <1>5, <2>2, <2>4, <3>1
      <3>2. CASE i = Len(out) + 1
        <4>1. Below(x, v[j])
          BY <1>2, <1>7, <2>4 DEF SoFar
        <4>2. v[j] \in WordSet
          BY <1>2
        <4> QED
          BY <1>2, <2>2, <3>2, <4>1, <4>2, EntryKeepsOrder DEF e
      <3> QED
        BY <2>2, <3>1, <3>2
    <2>5. \A i \in DOMAIN o : o[i] \in Meant(E)
      BY <2>1, <2>2 DEF SoFar
    <2>6. ASSUME NEW f \in Meant(E)
          PROVE  \/ \E i \in DOMAIN o : o[i] = f
                 \/ \E i \in DOMAIN v : v[i] # ZeroWord /\ Entry(v[i]) = f
      <3>1. CASE \E i \in DOMAIN out : out[i] = f
        BY <2>2, <3>1
      <3>2. CASE \E i \in DOMAIN u : u[i] # ZeroWord /\ Entry(u[i]) = f
        BY SMTT(30), <1>2, <2>2, <3>2 DEF e
      <3> QED
        BY <3>1, <3>2 DEF SoFar
    <2>7. SoFar(o, v, E)
      BY <1>2, <1>3, <1>4, <2>2, <2>3, <2>4, <2>5, <2>6 DEF SoFar
    <2> QED
      BY <1>7, <2>7 DEF o, e, v, x
  <1> QED
    BY <1>6, <1>7

LEMMA SoFarEnds ==
  ASSUME NEW out, NEW t, SoFar(out, <<>>, Entries(t))
  PROVE  out = Rating(t)
  <1> DEFINE n == Len(out)
             S == Meant(Entries(t))
             R == {q \in S \X S : EntryBefore(q[1], q[2])}
             r == CHOOSE s \in [1 .. Cardinality(S) -> S] :
                    \A i, j \in DOMAIN s : i < j => EntryBefore(s[i], s[j])
  <1>1. /\ n \in Nat /\ out \in [1 .. n -> EntrySet] /\ DOMAIN out = 1 .. n
    BY DEF SoFar
  <1> HIDE DEF n
  <1>2. /\ \A i, j \in 1 .. n : i < j => EntryBefore(out[i], out[j])
        /\ \A i \in 1 .. n : out[i] \in S
        /\ \A e \in S : \E i \in 1 .. n : out[i] = e
    <2>1. DOMAIN <<>> = {}
      OBVIOUS
    <2> QED
      BY <1>1, <2>1 DEF SoFar
  <1>3. out \in [1 .. n -> S]
    BY <1>1, <1>2
  <1>4. S \subseteq EntrySet
    BY <1>1, <1>2
  <1>5. \A d, e \in S : <<d, e>> \in R <=> EntryBefore(d, e)
    <2> HIDE DEF S
    <2> QED
      OBVIOUS
  <1> HIDE DEF R
  <1>6. StrictOrder(S, R)
    <2> HIDE DEF S
    <2> QED
      BY <1>4, <1>5, EntriesOrdered
  <1>7. Rating(t) = r
    BY DEF Rating, Ordered, Meant
  <1> HIDE DEF S
  <1>8. Ascends(out, n, R)
    BY <1>2, <1>5 DEF Ascends
  <1>9. IsFiniteSet(S) /\ Cardinality(S) = n
    <2>1. out \in Surjection(1 .. n, S)
      BY <1>2, <1>3 DEF Surjection
    <2>2. out \in Injection(1 .. n, S)
      <3>1. ASSUME NEW i \in 1 .. n, NEW j \in 1 .. n, out[i] = out[j]
            PROVE  i = j
        <4>1. out[i] \in S /\ out[j] \in S /\ <<out[i], out[i]>> \notin R
          BY <1>2, <1>6 DEF StrictOrder
        <4>2. ~ (i < j) /\ ~ (j < i)
          BY <1>8, <3>1, <4>1 DEF Ascends
        <4> QED
          BY <1>1, <4>2
      <3> QED
        BY <1>3, <3>1, Fun_IsInj
    <2>3. IsFiniteSet(1 .. n) /\ Cardinality(1 .. n) = n
      BY <1>1, FS_Interval
    <2> QED
      BY <2>1, <2>2, <2>3, FS_Surjection
  <1>10. r \in [1 .. n -> S] /\ \A i, j \in DOMAIN r : i < j => EntryBefore(r[i], r[j])
    <2>1. out \in [1 .. Cardinality(S) -> S]
      BY <1>3, <1>9
    <2>2. \A i, j \in DOMAIN out : i < j => EntryBefore(out[i], out[j])
      BY <1>1, <1>2
    <2>3. \E s \in [1 .. Cardinality(S) -> S] :
            \A i, j \in DOMAIN s : i < j => EntryBefore(s[i], s[j])
      BY <2>1, <2>2
    <2>4. r \in [1 .. Cardinality(S) -> S]
          /\ \A i, j \in DOMAIN r : i < j => EntryBefore(r[i], r[j])
      BY <2>3
    <2> HIDE DEF r
    <2> QED
      BY <1>9, <2>4
  <1> HIDE DEF r
  <1>11. Ascends(r, n, R)
    <2>1. DOMAIN r = 1 .. n /\ \A i \in 1 .. n : r[i] \in S
      BY <1>10
    <2> QED
      BY <1>5, <1>10, <2>1 DEF Ascends
  <1>12. \A e \in S : \E i \in 1 .. n : r[i] = e
    <2>1. r \in [1 .. Cardinality(S) -> S] /\ Ascends(r, Cardinality(S), R)
      BY <1>9, <1>10, <1>11
    <2>2. r \in Bijection(1 .. Cardinality(S), S)
      BY <1>6, <1>9, <2>1, EnumerationIsOnto
    <2> QED
      BY <1>9, <2>2 DEF Bijection, Surjection
  <1>13. out = r
    <2>1. Enumerates(out, n, S, R) /\ Enumerates(r, n, S, R)
      BY <1>2, <1>3, <1>8, <1>10, <1>11, <1>12 DEF Enumerates
    <2> QED
      BY <1>1, <1>6, <2>1, EnumerationIsUnique
  <1> QED
    BY <1>7, <1>13

-----------------------------------------------------------------------------
(* The semaphore and the copy that is printed.                             *)
(* Of a sequence the first n elements, element by element.                 *)
Prefix(p, s, n) ==
  /\ n \in 0 .. Len(s)
  /\ Len(p) = n
  /\ \A j \in 1 .. n : p[j] = s[j]

LEMMA PrefixIs ==
  ASSUME NEW S, NEW s \in Seq(S), NEW p \in Seq(S), NEW n, Prefix(p, s, n)
  PROVE  p = SubSeq(s, 1, n)
  <1>1. n \in Nat /\ n <= Len(s) /\ Len(s) \in Nat
    BY DEF Prefix
  <1>2. /\ SubSeq(s, 1, n) \in Seq(S) /\ Len(SubSeq(s, 1, n)) = n
        /\ \A j \in 1 .. n : SubSeq(s, 1, n)[j] = s[j]
    BY <1>1
  <1> QED
    BY <1>2, SeqEqual DEF Prefix

LEMMA PrefixGrows ==
  ASSUME NEW S, NEW s \in Seq(S), NEW p \in Seq(S), Prefix(p, s, Len(p)), Len(p) < Len(s)
  PROVE  LET q == Append(p, s[Len(p) + 1]) IN q \in Seq(S) /\ Len(q) = Len(p) + 1 /\ Prefix(q, s, Len(q))
  <1> DEFINE e == s[Len(p) + 1]
             q == Append(p, e)
  <1>1. Len(p) \in Nat /\ Len(s) \in Nat /\ Len(p) + 1 \in 1 .. Len(s) /\ e \in S
    OBVIOUS
  <1>2. q \in Seq(S) /\ Len(q) = Len(p) + 1 /\ q[Len(p) + 1] = e
        /\ \A j \in 1 .. Len(p) : q[j] = p[j]
    BY <1>1
  <1>3. \A j \in 1 .. Len(q) : q[j] = s[j]
    BY <1>1, <1>2 DEF Prefix
  <1> QED
    BY <1>1, <1>2, <1>3 DEF Prefix

Exclusive ==
  /\ rating.pc = "copy" <=> semaphore = "rating"
  /\ radio.pc = "publish" <=> semaphore = "radio"

Copying ==
  \E S : /\ sorted \in Seq(S)
         /\ rating \in [pc : {"idle", "copy", "print"}, items : Nat, printed : Seq(S)]
         /\ rating.pc = "idle" => rating.printed = <<>> /\ copied = <<>>
         /\ rating.pc = "copy" =>
              /\ copied = sorted
              /\ rating.items = Min({SORT_PRINT_DEPTH, Len(sorted)})
              /\ Len(rating.printed) <= rating.items
              /\ Prefix(rating.printed, sorted, Len(rating.printed))
         /\ rating.pc = "print" =>
              rating.printed = SubSeq(copied, 1, Min({SORT_PRINT_DEPTH, Len(copied)}))

(* What is published is the rating as of the last update.                  *)
Published == semaphore = "free" => sorted = rated

RatingState(S) == [pc : {"idle", "copy", "print"}, items : Nat, printed : Seq(S)]

(* The other tasks leave the semaphore and the rating task alone.          *)
LEMMA RadioHas ==
  ASSUME Types, RadioTask
  PROVE  /\ UNCHANGED <<rating, copied>>
         /\ \/ /\ ~ BeginPublish /\ ~ PublishWord /\ ~ EndPublish
               /\ radio.pc # "publish" /\ radio'.pc # "publish"
               /\ UNCHANGED <<semaphore, sorted, rated>>
            \/ /\ BeginPublish /\ semaphore = "free" /\ semaphore' = "radio" /\ sorted' = <<>>
               /\ radio'.pc = "publish"
            \/ /\ PublishWord /\ radio.pc = "publish" /\ radio'.pc = "publish"
               /\ semaphore' = semaphore
               /\ \E e : sorted' = sorted \/ sorted' = Append(sorted, e)
            \/ /\ EndPublish /\ radio.pc = "publish" /\ radio'.pc = "receive" /\ semaphore' = "free"
               /\ sorted' = sorted
  <1>0. PICK W : radio \in [pc : RadioPc, last : Nat, words : W]
    BY DEF Types
  <1>1. UNCHANGED <<rating, copied>>
    BY DEF RadioTask, Receive, SendCommand, CommandSent, NoCommand, UpdateRating, NotYet,
       BeginPublish, GiveUpPublish, PublishWord, EndPublish, report
  <1>2. CASE Receive
    BY <1>1, <1>2 DEF Receive, BeginPublish, PublishWord, EndPublish, table
  <1>3. CASE SendCommand \/ CommandSent \/ NoCommand
    BY <1>0, <1>1, <1>3 DEF SendCommand, CommandSent, NoCommand, BeginPublish, PublishWord,
       EndPublish, table
  <1>4. CASE UpdateRating
    BY <1>1, <1>4 DEF UpdateRating, BeginPublish, PublishWord, EndPublish, table
  <1>5. CASE NotYet
    BY <1>0, <1>1, <1>5 DEF NotYet, BeginPublish, PublishWord, EndPublish, table
  <1>6. CASE BeginPublish
    BY <1>0, <1>1, <1>6 DEF BeginPublish, Free
  <1>7. CASE GiveUpPublish
    BY <1>0, <1>1, <1>7 DEF GiveUpPublish, BeginPublish, PublishWord, EndPublish, Free, table
  <1>8. CASE PublishWord
    <2>1. radio.pc = "publish" /\ radio'.pc = "publish" /\ semaphore' = semaphore
      BY <1>0, <1>8 DEF PublishWord
    <2>2. \E e : sorted' = sorted \/ sorted' = Append(sorted, e)
      BY <1>8 DEF PublishWord
    <2> QED
      BY <1>1, <1>8, <2>1, <2>2
  <1>9. CASE EndPublish
    BY <1>0, <1>1, <1>9 DEF EndPublish
  <1> QED
    BY <1>2, <1>3, <1>4, <1>5, <1>6, <1>7, <1>8, <1>9 DEF RadioTask

LEMMA OthersHave ==
  ASSUME [Next]_vars, ~ RadioTask, ~ RatingTask
  PROVE  UNCHANGED <<rating, copied, semaphore, sorted, rated>> /\ radio' = radio
  BY DEF Next, CommandTask, EnterReader, EnterOpcode, EnterData, Tick, vars, table, report

LEMMA ExclusiveStep ==
  ASSUME Types, Exclusive, Copying, [Next]_vars
  PROVE  Exclusive'
  <1>0. PICK S : rating \in RatingState(S)
    BY DEF Copying, RatingState
  <1>1. CASE RadioTask
    BY <1>1, RadioHas DEF Exclusive
  <1>2. CASE RatingTask
    <2>1. radio' = radio
      BY <1>2 DEF RatingTask, BeginCopy, CopyEntry, EndCopy, GiveUpCopy, Printed
    <2>2. CASE BeginCopy
      BY <2>1, <2>2 DEF Exclusive, BeginCopy
    <2>3. CASE CopyEntry
      <3>1. rating'.pc = rating.pc /\ semaphore' = semaphore
        BY <1>0, <2>3 DEF CopyEntry, table, RatingState
      <3> QED
        BY <2>1, <3>1 DEF Exclusive
    <2>4. CASE EndCopy
      <3>1. rating'.pc = "print" /\ semaphore' = "free" /\ rating.pc = "copy"
        BY <1>0, <2>4 DEF EndCopy, RatingState
      <3> QED
        BY <2>1, <3>1 DEF Exclusive
    <2>5. CASE GiveUpCopy
      <3>1. rating'.pc = "print" /\ semaphore' = semaphore /\ rating.pc = "idle"
        BY <1>0, <2>5 DEF GiveUpCopy, table, RatingState
      <3> QED
        BY <2>1, <3>1 DEF Exclusive
    <2>6. CASE Printed
      BY <2>1, <2>6 DEF Exclusive, Printed, table
    <2> QED
      BY <1>2, <2>2, <2>3, <2>4, <2>5, <2>6 DEF RatingTask
  <1>3. CASE ~ RadioTask /\ ~ RatingTask
    BY <1>3, OthersHave DEF Exclusive
  <1> QED
    BY <1>1, <1>2, <1>3

LEMMA CopyingStep ==
  ASSUME Types, Exclusive, Copying, Published, [Next]_vars
  PROVE  Copying'
  <1>0. PICK S :
          /\ sorted \in Seq(S)
          /\ rating \in RatingState(S)
          /\ rating.pc = "idle" => rating.printed = <<>> /\ copied = <<>>
          /\ rating.pc = "copy" =>
               /\ copied = sorted
               /\ rating.items = Min({SORT_PRINT_DEPTH, Len(sorted)})
               /\ Len(rating.printed) <= rating.items
               /\ Prefix(rating.printed, sorted, Len(rating.printed))
          /\ rating.pc = "print" =>
               rating.printed = SubSeq(copied, 1, Min({SORT_PRINT_DEPTH, Len(copied)}))
    BY DEF Copying, RatingState
  <1>1. ASSUME NEW T, sorted' \in Seq(T), rating' \in RatingState(T),
               rating'.pc = "idle" => rating'.printed = <<>> /\ copied' = <<>>,
               rating'.pc = "copy" =>
                 /\ copied' = sorted'
                 /\ rating'.items = Min({SORT_PRINT_DEPTH, Len(sorted')})
                 /\ Len(rating'.printed) <= rating'.items
                 /\ Prefix(rating'.printed, sorted', Len(rating'.printed)),
               rating'.pc = "print" =>
                 rating'.printed = SubSeq(copied', 1, Min({SORT_PRINT_DEPTH, Len(copied')}))
        PROVE  Copying'
    BY <1>1 DEF Copying, RatingState, Prefix
  <1>2. Len(sorted) \in Nat /\ SORT_PRINT_DEPTH \in Nat
    BY <1>0, BeaconRatingAssumption
  <1>3. CASE sorted' = sorted /\ rating' = rating /\ copied' = copied
    BY <1>0, <1>1, <1>3
  <1>4. CASE RadioTask /\ sorted' # sorted
    <2>1. rating' = rating /\ copied' = copied /\ rating.pc # "copy"
      BY <1>4, RadioHas DEF Exclusive
    <2>2. \E T : sorted' \in Seq(T) /\ rating' \in RatingState(T)
      <3>1. sorted' = <<>> \/ \E e : sorted' = Append(sorted, e)
        BY <1>4, RadioHas
      <3>2. CASE sorted' = <<>>
        BY <1>0, <2>1, <3>2
      <3>3. CASE \E e : sorted' = Append(sorted, e)
        <4>1. PICK e : sorted' = Append(sorted, e)
          BY <3>3
        <4>2. sorted \in Seq(S \cup {e}) /\ e \in S \cup {e} /\ rating.printed \in Seq(S \cup {e})
          BY <1>0 DEF RatingState
        <4>3. sorted' \in Seq(S \cup {e})
          BY <4>1, <4>2
        <4>4. rating' \in RatingState(S \cup {e})
          BY <1>0, <2>1, <4>2 DEF RatingState
        <4> QED
          BY <4>3, <4>4
      <3> QED
        BY <3>1, <3>2, <3>3
    <2> QED
      BY <1>0, <1>1, <2>1, <2>2
  <1>5. CASE BeginCopy
    <2> DEFINE n == Min({SORT_PRINT_DEPTH, Len(sorted)})
    <2>1. n \in Nat
      BY <1>2, MinOfTwo
    <2> HIDE DEF n
    <2>2. /\ rating' = [pc |-> "copy", items |-> n, printed |-> <<>>]
          /\ copied' = rated /\ sorted' = sorted /\ semaphore = "free"
      BY <1>5 DEF BeginCopy, n
    <2>3. copied' = sorted'
      BY <2>2 DEF Published
    <2>4. <<>> \in Seq(S) /\ Len(<<>>) = 0 /\ Prefix(<<>>, sorted, 0)
      BY <1>2 DEF Prefix
    <2>5. rating' \in RatingState(S) /\ rating'.pc = "copy" /\ rating'.items = n
          /\ rating'.printed = <<>>
      BY <2>1, <2>2, <2>4 DEF RatingState
    <2>6. Len(rating'.printed) = 0 /\ 0 <= n
      BY <2>1, <2>4, <2>5
    <2> QED
      BY <1>0, <1>1, <2>2, <2>3, <2>4, <2>5, <2>6 DEF n
  <1>6. CASE CopyEntry
    <2> DEFINE p == rating.printed
               q == Append(p, sorted[Len(p) + 1])
    <2>1. rating.pc = "copy" /\ Len(p) < rating.items /\ rating' = [rating EXCEPT !.printed = q]
          /\ sorted' = sorted /\ copied' = copied
      BY <1>6 DEF CopyEntry, table
    <2>2. /\ p \in Seq(S) /\ rating.items \in Nat /\ rating.items <= Len(sorted) /\ Len(p) \in Nat
          /\ Prefix(p, sorted, Len(p)) /\ copied = sorted
          /\ rating.items = Min({SORT_PRINT_DEPTH, Len(sorted)})
      BY SMTT(30), <1>0, <1>2, <2>1, MinOfTwo DEF RatingState
    <2>3. Len(p) < Len(sorted)
      BY <1>2, <2>1, <2>2
    <2>4. q \in Seq(S) /\ Len(q) = Len(p) + 1 /\ Prefix(q, sorted, Len(q))
      BY <1>0, <2>2, <2>3, PrefixGrows
    <2> HIDE DEF q
    <2>5. rating' \in RatingState(S) /\ rating'.pc = "copy" /\ rating'.items = rating.items
          /\ rating'.printed = q
      BY <1>0, <2>1, <2>4 DEF RatingState
    <2>6. Len(q) <= rating.items
      BY <2>1, <2>2, <2>4
    <2> QED
      BY <1>0, <1>1, <2>1, <2>2, <2>4, <2>5, <2>6
  <1>7. CASE EndCopy
    <2> DEFINE p == rating.printed
               n == Min({SORT_PRINT_DEPTH, Len(sorted)})
    <2>1. rating.pc = "copy" /\ Len(p) = rating.items /\ rating' = [rating EXCEPT !.pc = "print"]
          /\ sorted' = sorted /\ copied' = copied
      BY <1>7 DEF EndCopy
    <2>2. p \in Seq(S) /\ Prefix(p, sorted, n) /\ copied = sorted
      BY <1>0, <2>1 DEF RatingState
    <2>3. p = SubSeq(copied, 1, n)
      BY <1>0, <2>2, PrefixIs
    <2>4. rating' \in RatingState(S) /\ rating'.pc = "print" /\ rating'.printed = p
      BY <1>0, <2>1 DEF RatingState
    <2> QED
      BY <1>0, <1>1, <2>1, <2>2, <2>3, <2>4
  <1>8. CASE GiveUpCopy
    <2>1. rating.pc = "idle" /\ rating' = [rating EXCEPT !.pc = "print"]
          /\ sorted' = sorted /\ copied' = copied
      BY <1>8 DEF GiveUpCopy, table
    <2>2. rating' \in RatingState(S) /\ rating'.pc = "print" /\ rating'.printed = <<>>
          /\ copied' = <<>>
      BY <1>0, <2>1 DEF RatingState
    <2>3. Min({SORT_PRINT_DEPTH, 0}) = 0
      BY <1>2, MinOfTwo
    <2>4. SubSeq(<<>>, 1, 0) = <<>> /\ Len(<<>>) = 0
      OBVIOUS
    <2>5. rating'.printed = SubSeq(copied', 1, Min({SORT_PRINT_DEPTH, Len(copied')}))
      BY <2>2, <2>3, <2>4
    <2> QED
      BY <1>0, <1>1, <2>1, <2>2, <2>5
  <1>9. CASE Printed
    <2>1. rating' = [pc |-> "idle", items |-> 0, printed |-> <<>>] /\ copied' = <<>>
          /\ sorted' = sorted
      BY <1>9 DEF Printed, table
    <2>2. rating' \in RatingState(S) /\ rating'.pc = "idle" /\ rating'.printed = <<>>
      BY <2>1 DEF RatingState
    <2> QED
      BY <1>0, <1>1, <2>1, <2>2
  <1> QED
    BY <1>3, <1>4, <1>5, <1>6, <1>7, <1>8, <1>9, RadioHas, OthersHave DEF RatingTask

-----------------------------------------------------------------------------
(* The ring.  The last beacon is of age 1, that of slot head, which will   *)
(* be overwritten next, of age FIFO_DEPTH.                                 *)
Age(s)   == IF s < head THEN head - s ELSE head - s + FIFO_DEPTH
Index(s) == Len(heard) + 1 - Age(s)

(* Each of the last beacons is in its slot, or was cleared as it was old.  *)
InSlot(s) ==
  IF Index(s) >= 1
    THEN cache[s] = heard[Index(s)] \/ (cache[s] = NoBeacon /\ ~ Fresh(heard[Index(s)]))
    ELSE cache[s] = NoBeacon

Ring ==
  /\ heard \in Seq(Beacon) /\ head \in Slot
  /\ cache \in [Slot -> Beacon \cup {NoBeacon}]
  /\ \A s \in Slot : InSlot(s)

LEMMA NoBeaconIsNone == NoBeacon \notin Beacon
  <1>1. ASSUME NEW b \in Beacon
        PROVE  b # NoBeacon
    <2>1. DOMAIN b = {"oid", "strength", "time"}
      BY DEF Beacon
    <2>2. DOMAIN NoBeacon = {}
      BY DEF NoBeacon
    <2>3. "oid" \in DOMAIN b /\ "oid" \notin DOMAIN NoBeacon
      BY <2>1, <2>2
    <2> QED
      BY <2>3
  <1> QED
    BY <1>1

LEMMA AgeIs ==
  ASSUME Ring
  PROVE  /\ Len(heard) \in Nat
         /\ \A s \in Slot : Age(s) \in 1 .. FIFO_DEPTH /\ Index(s) \in Int
                            /\ Index(s) <= Len(heard) /\ Index(s) > Len(heard) - FIFO_DEPTH
         /\ \A s, r \in Slot : Index(s) = Index(r) => s = r
         /\ \A k \in Int : k <= Len(heard) /\ k > Len(heard) - FIFO_DEPTH =>
              \E s \in Slot : Index(s) = k
  <1>1. /\ FIFO_DEPTH \in Nat \ {0} /\ head \in 1 .. FIFO_DEPTH /\ Len(heard) \in Nat
        /\ Slot = 1 .. FIFO_DEPTH
    BY BeaconRatingAssumption DEF Ring, Slot
  <1>2. \A s \in Slot : Age(s) \in 1 .. FIFO_DEPTH
    BY <1>1 DEF Age
  <1>3. ASSUME NEW s \in Slot
        PROVE  Index(s) \in Int /\ Index(s) <= Len(heard) /\ Index(s) > Len(heard) - FIFO_DEPTH
    <2>1. Age(s) \in 1 .. FIFO_DEPTH
      BY <1>2
    <2> QED
      BY <1>1, <2>1 DEF Index
  <1>4. ASSUME NEW s \in Slot, NEW r \in Slot, Index(s) = Index(r)
        PROVE  s = r
    <2>1. Age(s) = Age(r)
      <3>1. Age(s) \in Int /\ Age(r) \in Int
        BY <1>1, <1>2
      <3> QED
        BY <1>1, <1>4, <3>1 DEF Index
    <2>2. s \in 1 .. FIFO_DEPTH /\ r \in 1 .. FIFO_DEPTH
      BY <1>1
    <2> QED
      BY <1>1, <2>1, <2>2 DEF Age
  <1>5. ASSUME NEW k \in Int, k <= Len(heard), k > Len(heard) - FIFO_DEPTH
        PROVE  \E s \in Slot : Index(s) = k
    <2> DEFINE a == Len(heard) + 1 - k
               s == IF a < head THEN head - a ELSE head - a + FIFO_DEPTH
    <2>1. a \in 1 .. FIFO_DEPTH
      BY <1>1, <1>5
    <2> HIDE DEF a
    <2>2. s \in Slot /\ Age(s) = a
      BY <1>1, <2>1 DEF Age
    <2> HIDE DEF s
    <2>3. Index(s) = k
      BY <1>1, <2>2 DEF Index, a
    <2> QED
      BY <2>2, <2>3
  <1> QED
    BY <1>1, <1>2, <1>3, <1>4, <1>5

(* vnRFtaskRxTx() 347-436                                                  *)
LEMMA ReceiveKeepsRing ==
  ASSUME Ring, now \in Nat, Receive
  PROVE  Ring'
  <1>1. PICK o \in Oid, x \in Strength :
               /\ cache' = [cache EXCEPT ![head] = [oid |-> o, strength |-> x, time |-> now]]
               /\ heard' = Append(heard, [oid |-> o, strength |-> x, time |-> now])
    BY DEF Receive
  <1> DEFINE b == [oid |-> o, strength |-> x, time |-> now]
             n == Len(heard)
  <1>2. b \in Beacon
    BY BeaconRatingAssumption DEF Beacon
  <1>3. cache' = [cache EXCEPT ![head] = b] /\ heard' = Append(heard, b)
    BY <1>1
  <1>4. head' = (head % FIFO_DEPTH) + 1 /\ now' = now
    BY DEF Receive
  <1> HIDE DEF b
  <1>5. /\ FIFO_DEPTH \in Nat \ {0} /\ head \in 1 .. FIFO_DEPTH /\ Slot = 1 .. FIFO_DEPTH
        /\ heard \in Seq(Beacon) /\ n \in Nat
    BY BeaconRatingAssumption DEF Ring, Slot
  <1>6. /\ heard' \in Seq(Beacon) /\ Len(heard') = n + 1 /\ heard'[n + 1] = b
        /\ \A k \in 1 .. n : heard'[k] = heard[k]
    BY <1>2, <1>3, <1>5
  <1>7. /\ cache' \in [Slot -> Beacon \cup {NoBeacon}] /\ cache'[head] = b
        /\ \A s \in Slot : s # head => cache'[s] = cache[s]
    BY <1>2, <1>3, <1>5 DEF Ring
  <1>8. head' = (IF head = FIFO_DEPTH THEN 1 ELSE head + 1) /\ head' \in 1 .. FIFO_DEPTH
    BY <1>4, <1>5
  <1> HIDE DEF n
  <1>9. Slot' = Slot /\ NoBeacon' = NoBeacon
    BY DEF Slot, NoBeacon
  <1>10. ASSUME NEW s \in Slot, s # head
         PROVE  Index(s)' = Index(s) /\ Index(s) \in Int /\ Index(s) <= n
    <2>1. s \in 1 .. FIFO_DEPTH
      BY <1>5
    <2>2. Age(s)' = Age(s) + 1
      BY <1>5, <1>8, <1>10, <2>1 DEF Age
    <2>3. Age(s) \in 1 .. FIFO_DEPTH /\ Index(s) \in Int /\ Index(s) <= n
      BY AgeIs DEF n
    <2> DEFINE a == Age(s)
               c == Age(s)'
    <2>4. Index(s)' = Len(heard') + 1 - c
      BY DEF Index
    <2>5. Index(s) = n + 1 - a
      BY DEF Index, n
    <2>6. a \in Int /\ c = a + 1
      BY <2>2, <2>3
    <2> HIDE DEF a, c
    <2>7. n + 1 + 1 - c = n + 1 - a
      BY <1>5, <2>6
    <2> QED
      BY <1>6, <2>3, <2>4, <2>5, <2>7
  <1>11. ASSUME NEW s \in Slot
         PROVE  InSlot(s)'
    <2>1. CASE s = head
      <3>1. Len(heard') + 1 - (IF s < head' THEN head' - s ELSE head' - s + FIFO_DEPTH) = n + 1
        BY <1>5, <1>6, <1>8, <2>1
      <3>2. Index(s)' = n + 1
        BY <3>1 DEF Index, Age
      <3>3. cache'[s] = heard'[n + 1]
        BY <1>6, <1>7, <2>1
      <3>4. n + 1 >= 1
        BY <1>5
      <3> QED
        BY <3>2, <3>3, <3>4 DEF InSlot
    <2>2. CASE s # head
      <3>1. Index(s)' = Index(s) /\ Index(s) \in Int /\ Index(s) <= n
        BY <1>10, <2>2
      <3>2. InSlot(s) /\ cache'[s] = cache[s]
        BY <1>7, <2>2 DEF Ring
      <3>3. CASE Index(s) >= 1
        <4>1. Index(s) \in 1 .. n
          BY <1>5, <3>1, <3>3
        <4>2. heard'[Index(s)'] = heard[Index(s)]
          BY <1>6, <3>1, <4>1
        <4>3. Fresh(heard[Index(s)])' <=> Fresh(heard[Index(s)])
          BY <1>4, <3>1, <4>2 DEF Fresh
        <4> QED
          BY <1>9, <3>1, <3>2, <3>3, <4>2, <4>3 DEF InSlot
      <3>4. CASE ~ (Index(s) >= 1)
        BY <1>9, <3>1, <3>2, <3>4 DEF InSlot
      <3> QED
        BY <3>3, <3>4
    <2> QED
      BY <2>1, <2>2
  <1> QED
    BY <1>5, <1>6, <1>7, <1>8, <1>9, <1>11 DEF Ring

LEMMA RingStep ==
  ASSUME Ring, Types, [Next]_vars
  PROVE  Ring'
  <1>0. /\ now \in Nat /\ LIFETIME \in Nat /\ heard \in Seq(Beacon) /\ Len(heard) \in Nat
        /\ cache \in [Slot -> Beacon \cup {NoBeacon}]
    BY BeaconRatingAssumption DEF Types, Ring
  <1>1. CASE Receive
    BY <1>0, <1>1, ReceiveKeepsRing
  <1>2. CASE UpdateRating
    <2>1. UNCHANGED <<now, head, heard>>
      BY <1>2 DEF UpdateRating
    <2>2. cache' = Kept
      BY <1>2 DEF UpdateRating
    <2>3. \A s \in Slot : /\ cache[s] # NoBeacon /\ ~ Fresh(cache[s]) => cache'[s] = NoBeacon
                          /\ ~ (cache[s] # NoBeacon /\ ~ Fresh(cache[s])) => cache'[s] = cache[s]
      BY <2>2 DEF Kept
    <2>4. cache' \in [Slot -> Beacon \cup {NoBeacon}]
      BY <1>0, <2>2 DEF Kept
    <2>5. ASSUME NEW s \in Slot
          PROVE  InSlot(s)'
      <3>1. InSlot(s)
        BY DEF Ring
      <3>2. Index(s)' = Index(s) /\ heard'[Index(s)'] = heard[Index(s)]
        BY <2>1 DEF Index, Age
      <3>3. Fresh(heard[Index(s)])' <=> Fresh(heard[Index(s)])
        BY <2>1, <3>2 DEF Fresh
      <3> QED
        BY <2>3, <3>1, <3>2, <3>3 DEF InSlot, NoBeacon
    <2> QED
      BY <2>1, <2>4, <2>5 DEF Ring, Slot, NoBeacon
  <1>3. CASE Tick
    <2>1. now' = now + 1 /\ UNCHANGED <<cache, head, heard>>
      BY <1>3 DEF Tick, beacons
    <2>2. ASSUME NEW s \in Slot
          PROVE  InSlot(s)'
      <3>1. InSlot(s)
        BY DEF Ring
      <3>2. Index(s)' = Index(s) /\ heard'[Index(s)'] = heard[Index(s)] /\ cache'[s] = cache[s]
        BY <2>1 DEF Index, Age
      <3>3. CASE Index(s) >= 1
        <4> DEFINE k == Index(s)
                   x == heard[k].time
        <4>1. k \in 1 .. Len(heard)
          BY <1>0, <3>3, AgeIs
        <4> HIDE DEF k
        <4>2. heard[k] \in Beacon
          BY <1>0, <4>1
        <4>3. x \in Nat
          BY <4>2 DEF Beacon
        <4>4. ASSUME Fresh(heard[Index(s)])'
              PROVE  Fresh(heard[k])
          <5> DEFINE y == heard'[Index(s)'].time
          <5>1. now' - y < LIFETIME
            BY <4>4 DEF Fresh
          <5>2. y = x
            BY <3>2 DEF k
          <5> HIDE DEF x, y
          <5>3. now - x < LIFETIME
            BY <1>0, <2>1, <4>3, <5>1, <5>2
          <5> QED
            BY <5>3 DEF Fresh, x
        <4> QED
          BY <3>1, <3>2, <3>3, <4>4 DEF InSlot, NoBeacon, k
      <3>4. CASE ~ (Index(s) >= 1)
        BY <3>1, <3>2, <3>4 DEF InSlot, NoBeacon
      <3> QED
        BY <3>3, <3>4
    <2> QED
      BY <2>1, <2>2 DEF Ring, Slot, NoBeacon
  <1>4. CASE ~ Receive /\ ~ UpdateRating /\ ~ Tick
    <2>1. UNCHANGED <<now, cache, head, heard>>
      BY <1>4 DEF Next, RadioTask, RatingTask, CommandTask, SendCommand, CommandSent, NoCommand,
         NotYet, BeginPublish, GiveUpPublish, PublishWord, EndPublish, BeginCopy, CopyEntry,
         EndCopy, GiveUpCopy, Printed, EnterReader, EnterOpcode, EnterData, vars, beacons
    <2> QED
      BY <2>1 DEF Ring, Slot, NoBeacon, InSlot, Index, Age, Fresh
  <1> QED
    BY <1>1, <1>2, <1>3, <1>4

(* What is left in the cache are the beacons that live.                    *)
LEMMA KeptIs ==
  ASSUME Ring
  PROVE  /\ \A s \in Slot : Kept[s] # NoBeacon =>
              Index(s) \in LiveOnes(now) /\ Kept[s] = heard[Index(s)]
         /\ \A k \in LiveOnes(now) : \E s \in Slot : Index(s) = k /\ Kept[s] # NoBeacon
  <1>0. heard \in Seq(Beacon) /\ Len(heard) \in Nat /\ FIFO_DEPTH \in Nat
    BY BeaconRatingAssumption DEF Ring
  <1>1. \A k : k \in LiveOnes(now) <=>
                k \in 1 .. Len(heard) /\ k > Len(heard) - FIFO_DEPTH /\ Fresh(heard[k])
    BY DEF LiveOnes, Fresh
  <1>2. \A s \in Slot : InSlot(s)
    BY DEF Ring
  <1>3. \A s \in Slot : Kept[s] = IF cache[s] # NoBeacon /\ ~ Fresh(cache[s]) THEN NoBeacon
                                  ELSE cache[s]
    BY DEF Kept
  <1>4. ASSUME NEW s \in Slot, Kept[s] # NoBeacon
        PROVE  Index(s) \in LiveOnes(now) /\ Kept[s] = heard[Index(s)]
    <2>1. cache[s] # NoBeacon /\ Fresh(cache[s]) /\ Kept[s] = cache[s]
      BY <1>3, <1>4
    <2>2. Index(s) >= 1 /\ cache[s] = heard[Index(s)]
      BY <1>2, <2>1 DEF InSlot
    <2>3. Index(s) \in 1 .. Len(heard) /\ Index(s) > Len(heard) - FIFO_DEPTH
      BY <1>0, <2>2, AgeIs
    <2> QED
      BY <1>1, <2>1, <2>2, <2>3
  <1>5. ASSUME NEW k \in LiveOnes(now)
        PROVE  \E s \in Slot : Index(s) = k /\ Kept[s] # NoBeacon
    <2>1. k \in 1 .. Len(heard) /\ k > Len(heard) - FIFO_DEPTH /\ Fresh(heard[k])
      BY <1>1
    <2>2. PICK s \in Slot : Index(s) = k
      BY <1>0, <2>1, AgeIs
    <2>3. k >= 1 /\ heard[k] \in Beacon
      BY <1>0, <2>1
    <2>4. cache[s] = heard[k]
      BY <1>2, <2>1, <2>2, <2>3 DEF InSlot
    <2>5. Kept[s] # NoBeacon
      BY <1>3, <2>1, <2>3, <2>4, NoBeaconIsNone
    <2> QED
      BY <2>2, <2>5
  <1> QED
    BY <1>4, <1>5

LEMMA LiveWordsAre ==
  ASSUME Ring
  PROVE  \E b, n : WordsOf(LiveWords, b, n, now)
  <1> DEFINE S == {s \in Slot : Kept[s] # NoBeacon}
             R == {q \in S \X S : q[1] < q[2]}
             n == Cardinality(S)
             list == CHOOSE u \in [1 .. Cardinality(S) -> S] :
                       \A i, j \in DOMAIN u : i < j => u[i] < u[j]
  <1>1. LiveWords = [k \in DOMAIN list |-> Word(Kept[list[k]].strength, 0, Kept[list[k]].oid)]
    BY DEF LiveWords, Ordered
  <1>2. FIFO_DEPTH \in Nat /\ Slot = 1 .. FIFO_DEPTH
    BY BeaconRatingAssumption DEF Slot
  <1>3. IsFiniteSet(S) /\ n \in Nat
    <2>1. IsFiniteSet(Slot) /\ S \in SUBSET Slot
      BY <1>2, FS_Interval
    <2>2. IsFiniteSet(S)
      BY <2>1, FS_Subset
    <2> QED
      BY <2>2, FS_CardinalityType
  <1>4. S \subseteq Int
    BY <1>2
  <1>5. /\ \A s \in S : Index(s) \in LiveOnes(now) /\ Kept[s] = heard[Index(s)]
        /\ \A k \in LiveOnes(now) : \E s \in S : Index(s) = k
        /\ \A s, r \in S : Index(s) = Index(r) => s = r
    BY KeptIs, AgeIs
  <1> HIDE DEF S
  <1>6. \A i, j \in S : <<i, j>> \in R <=> i < j
    OBVIOUS
  <1>7. StrictOrder(S, R)
    BY <1>4, <1>6 DEF StrictOrder
  <1> HIDE DEF R
  <1>8. list \in [1 .. n -> S] /\ \A i, j \in DOMAIN list : i < j => list[i] < list[j]
    <2>1. PICK u \in [1 .. Cardinality(S) -> S] : Ascends(u, Cardinality(S), R)
      BY <1>3, <1>7, EnumerationExists
    <2>2. \A i \in 1 .. n : u[i] \in S
      BY <2>1
    <2>3. \A i, j \in DOMAIN u : i < j => u[i] < u[j]
      BY <1>6, <2>1, <2>2 DEF Ascends
    <2>4. \E v \in [1 .. Cardinality(S) -> S] : \A i, j \in DOMAIN v : i < j => v[i] < v[j]
      BY <2>1, <2>3
    <2> QED
      BY <2>4
  <1> HIDE DEF list
  <1>9. list \in Bijection(1 .. n, S)
    <2>1. DOMAIN list = 1 .. n /\ \A i \in 1 .. n : list[i] \in S
      BY <1>8
    <2>2. Ascends(list, Cardinality(S), R)
      BY <1>6, <1>8, <2>1 DEF Ascends
    <2> QED
      BY <1>3, <1>7, <1>8, <2>2, EnumerationIsOnto
  <1> HIDE DEF n
  <1>10. /\ \A i \in 1 .. n : list[i] \in S
         /\ \A i, j \in 1 .. n : list[i] = list[j] => i = j
         /\ \A s \in S : \E i \in 1 .. n : list[i] = s
    BY <1>9 DEF Bijection, Injection, Surjection, IsInjective
  <1> DEFINE b == [i \in 1 .. n |-> Index(list[i])]
  <1>11. \A i \in 1 .. n : b[i] = Index(list[i])
    OBVIOUS
  <1>12. b \in [1 .. n -> LiveOnes(now)]
    BY <1>5, <1>10
  <1> HIDE DEF b
  <1>13. ASSUME NEW i \in 1 .. n, NEW j \in 1 .. n, b[i] = b[j]
         PROVE  i = j
    <2>1. list[i] \in S /\ list[j] \in S /\ Index(list[i]) = Index(list[j])
      BY <1>10, <1>11, <1>13
    <2>2. list[i] = list[j]
      BY <1>5, <2>1
    <2> QED
      BY <1>10, <2>2
  <1>14. ASSUME NEW k \in LiveOnes(now)
         PROVE  \E i \in 1 .. n : b[i] = k
    <2>1. PICK s \in S : Index(s) = k
      BY <1>5
    <2>2. PICK i \in 1 .. n : list[i] = s
      BY <1>10
    <2> QED
      BY <1>11, <2>1, <2>2
  <1>15. b \in Bijection(1 .. n, LiveOnes(now))
    BY <1>12, <1>13, <1>14 DEF Bijection, Injection, Surjection, IsInjective
  <1>16. LiveWords = [i \in 1 .. n |-> WordOf(b[i])]
    <2>1. DOMAIN list = 1 .. n
      BY <1>8
    <2>2. \A i \in 1 .. n : Kept[list[i]] = heard[b[i]]
      BY <1>5, <1>10, <1>11
    <2>3. \A i \in 1 .. n : Word(Kept[list[i]].strength, 0, Kept[list[i]].oid) = WordOf(b[i])
      BY <2>2 DEF WordOf
    <2> QED
      BY <1>1, <2>1, <2>3
  <1> QED
    BY <1>3, <1>15, <1>16 DEF WordsOf

(* What is about to be published, what is of it, and what was.             *)
Publishing ==
  /\ radio.pc = "take" => Ready(radio.words, Entries(radio.last))
  /\ radio.pc = "publish" => /\ rated = Rating(radio.last)
                             /\ SoFar(sorted, radio.words, Entries(radio.last))
  /\ radio.pc # "publish" => sorted = rated

(* Rating() is about the beacons received and the time of the update.      *)
LEMMA SameBeacons ==
  ASSUME heard' = heard, NEW t, radio'.last = t
  PROVE  Entries(radio.last)' = Entries(t) /\ Rating(radio.last)' = Rating(t)
  <1>1. LiveOnes(radio.last)' = LiveOnes(t)
    BY DEF LiveOnes
  <1>2. Listed(radio.last)' = Listed(t)
    BY <1>1 DEF Listed
  <1>3. \A x, y : Packets(radio.last, x, y)' = Packets(t, x, y)
    BY <1>1 DEF Packets
  <1>4. Entries(radio.last)' = Entries(t)
    BY <1>2, <1>3 DEF Entries
  <1>5. Rating(radio.last)' = Rating(t)
    BY <1>4 DEF Rating, Ordered
  <1> QED
    BY <1>4, <1>5

LEMMA PublishingStep ==
  ASSUME Ring, Types, Exclusive, Copying, Publishing, [Next]_vars
  PROVE  Publishing'
  <1>0. PICK W : radio \in [pc : RadioPc, last : Nat, words : W]
    BY DEF Types
  <1>1. CASE Receive
    <2>1. radio.pc = "receive" /\ UNCHANGED <<radio, sorted, rated>>
      BY <1>1 DEF Receive, table
    <2> QED
      BY <2>1 DEF Publishing
  <1>2. ASSUME heard' = heard
        PROVE  \A t : radio'.last = t =>
                 Entries(radio.last)' = Entries(t) /\ Rating(radio.last)' = Rating(t)
    BY <1>2, SameBeacons
  <1>3. CASE UpdateRating
    <2>1. /\ heard' = heard /\ sorted' = sorted /\ rated' = rated /\ radio.pc = "update"
          /\ radio' = [pc |-> "take", last |-> now, words |-> Rated(LiveWords)]
      BY <1>3 DEF UpdateRating, table
    <2>2. radio'.pc = "take" /\ radio'.last = now /\ radio'.words = Rated(LiveWords)
      BY <2>1
    <2>3. heard \in Seq(Beacon)
      BY DEF Ring
    <2>4. Ready(Rated(LiveWords), Entries(now))
      BY <2>3, LiveWordsAre, RatedReady
    <2>5. Entries(radio.last)' = Entries(now)
      BY <1>2, <2>1, <2>2
    <2> QED
      BY <2>1, <2>2, <2>4, <2>5 DEF Publishing
  <1>4. CASE BeginPublish
    <2>1. /\ heard' = heard /\ sorted' = <<>> /\ rated' = Rating(radio.last) /\ radio.pc = "take"
          /\ radio' = [radio EXCEPT !.pc = "publish"]
      BY <1>4 DEF BeginPublish, beacons
    <2>2. radio'.pc = "publish" /\ radio'.last = radio.last /\ radio'.words = radio.words
      BY <1>0, <2>1
    <2>3. Entries(radio.last)' = Entries(radio.last) /\ Rating(radio.last)' = Rating(radio.last)
      BY <1>2, <2>1, <2>2
    <2>4. SoFar(<<>>, radio.words, Entries(radio.last))
      BY <2>1, SoFarBegins DEF Publishing
    <2> QED
      BY <2>1, <2>2, <2>3, <2>4 DEF Publishing
  <1>5. CASE PublishWord
    <2> DEFINE u == radio.words
    <2>1. /\ heard' = heard /\ rated' = rated /\ radio.pc = "publish" /\ u # <<>>
          /\ sorted' = (IF Head(u) = ZeroWord THEN sorted ELSE Append(sorted, Entry(Head(u))))
          /\ radio' = [radio EXCEPT !.words = Tail(u)]
      BY <1>5 DEF PublishWord, beacons
    <2>2. radio'.pc = "publish" /\ radio'.last = radio.last /\ radio'.words = Tail(u)
      BY <1>0, <2>1
    <2>3. Entries(radio.last)' = Entries(radio.last) /\ Rating(radio.last)' = Rating(radio.last)
      BY <1>2, <2>1, <2>2
    <2>4. SoFar(sorted', Tail(u), Entries(radio.last))
      BY <2>1, SoFarGrows DEF Publishing
    <2>5. rated = Rating(radio.last)
      BY <2>1 DEF Publishing
    <2> QED
      BY <2>1, <2>2, <2>3, <2>4, <2>5 DEF Publishing
  <1>6. CASE EndPublish
    <2>1. /\ sorted' = sorted /\ rated' = rated /\ radio.pc = "publish" /\ radio.words = <<>>
          /\ radio' = [radio EXCEPT !.pc = "receive"]
      BY <1>6 DEF EndPublish
    <2>2. radio'.pc = "receive"
      BY <1>0, <2>1
    <2>3. sorted = rated
      BY <2>1, SoFarEnds DEF Publishing
    <2> QED
      BY <2>1, <2>2, <2>3 DEF Publishing
  <1>7. CASE SendCommand \/ CommandSent \/ NoCommand \/ NotYet \/ GiveUpPublish
    <2>1. radio.pc # "publish" /\ sorted' = sorted /\ rated' = rated
      BY <1>7 DEF SendCommand, CommandSent, NoCommand, NotYet, GiveUpPublish, table
    <2>2. radio'.pc \in {"send", "update", "receive"}
      BY <1>0, <1>7 DEF SendCommand, CommandSent, NoCommand, NotYet, GiveUpPublish
    <2> QED
      BY <2>1, <2>2 DEF Publishing
  <1>8. CASE UNCHANGED <<radio, sorted, rated, heard>>
    <2>1. Entries(radio.last)' = Entries(radio.last) /\ Rating(radio.last)' = Rating(radio.last)
      BY <1>2, <1>8
    <2> QED
      BY <1>8, <2>1 DEF Publishing
  <1>9. CASE ~ RadioTask
    <2>1. UNCHANGED <<radio, sorted, rated, heard>>
      BY <1>9 DEF Next, RatingTask, CommandTask, BeginCopy, CopyEntry, EndCopy, GiveUpCopy,
         Printed, EnterReader, EnterOpcode, EnterData, Tick, vars, beacons, table
    <2> QED
      BY <1>8, <2>1
  <1> QED
    BY <1>1, <1>3, <1>4, <1>5, <1>6, <1>7, <1>9 DEF RadioTask

LEMMA PublishedIs ==
  ASSUME Exclusive, Publishing
  PROVE  Published
  BY DEF Exclusive, Publishing, Published

LEMMA RatingInit ==
  ASSUME Init
  PROVE  Ring /\ Exclusive /\ Copying /\ Publishing
  <1>1. rating \in RatingState({}) /\ rating.pc = "idle" /\ rating.printed = <<>>
        /\ copied = <<>> /\ sorted \in Seq({})
    BY DEF Init, RatingState
  <1>2. radio.pc = "receive" /\ sorted = rated /\ semaphore = "free"
    BY DEF Init
  <1>3. heard = <<>> /\ head = 1 /\ cache = [s \in Slot |-> NoBeacon] /\ Len(heard) = 0
    BY DEF Init
  <1>4. FIFO_DEPTH \in Nat \ {0} /\ Slot = 1 .. FIFO_DEPTH
    BY BeaconRatingAssumption DEF Slot
  <1>5. ASSUME NEW s \in Slot
        PROVE  InSlot(s)
    <2>1. ~ (Index(s) >= 1)
      BY <1>3, <1>4 DEF Index, Age
    <2> QED
      BY <1>3, <2>1 DEF InSlot
  <1>6. heard \in Seq(Beacon) /\ head \in Slot /\ cache \in [Slot -> Beacon \cup {NoBeacon}]
    BY <1>3, <1>4
  <1>7. Ring
    BY <1>5, <1>6 DEF Ring
  <1> QED
    BY <1>1, <1>2, <1>7 DEF Exclusive, Copying, Publishing, RatingState

(* vnRFUpdateRating() 133-210: what is published are the live ones of the  *)
(* last beacons, counted, each tag once and in order, whatever the size of *)
(* the ring; and what vnRFCopyRating() prints is the head of one rating,   *)
(* however the tasks take turns and whoever gives up the semaphore.        *)
THEOREM RatingIsExact ==
  Spec => []RatingExact
  <1>1. Init => Ring /\ Exclusive /\ Copying /\ Publishing
    BY RatingInit
  <1>2. IInv /\ (Ring /\ Exclusive /\ Copying /\ Publishing) /\ [Next]_vars
        => (Ring /\ Exclusive /\ Copying /\ Publishing)'
    BY RingStep, ExclusiveStep, CopyingStep, PublishingStep, PublishedIs DEF IInv
  <1>3. Exclusive /\ Copying /\ Publishing => RatingExact
    BY PublishedIs DEF Published, Copying, RatingExact
  <1> QED
    BY <1>1, <1>2, <1>3, InvariantHolds, PTL DEF Spec
=============================================================================
