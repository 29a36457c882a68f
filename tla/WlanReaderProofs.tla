-------------------------- MODULE WlanReaderProofs --------------------------
(***************************************************************************)
(* Proofs about the radio task of the WLAN reader, for every depth of the  *)
(* chip's FIFO, every size of the transmit ring and any number of frames.  *)
(* The facts about the ring are those of WifiFifoProofs, for this packet   *)
(* set.                                                                    *)
(***************************************************************************)
EXTENDS WlanReader, TLAPS

Uart == INSTANCE WifiFifoProofs WITH Packet <- Envelope \cup {Garbage}

Resting == {"wait", "poll", "announce"}

(* The reader id through a setoid command.                                 *)
IdKept ==
  /\ AckedIdSurvives
  /\ pc \in {"store", "program"} =>
       ackedId = NULL /\ g_Beacon.frame.cmd = "setoid" /\ reader_id = g_Beacon.frame.arg
  /\ pc = "ack" /\ g_Beacon.frame.cmd = "setoid" =>
       flash = reader_id /\ reader_id = g_Beacon.frame.arg

(* A semaphore that is given announces a frame, or one the task has read   *)
(* since; ...                                                              *)
WakeUpMeant == (pc \in Resting /\ sem) \/ pc = "read" => rx # <<>> \/ raced

(* ... and while the task rests a frame can still give it, unless the      *)
(* flag survived a warm reset.  In the clear window the FIFO holds what    *)
(* came in since the drain loop found it empty.                            *)
Wakeable ==
  Burst < RX_DEPTH =>
    /\ pc \in Resting => sem \/ latched \/ (~ rx_dr /\ Len(rx) < RX_DEPTH)
    /\ pc = "clear" => sem \/ latched \/ (~ rx_dr /\ Len(rx) < RX_DEPTH) \/ Len(rx) <= window

(* Frames are numbered as they came in.                                    *)
InOrder ==
  /\ pc = "boot" => readOut = <<>>
  /\ \A k \in DOMAIN readOut : readOut[k] = received - Len(rx) - Len(readOut) + k
  /\ \A k \in DOMAIN rx : rx[k].id = received - Len(rx) + k

IInv == TypeOK /\ Uart!IInv /\ IdKept /\ WakeUpMeant /\ Wakeable /\ InOrder

-----------------------------------------------------------------------------
(* The ring under its two names.                                           *)
LEMMA SameRing ==
  /\ Ring!FifoTypeOK = Uart!FifoTypeOK
  /\ Ring!FifoInit = Uart!FifoInit
  /\ Ring!Poll = Uart!Poll
  /\ Ring!Dma = Uart!Dma
  /\ \A p : Ring!AddPacket(p) = Uart!AddPacket(p)
  <1>1. Ring!FifoTypeOK = Uart!FifoTypeOK
    BY DEF Ring!FifoTypeOK, Uart!FifoTypeOK, Ring!Slot, Uart!Slot, Ring!Idle, Uart!Idle
  <1>2. Ring!FifoInit = Uart!FifoInit
    BY DEF Ring!FifoInit, Uart!FifoInit, Ring!Slot, Uart!Slot, Ring!Idle, Uart!Idle
  <1>3. Ring!Poll = Uart!Poll
    BY DEF Ring!Poll, Uart!Poll, Ring!CheckTxFifo, Uart!CheckTxFifo, Ring!RunLength,
       Uart!RunLength, Ring!Wrap, Uart!Wrap
  <1>4. Ring!Dma = Uart!Dma
    BY DEF Ring!Dma, Uart!Dma, Ring!SendFirstHalf, Uart!SendFirstHalf, Ring!SendSecondHalf,
       Uart!SendSecondHalf, Ring!Idle, Uart!Idle
  <1>5. \A p : Ring!AddPacket(p) = Uart!AddPacket(p)
    BY DEF Ring!AddPacket, Uart!AddPacket, Ring!CheckTxFifo, Uart!CheckTxFifo, Ring!RunLength,
       Uart!RunLength, Ring!Wrap, Uart!Wrap, Ring!Backlog, Uart!Backlog
  <1> QED
    BY <1>1, <1>2, <1>3, <1>4, <1>5

LEMMA UartStarts == Uart!FifoInit => Uart!IInv
  BY WlanReaderAssumption, Uart!InitHolds

LEMMA UartRestarts ==
  ASSUME Ring!FifoRestart
  PROVE  Uart!IInv'
  <1>1. Uart!FifoInit'
    BY DEF Ring!FifoRestart, Uart!FifoInit, Ring!Slot, Uart!Slot, Ring!Idle, Uart!Idle
  <1> QED
    BY <1>1, UartStarts, PTL

LEMMA UartStep ==
  ASSUME TypeOK, Uart!IInv, [Next]_vars
  PROVE  Uart!IInv'
  <1> USE WlanReaderAssumption
  <1>1. CASE UNCHANGED ring
    BY <1>1, Uart!StutterPreserves DEF ring, Uart!fifoVars
  <1>2. CASE \E e \in Envelope \cup {Garbage} : Ring!AddPacket(e)
    BY <1>2, SameRing, Uart!AddPacketPreserves
  <1>3. CASE Ring!Poll
    BY <1>3, SameRing, Uart!PollPreserves
  <1>4. CASE Ring!Dma
    <2>1. Uart!SendFirstHalf \/ Uart!SendSecondHalf
      BY <1>4, SameRing DEF Uart!Dma
    <2> QED
      BY <2>1, Uart!FirstHalfPreserves, Uart!SecondHalfPreserves
  <1>5. CASE Ring!FifoRestart
    BY <1>5, UartRestarts
  <1> QED
    BY <1>1, <1>2, <1>3, <1>4, <1>5
       DEF Next, RadioTask, SendUart, Arrive, Boot, Restart, PowerLoss, Watchdog, Wake, Timeout,
           ReadFrame, Execute, EraseEnv, ProgramEnv, SendAck, AckSent, CheckMore, ClearIRQ,
           PollUart, Announced, vars, ring

-----------------------------------------------------------------------------
LEMMA EnvelopeFields ==
  /\ \A e \in Envelope \cup {Garbage} : e.frame.cmd \in Command /\ e.frame.arg \in ReaderId
  /\ \A e \in Envelope : e.id \in 1 .. MaxFrames
  <1>1. \A f \in Frame : f.cmd \in Command /\ f.arg \in ReaderId
    BY WlanReaderAssumption
  <1>2. \A e \in Envelope : e.frame \in Frame /\ e.id \in 1 .. MaxFrames
    BY DEF Envelope
  <1>3. Garbage.frame.cmd \in Command /\ Garbage.frame.arg \in ReaderId
    BY WlanReaderAssumption DEF Garbage, Command
  <1> QED
    BY <1>1, <1>2, <1>3

(* All of the types that are not the ring's.                               *)
Types ==
  /\ pc \in {"boot", "wait", "read", "command", "store", "program", "ack", "tx", "more",
             "clear", "poll", "announce", "hung"}
  /\ rx \in Seq(Envelope) /\ Len(rx) <= RX_DEPTH
  /\ g_Beacon \in Envelope \cup {Garbage}
  /\ reader_id \in ReaderId /\ flash \in ReaderId \cup {NULL}
  /\ received \in 0 .. MaxFrames /\ readOut \in Seq(1 .. MaxFrames) /\ window \in 0 .. Burst
  /\ ackedId \in ReaderId \cup {NULL}

Flags ==
  /\ rx_dr \in BOOLEAN /\ sem \in BOOLEAN /\ disable_beacon_fowarding_to_uart \in BOOLEAN
  /\ latched \in BOOLEAN /\ raced \in BOOLEAN

LEMMA FlagsStep ==
  ASSUME Flags, [Next]_vars
  PROVE  Flags'
  <1> USE DEF Flags, chip, history
  <1>1. CASE \E f \in Frame : Arrive(f)
    BY <1>1, Zenon DEF Arrive
  <1>2. CASE Boot
    BY <1>2, Zenon DEF Boot
  <1>3. CASE PowerLoss
    BY <1>3, Zenon DEF PowerLoss, Restart
  <1>4. CASE Watchdog
    BY <1>4, Zenon DEF Watchdog, Restart
  <1>5. CASE Wake \/ Timeout
    BY <1>5, Zenon DEF Wake, Timeout
  <1>6. CASE \E e \in Envelope \cup {Garbage} : ReadFrame(e)
    BY <1>6, Zenon DEF ReadFrame
  <1>7. CASE Execute
    BY <1>7, Zenon DEF Execute
  <1>8. CASE EraseEnv \/ ProgramEnv \/ SendAck \/ AckSent \/ CheckMore
    BY <1>8, Zenon DEF EraseEnv, ProgramEnv, SendAck, AckSent, CheckMore
  <1>9. CASE ClearIRQ
    BY <1>9, Zenon DEF ClearIRQ
  <1>10. CASE PollUart \/ Announced \/ SendUart
    BY <1>10, Zenon DEF PollUart, Announced, SendUart
  <1>11. CASE UNCHANGED vars
    BY <1>11, Zenon DEF vars
  <1> QED
    BY <1>1, <1>2, <1>3, <1>4, <1>5, <1>6, <1>7, <1>8, <1>9, <1>10, <1>11, Zenon
       DEF Next, RadioTask

LEMMA TypesStep ==
  ASSUME Types, [Next]_vars
  PROVE  Types'
  <1> USE WlanReaderAssumption DEF Types, chip, config, history
  <1>1. CASE \E f \in Frame : Arrive(f)
    <2>1. PICK f \in Frame : Arrive(f)
      BY <1>1
    <2>2. [id |-> received + 1, frame |-> f] \in Envelope
      BY SMTT(30), <2>1 DEF Arrive, Envelope
    <2>3. rx' \in Seq(Envelope) /\ Len(rx') = Len(rx) + 1 /\ Len(rx) \in Nat
      BY <2>1, <2>2 DEF Arrive
    <2>4. Len(rx') <= RX_DEPTH /\ received' \in 0 .. MaxFrames /\ window' \in 0 .. Burst
      BY <2>1, <2>3 DEF Arrive
    <2> QED
      BY <2>1, <2>3, <2>4 DEF Arrive
  <1>2. CASE Boot
    BY <1>2 DEF Boot
  <1>3. CASE PowerLoss
    BY <1>3 DEF PowerLoss, Restart
  <1>4. CASE Watchdog
    BY <1>4 DEF Watchdog, Restart
  <1>5. CASE Wake \/ Timeout
    BY <1>5 DEF Wake, Timeout
  <1>6. CASE \E e \in Envelope \cup {Garbage} : ReadFrame(e)
    <2>1. PICK e \in Envelope \cup {Garbage} : ReadFrame(e)
      BY <1>6
    <2>2. CASE rx = <<>>
      BY <2>1, <2>2 DEF ReadFrame
    <2>3. CASE rx # <<>>
      <3>1. Head(rx) \in Envelope /\ Tail(rx) \in Seq(Envelope) /\ Len(Tail(rx)) = Len(rx) - 1
            /\ Len(rx) \in Nat
        BY <2>3
      <3>2. e = Head(rx) /\ e.id \in 1 .. MaxFrames
        BY <2>1, <2>3, <3>1, EnvelopeFields DEF ReadFrame
      <3>3. rx' \in Seq(Envelope) /\ Len(rx') <= RX_DEPTH /\ readOut' \in Seq(1 .. MaxFrames)
        BY <2>1, <2>3, <3>1, <3>2 DEF ReadFrame
      <3> QED
        BY <2>1, <3>3 DEF ReadFrame
    <2> QED
      BY <2>2, <2>3
  <1>7. CASE Execute
    <2>1. g_Beacon.frame.arg \in ReaderId
      BY EnvelopeFields
    <2>2. pc' \in {"hung", "store", "ack"}
      BY <1>7 DEF Execute
    <2> QED
      BY <1>7, <2>1, <2>2 DEF Execute
  <1>8. CASE EraseEnv \/ ProgramEnv \/ AckSent \/ CheckMore
    BY <1>8 DEF EraseEnv, ProgramEnv, AckSent, CheckMore
  <1>9. CASE SendAck
    BY <1>9, EnvelopeFields DEF SendAck
  <1>10. CASE ClearIRQ \/ PollUart \/ Announced \/ SendUart
    BY <1>10 DEF ClearIRQ, PollUart, Announced, SendUart
  <1>11. CASE UNCHANGED vars
    BY <1>11 DEF vars
  <1> QED
    BY <1>1, <1>2, <1>3, <1>4, <1>5, <1>6, <1>7, <1>8, <1>9, <1>10, <1>11 DEF Next, RadioTask

-----------------------------------------------------------------------------
(* The acknowledged id: only the four steps of the setoid command, the     *)
(* boot and the resets touch what IdKept is about.                         *)
LEMMA IdStep ==
  ASSUME Types, IdKept, [Next]_vars
  PROVE  IdKept'
  <1> USE WlanReaderAssumption DEF Types, IdKept, AckedIdSurvives, chip, config, history
  <1>1. CASE \E f \in Frame : Arrive(f)
    BY <1>1 DEF Arrive
  <1>2. CASE Boot
    BY <1>2 DEF Boot
  <1>3. CASE PowerLoss \/ Watchdog
    BY <1>3 DEF PowerLoss, Watchdog, Restart
  <1>4. CASE Wake \/ Timeout
    BY <1>4 DEF Wake, Timeout
  <1>5. CASE \E e \in Envelope \cup {Garbage} : ReadFrame(e)
    BY <1>5 DEF ReadFrame
  <1>6. CASE Execute
    BY <1>6 DEF Execute
  <1>7. CASE EraseEnv \/ ProgramEnv
    BY <1>7 DEF EraseEnv, ProgramEnv
  <1>8. CASE SendAck \/ AckSent
    BY <1>8 DEF SendAck, AckSent
  <1>9. CASE CheckMore \/ ClearIRQ
    BY <1>9 DEF CheckMore, ClearIRQ
  <1>10. CASE PollUart \/ Announced \/ SendUart
    BY <1>10 DEF PollUart, Announced, SendUart
  <1>11. CASE UNCHANGED vars
    BY <1>11 DEF vars
  <1> QED
    BY <1>1, <1>2, <1>3, <1>4, <1>5, <1>6, <1>7, <1>8, <1>9, <1>10, <1>11 DEF Next, RadioTask

(* The semaphore: a frame that gives it is in the FIFO, and the race at    *)
(* ClearIRQ is remembered until the next one.                              *)
LEMMA WakeUpStep ==
  ASSUME Types, WakeUpMeant, [Next]_vars
  PROVE  WakeUpMeant'
  <1> USE DEF Types, WakeUpMeant, Resting, chip, config, history
  <1>1. CASE \E f \in Frame : Arrive(f)
    <2>1. PICK f \in Frame : Arrive(f)
      BY <1>1
    <2>2. rx' = Append(rx, [id |-> received + 1, frame |-> f])
      BY <2>1 DEF Arrive
    <2>3. rx' # <<>>
      BY <2>2
    <2> QED
      BY <2>3
  <1>2. CASE Boot
    BY <1>2 DEF Boot
  <1>3. CASE PowerLoss \/ Watchdog
    BY <1>3 DEF PowerLoss, Watchdog, Restart
  <1>4. CASE Wake \/ Timeout
    BY <1>4 DEF Wake, Timeout
  <1>5. CASE \E e \in Envelope \cup {Garbage} : ReadFrame(e)
    BY <1>5 DEF ReadFrame
  <1>6. CASE Execute
    BY <1>6 DEF Execute
  <1>7. CASE EraseEnv \/ ProgramEnv \/ SendAck \/ AckSent
    BY <1>7 DEF EraseEnv, ProgramEnv, SendAck, AckSent
  <1>8. CASE CheckMore
    BY <1>8 DEF CheckMore
  <1>9. CASE ClearIRQ
    BY <1>9 DEF ClearIRQ
  <1>10. CASE PollUart \/ Announced \/ SendUart
    BY <1>10 DEF PollUart, Announced, SendUart
  <1>11. CASE UNCHANGED vars
    BY <1>11 DEF vars
  <1> QED
    BY <1>1, <1>2, <1>3, <1>4, <1>5, <1>6, <1>7, <1>8, <1>9, <1>10, <1>11 DEF Next, RadioTask

(* The flag: a frame that arrives with the flag clear gives the semaphore; *)
(* ClearIRQ withdraws the flag of a FIFO that holds no more than came in   *)
(* since the drain loop left it empty.                                     *)
LEMMA WakeableStep ==
  ASSUME Types, Flags, Wakeable, [Next]_vars
  PROVE  Wakeable'
  <1> USE WlanReaderAssumption DEF Types, Flags, Wakeable, Resting, chip, config, history
  <1>0. Len(rx) \in Nat
    OBVIOUS
  <1>1. CASE \E f \in Frame : Arrive(f)
    <2>1. PICK f \in Frame : Arrive(f)
      BY <1>1
    <2>2. [id |-> received + 1, frame |-> f] \in Envelope
      BY SMTT(30), <2>1 DEF Arrive, Envelope
    <2>3. Len(rx') = Len(rx) + 1
      BY <2>1, <2>2 DEF Arrive
    <2>4. sem \/ ~ rx_dr => sem'
      BY <2>1, Zenon DEF Arrive
    <2>5. pc' = pc /\ latched' = latched /\ (pc = "clear" => window' = window + 1)
      BY <2>1 DEF Arrive
    <2> QED
      BY <1>0, <2>3, <2>4, <2>5
  <1>2. CASE Boot
    <2>1. rx' = <<>> /\ latched' = rx_dr /\ rx_dr' = rx_dr /\ pc' = "wait"
      BY <1>2 DEF Boot
    <2>2. Len(rx') = 0
      BY <2>1
    <2> QED
      BY <2>1, <2>2
  <1>3. CASE PowerLoss \/ Watchdog
    BY <1>3 DEF PowerLoss, Watchdog, Restart
  <1>4. CASE Wake
    BY <1>4 DEF Wake
  <1>5. CASE Timeout
    <2>1. Burst < RX_DEPTH => latched \/ (~ rx_dr /\ Len(rx) < RX_DEPTH)
      BY <1>5 DEF Timeout
    <2> QED
      BY <1>5, <2>1 DEF Timeout
  <1>6. CASE \E e \in Envelope \cup {Garbage} : ReadFrame(e)
    BY <1>6 DEF ReadFrame
  <1>7. CASE Execute
    BY <1>7 DEF Execute
  <1>8. CASE EraseEnv \/ ProgramEnv \/ SendAck \/ AckSent
    BY <1>8 DEF EraseEnv, ProgramEnv, SendAck, AckSent
  <1>9. CASE CheckMore
    BY <1>9 DEF CheckMore
  <1>10. CASE ClearIRQ
    BY <1>0, <1>10 DEF ClearIRQ
  <1>11. CASE PollUart \/ Announced
    BY <1>11 DEF PollUart, Announced
  <1>12. CASE SendUart \/ UNCHANGED vars
    BY <1>12 DEF SendUart, vars
  <1> QED
    BY <1>1, <1>2, <1>3, <1>4, <1>5, <1>6, <1>7, <1>8, <1>9, <1>10, <1>11, <1>12
       DEF Next, RadioTask

-----------------------------------------------------------------------------
(* The order of the frames: an arriving frame gets the next number, the    *)
(* task takes the oldest one, and a reset empties the FIFO and the record  *)
(* of what was read, or the record alone.                                  *)
LEMMA OrderStep ==
  ASSUME Types, InOrder, [Next]_vars
  PROVE  InOrder'
  <1> USE WlanReaderAssumption DEF Types, InOrder, chip, config, history
  <1>0. /\ Len(rx) \in Nat /\ DOMAIN rx = 1 .. Len(rx) /\ received \in Nat
        /\ Len(readOut) \in Nat /\ DOMAIN readOut = 1 .. Len(readOut)
    OBVIOUS
  <1>1. CASE \E f \in Frame : Arrive(f)
    <2>1. PICK f \in Frame : Arrive(f)
      BY <1>1
    <2> DEFINE e == [id |-> received + 1, frame |-> f]
    <2>2. e \in Envelope /\ e.id = received + 1
      BY SMTT(30), <2>1 DEF Arrive, Envelope
    <2>3. rx' = Append(rx, e) /\ received' = received + 1 /\ readOut' = readOut /\ pc' = pc
      BY <2>1 DEF Arrive
    <2> HIDE DEF e
    <2>4. /\ Len(rx') = Len(rx) + 1 /\ DOMAIN rx' = 1 .. Len(rx) + 1
          /\ \A k \in DOMAIN rx : rx'[k] = rx[k]
          /\ rx'[Len(rx) + 1] = e
      BY <2>2, <2>3
    <2>5. \A k \in DOMAIN rx' : rx'[k].id = received' - Len(rx') + k
      <3> SUFFICES ASSUME NEW k \in 1 .. Len(rx) + 1
                   PROVE  rx'[k].id = received' - Len(rx') + k
        BY <2>4
      <3>1. CASE k = Len(rx) + 1
        BY <3>1, <2>2, <2>3, <2>4, <1>0
      <3>2. CASE k # Len(rx) + 1
        <4>1. k \in DOMAIN rx
          BY <3>2, <1>0
        <4> QED
          BY <4>1, <2>3, <2>4, <1>0
      <3> QED
        BY <3>1, <3>2
    <2>6. received' - Len(rx') = received - Len(rx)
      BY <2>3, <2>4, <1>0
    <2>7. \A k \in DOMAIN readOut' :
            readOut'[k] = received' - Len(rx') - Len(readOut') + k
      BY <2>3, <2>6, <1>0
    <2> QED
      BY <2>3, <2>5, <2>7
  <1>2. CASE Boot
    BY <1>2 DEF Boot
  <1>3. CASE PowerLoss
    BY <1>3 DEF PowerLoss, Restart
  <1>4. CASE Watchdog
    BY <1>4 DEF Watchdog, Restart
  <1>5. CASE \E e \in Envelope \cup {Garbage} : ReadFrame(e)
    <2>1. PICK e \in Envelope \cup {Garbage} : ReadFrame(e)
      BY <1>5
    <2>2. pc' # "boot" /\ received' = received
      BY <2>1 DEF ReadFrame
    <2>3. CASE rx = <<>>
      <3>1. rx' = rx /\ readOut' = readOut
        BY <2>1, <2>3 DEF ReadFrame
      <3> QED
        BY <3>1, <2>2
    <2>4. CASE rx # <<>>
      <3>1. e = Head(rx) /\ rx' = Tail(rx) /\ readOut' = Append(readOut, e.id)
        BY <2>1, <2>4 DEF ReadFrame
      <3>2. /\ Len(rx) >= 1 /\ rx[1] = e
            /\ Len(rx') = Len(rx) - 1 /\ DOMAIN rx' = 1 .. Len(rx) - 1
            /\ \A k \in DOMAIN rx' : rx'[k] = rx[k + 1]
        BY <3>1, <2>4, <1>0
      <3>3. e.id = received - Len(rx) + 1 /\ e.id \in 1 .. MaxFrames
        <4>1. 1 \in DOMAIN rx /\ rx[1] \in Envelope
          BY <3>2, <1>0
        <4> QED
          BY <3>2, <4>1, EnvelopeFields
      <3> DEFINE n == e.id
      <3>4. readOut' = Append(readOut, n) /\ n \in 1 .. MaxFrames
        BY <3>1, <3>3
      <3> HIDE DEF n
      <3>5. /\ Len(readOut') = Len(readOut) + 1 /\ DOMAIN readOut' = 1 .. Len(readOut) + 1
            /\ \A k \in DOMAIN readOut : readOut'[k] = readOut[k]
            /\ readOut'[Len(readOut) + 1] = n
        BY <3>4, <1>0
      <3>6. \A k \in DOMAIN rx' : rx'[k].id = received' - Len(rx') + k
        <4> SUFFICES ASSUME NEW k \in 1 .. Len(rx) - 1
                     PROVE  rx'[k].id = received' - Len(rx') + k
          BY <3>2
        <4>1. k + 1 \in DOMAIN rx
          BY <1>0
        <4>2. rx'[k] = rx[k + 1]
          BY <3>2, Zenon
        <4>3. \A j \in DOMAIN rx : rx[j].id = received - Len(rx) + j
          BY Zenon
        <4> DEFINE m == Len(rx)
        <4>4. m \in Nat /\ received \in Nat /\ Len(rx') = m - 1 /\ received' = received
          BY <3>2, <2>2, <1>0
        <4>5. rx'[k].id = received - m + (k + 1)
          BY <4>1, <4>2, <4>3, Zenon
        <4> HIDE DEF m
        <4> QED
          BY <4>4, <4>5
      <3>7. \A k \in DOMAIN readOut' :
              readOut'[k] = received' - Len(rx') - Len(readOut') + k
        <4> SUFFICES ASSUME NEW k \in 1 .. Len(readOut) + 1
                     PROVE  readOut'[k] = received' - Len(rx') - Len(readOut') + k
          BY <3>5
        <4>1. CASE k = Len(readOut) + 1
          <5>1. readOut'[k] = received - Len(rx) + 1
            BY <4>1, <3>3, <3>5 DEF n
          <5> QED
            BY <5>1, <4>1, <3>2, <3>5, <2>2, <1>0
        <4>2. CASE k # Len(readOut) + 1
          <5>1. k \in DOMAIN readOut
            BY <4>2, <1>0
          <5>2. readOut'[k] = received - Len(rx) - Len(readOut) + k
            BY <5>1, <3>5
          <5> QED
            BY <5>2, <3>2, <3>5, <2>2, <1>0
        <4> QED
          BY <4>1, <4>2
      <3> QED
        BY <3>6, <3>7, <2>2
    <2> QED
      BY <2>3, <2>4
  <1>6. CASE Execute
    BY <1>6 DEF Execute
  <1>7. CASE Wake \/ Timeout \/ EraseEnv \/ ProgramEnv \/ SendAck \/ AckSent
    BY <1>7 DEF Wake, Timeout, EraseEnv, ProgramEnv, SendAck, AckSent
  <1>8. CASE CheckMore \/ ClearIRQ \/ PollUart \/ Announced \/ SendUart
    BY <1>8 DEF CheckMore, ClearIRQ, PollUart, Announced, SendUart
  <1>9. CASE UNCHANGED vars
    BY <1>9 DEF vars
  <1> QED
    BY <1>1, <1>2, <1>3, <1>4, <1>5, <1>6, <1>7, <1>8, <1>9 DEF Next, RadioTask

-----------------------------------------------------------------------------
LEMMA TypeParts ==
  ASSUME Uart!IInv
  PROVE  TypeOK <=> Types /\ Flags
  <1>1. Ring!FifoTypeOK
    BY SameRing DEF Uart!IInv
  <1> QED
    BY <1>1, Zenon DEF TypeOK, Types, Flags

LEMMA Starts == Init => IInv
  <1> SUFFICES ASSUME Init PROVE IInv
    OBVIOUS
  <1> USE WlanReaderAssumption
  <1>1. Uart!IInv
    BY SameRing, UartStarts DEF Init
  <1>2. Flags
    BY Zenon DEF Init, Flags
  <1>3. Types
    BY DEF Init, Types
  <1>4. IdKept /\ WakeUpMeant /\ Wakeable /\ InOrder
    BY DEF Init, IdKept, AckedIdSurvives, WakeUpMeant, Wakeable, Resting, InOrder
  <1> QED
    BY <1>1, <1>2, <1>3, <1>4, TypeParts DEF IInv

LEMMA IInvStep ==
  ASSUME IInv, [Next]_vars
  PROVE  IInv'
  <1>1. Types /\ Flags /\ Uart!IInv
    BY TypeParts DEF IInv
  <1>2. Types' /\ Flags'
    BY <1>1, TypesStep, FlagsStep
  <1>3. Uart!IInv'
    BY UartStep DEF IInv
  <1>4. TypeOK'
    BY <1>2, <1>3, TypeParts, PTL
  <1>5. IdKept' /\ WakeUpMeant' /\ Wakeable' /\ InOrder'
    BY <1>1, IdStep, WakeUpStep, WakeableStep, OrderStep DEF IInv
  <1> QED
    BY <1>3, <1>4, <1>5 DEF IInv

(* The radio task, the chip and the UART keep the inductive invariant.     *)
THEOREM InvariantHolds == Spec => []IInv
  <1>1. IInv /\ [Next]_vars => IInv'
    BY IInvStep
  <1> QED
    BY Starts, <1>1, PTL DEF Spec

(* Types, at every size.                                                   *)
THEOREM TypeCorrect == Spec => []TypeOK
  <1>1. IInv => TypeOK
    BY DEF IInv
  <1> QED
    BY <1>1, InvariantHolds, PTL

(* A reader that acknowledged a new id keeps it over every reset and power *)
(* loss: env_store() has programmed the page before the acknowledgement    *)
(* goes out, and it is erased only after the next setoid was taken.        *)
THEOREM IdOutlivesResets == Spec => []AckedIdSurvives
  <1>1. IInv => AckedIdSurvives
    BY DEF IInv, IdKept
  <1> QED
    BY <1>1, InvariantHolds, PTL

(* If the chip's FIFO is deeper than what arrives between the FIFO_STATUS  *)
(* read and ClearIRQ, the reader goes deaf only after a warm reset that    *)
(* found RX_DR set.                                                        *)
THEOREM OnlyWarmResetDeafens ==
  ASSUME Burst < RX_DEPTH
  PROVE  Spec => []DeafCauses
  <1>1. IInv => DeafCauses
    BY DEF IInv, Wakeable, Resting, DeafCauses, Deaf
  <1> QED
    BY <1>1, InvariantHolds, PTL

(* The task reads an empty FIFO only if ClearIRQ ran between the arrival   *)
(* of a frame and its wake-up.                                             *)
THEOREM EmptyReadsHaveCauses == Spec => []EmptyReadOnlyAfterRace
  <1>1. IInv => EmptyReadOnlyAfterRace
    BY DEF IInv, WakeUpMeant, EmptyReadOnlyAfterRace
  <1> QED
    BY <1>1, InvariantHolds, PTL

LEMMA Concatenated ==
  ASSUME NEW S, NEW s \in Seq(S), NEW t \in Seq(S)
  PROVE  /\ Len(s \o t) = Len(s) + Len(t)
         /\ DOMAIN (s \o t) = 1 .. Len(s) + Len(t)
         /\ \A k \in 1 .. Len(s) + Len(t) :
              (s \o t)[k] = IF k <= Len(s) THEN s[k] ELSE t[k - Len(s)]
  OBVIOUS

(* What the task read since boot and what the chip still holds are all the *)
(* frames since the first one, in order and once.                          *)
THEOREM FramesInOrder == Spec => []NoFrameSkipped
  <1>1. IInv => NoFrameSkipped
    <2> SUFFICES ASSUME IInv, NEW k \in DOMAIN Taken
                 PROVE  Taken[k] = received - Len(Taken) + k
      BY DEF NoFrameSkipped
    <2> DEFINE ids == [i \in DOMAIN rx |-> rx[i].id]
    <2>1. /\ rx \in Seq(Envelope) /\ readOut \in Seq(1 .. MaxFrames) /\ received \in Nat
          /\ Len(rx) \in Nat /\ DOMAIN rx = 1 .. Len(rx)
          /\ Len(readOut) \in Nat /\ DOMAIN readOut = 1 .. Len(readOut)
      BY WlanReaderAssumption DEF IInv, TypeOK
    <2>2. ids \in Seq(1 .. MaxFrames) /\ Len(ids) = Len(rx)
      BY <2>1, EnvelopeFields
    <2>3. Taken = readOut \o ids
      BY DEF Taken
    <2>4. \A i \in 1 .. Len(rx) : ids[i] = received - Len(rx) + i
      BY <2>1 DEF IInv, InOrder
    <2>5. \A i \in 1 .. Len(readOut) : readOut[i] = received - Len(rx) - Len(readOut) + i
      BY <2>1 DEF IInv, InOrder
    <2> HIDE DEF ids
    <2>6. /\ Len(readOut \o ids) = Len(readOut) + Len(rx)
          /\ DOMAIN (readOut \o ids) = 1 .. Len(readOut) + Len(rx)
          /\ \A i \in 1 .. Len(readOut) + Len(rx) :
               (readOut \o ids)[i] = IF i <= Len(readOut) THEN readOut[i]
                                     ELSE ids[i - Len(readOut)]
      <3>1. /\ Len(readOut \o ids) = Len(readOut) + Len(ids)
            /\ DOMAIN (readOut \o ids) = 1 .. Len(readOut) + Len(ids)
            /\ \A i \in 1 .. Len(readOut) + Len(ids) :
                 (readOut \o ids)[i] = IF i <= Len(readOut) THEN readOut[i]
                                       ELSE ids[i - Len(readOut)]
        BY <2>1, <2>2, Concatenated, Zenon
      <3> QED
        BY <3>1, <2>2
    <2>7. /\ Len(Taken) = Len(readOut) + Len(rx)
          /\ k \in 1 .. Len(readOut) + Len(rx)
          /\ Taken[k] = IF k <= Len(readOut) THEN readOut[k] ELSE ids[k - Len(readOut)]
      <3>1. k \in DOMAIN (readOut \o ids)
        BY <2>3
      <3> QED
        BY <2>3, <2>6, <3>1
    <2>8. CASE k <= Len(readOut)
      BY <2>1, <2>5, <2>7, <2>8
    <2>9. CASE k > Len(readOut)
      <3>1. k - Len(readOut) \in 1 .. Len(rx)
        BY <2>1, <2>7, <2>9
      <3> QED
        BY <2>1, <2>4, <2>7, <2>9, <3>1
    <2> QED
      BY <2>1, <2>7, <2>8, <2>9
  <1> QED
    BY <1>1, InvariantHolds, PTL

(* The UART under the radio task, whatever the frames, the commands and    *)
(* the resets are: the stream stays aligned, and whole and in order as     *)
(* long as no backlog reaches around to the run that is being sent.        *)
THEOREM ForwardedInOrder == Spec => [](Ring!CountsAgree /\ Ring!WholeAndInOrder)
  <1>1. IInv => Ring!CountsAgree /\ Ring!WholeAndInOrder
    <2> SUFFICES ASSUME IInv PROVE Ring!CountsAgree /\ Ring!WholeAndInOrder
      OBVIOUS
    <2>1. Uart!IInv
      BY DEF IInv
    <2>2. Ring!CountsAgree
      BY <2>1 DEF Uart!IInv, Uart!Counted, Ring!CountsAgree, Ring!Waiting, Uart!Backlog,
                  Ring!Backlog
    <2>3. Ring!WholeAndInOrder
      BY <2>1 DEF Uart!IInv, Uart!Carried, Ring!WholeAndInOrder, Ring!Waiting, Uart!Backlog,
                  Ring!Backlog, Uart!Wrap, Ring!Wrap
    <2> QED
      BY <2>2, <2>3
  <1> QED
    BY <1>1, InvariantHolds, PTL
=============================================================================
