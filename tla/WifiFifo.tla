------------------------------ MODULE WifiFifo ------------------------------
(***************************************************************************)
(* The transmit ring of the WLAN reader                                    *)
(* (firmware/at91sam7/openbeacon-wlan/application/wifi.c): the radio task  *)
(* puts every envelope it receives into wifi_fifo and hands contiguous     *)
(* runs of it to the DMA channel of the UART.  wifi_fifo_tail moves on     *)
(* when a run is handed over, not when it has been sent, so the slots the  *)
(* DMA is still reading count as free.                                     *)
(*                                                                         *)
(* The DMA channel (external: AT91SAM7 PDC) sends an envelope in two       *)
(* halves, so that a slot which is overwritten in between shows.           *)
(***************************************************************************)
EXTENDS Integers, Sequences

CONSTANTS
  WIFI_FIFO_SIZE,       \* slots of the ring (256)
  MAX_RUN,              \* envelopes in one DMA run, MAX_WIFI_PACKET_SIZE / 16 (64)
  Packet,               \* envelopes
  NULL

ASSUME WifiFifoAssumption ==
  /\ WIFI_FIFO_SIZE \in Nat /\ WIFI_FIFO_SIZE >= 2
  /\ MAX_RUN \in Nat \ {0}
  /\ NULL \notin Packet

Slot == 0 .. WIFI_FIFO_SIZE - 1

VARIABLES
  wifi_fifo, wifi_fifo_head, wifi_fifo_tail,
  dma,        \* PDC_TPR and PDC_TCR in slots, and the half envelope already sent
  uart,       \* history: what left the UART, as <<first half, second half>>
  accepted,   \* history: the envelopes entered into the ring
  peak        \* history: the longest backlog an envelope was ever added to

fifoVars == <<wifi_fifo, wifi_fifo_head, wifi_fifo_tail, dma, uart, accepted, peak>>

Idle == [pos |-> 0, left |-> 0, half |-> NULL]

FifoTypeOK ==
  /\ wifi_fifo \in [Slot -> Packet \cup {NULL}]
  /\ wifi_fifo_head \in Slot /\ wifi_fifo_tail \in Slot
  /\ dma \in [pos : 0 .. WIFI_FIFO_SIZE, left : 0 .. MAX_RUN, half : Packet \cup {NULL}]
  /\ dma.pos + dma.left <= WIFI_FIFO_SIZE
  /\ dma.left = 0 => dma = Idle
  /\ uart \in Seq((Packet \cup {NULL}) \X (Packet \cup {NULL})) /\ accepted \in Seq(Packet)
  /\ peak \in Nat

(* The ring and the DMA channel after reset (the ring is zeroed memory). *)
FifoInit ==
  /\ wifi_fifo = [s \in Slot |-> NULL] /\ wifi_fifo_head = 0 /\ wifi_fifo_tail = 0
  /\ dma = Idle
  /\ uart = <<>> /\ accepted = <<>> /\ peak = 0

FifoRestart ==
  /\ wifi_fifo' = [s \in Slot |-> NULL] /\ wifi_fifo_head' = 0 /\ wifi_fifo_tail' = 0
  /\ dma' = Idle
  /\ uart' = <<>> /\ accepted' = <<>> /\ peak' = 0

(* The slot at position pos, counted on past the end of the ring. *)
Wrap(pos) == IF pos >= WIFI_FIFO_SIZE THEN pos - WIFI_FIFO_SIZE ELSE pos

(* Envelopes from slot t up to the slot before h. *)
Backlog(h, t) == IF h >= t THEN h - t ELSE h - t + WIFI_FIFO_SIZE

(* Bug variant: a run goes on past the end of the ring. *)
RunLengthAcrossEnd(h, t) ==
  IF Backlog(h, t) <= MAX_RUN THEN Backlog(h, t) ELSE MAX_RUN

(* The run from t: contiguous slots, at most MAX_RUN, ends at the last slot. *)
RunLength(h, t) ==
  LET contiguous == IF h >= t THEN h - t ELSE WIFI_FIFO_SIZE - t
  IN IF contiguous <= MAX_RUN THEN contiguous ELSE MAX_RUN

(* Bug variant: the test whether the DMA channel is busy is missing. *)
CheckTxFifoBusy(h) ==
  LET count == RunLength(h, wifi_fifo_tail)
  IN IF count = 0
     THEN UNCHANGED <<dma, wifi_fifo_tail>>
     ELSE /\ dma' = [pos |-> wifi_fifo_tail, left |-> count, half |-> NULL]
          /\ wifi_fifo_tail' = Wrap(wifi_fifo_tail + count)

(* wifi_uart_check_tx_fifo(), with h the value of wifi_fifo_head: hand the *)
(* next run over unless the DMA channel is busy or nothing waits.          *)
CheckTxFifo(h) ==
  LET count == RunLength(h, wifi_fifo_tail)
  IN IF dma.left # 0 \/ count = 0
     THEN UNCHANGED <<dma, wifi_fifo_tail>>
     ELSE /\ dma' = [pos |-> wifi_fifo_tail, left |-> count, half |-> NULL]
          /\ wifi_fifo_tail' = Wrap(wifi_fifo_tail + count)

(* Bug variant: the test for a full ring is missing. *)
AddPacketUnchecked(p) ==
  LET pos  == Wrap(wifi_fifo_head + 1)
      wait == Backlog(wifi_fifo_head, wifi_fifo_tail)
  IN /\ wifi_fifo' = [wifi_fifo EXCEPT ![wifi_fifo_head] = p]
     /\ wifi_fifo_head' = pos
     /\ accepted' = Append(accepted, p)
     /\ peak' = IF wait > peak THEN wait ELSE peak
     /\ CheckTxFifo(wifi_fifo_head')
     /\ UNCHANGED uart

(* wifi_add_packet_to_fifo(), one critical section: enter the envelope if  *)
(* a slot is free, drop it silently otherwise, and look at the DMA channel.*)
AddPacket(p) ==
  LET pos  == Wrap(wifi_fifo_head + 1)
      room == pos # wifi_fifo_tail
      wait == Backlog(wifi_fifo_head, wifi_fifo_tail)
  IN /\ wifi_fifo' = IF room THEN [wifi_fifo EXCEPT ![wifi_fifo_head] = p] ELSE wifi_fifo
     /\ wifi_fifo_head' = IF room THEN pos ELSE wifi_fifo_head
     /\ accepted' = IF room THEN Append(accepted, p) ELSE accepted
     /\ peak' = IF room /\ wait > peak THEN wait ELSE peak
     /\ CheckTxFifo(wifi_fifo_head')
     /\ UNCHANGED uart

(* Bug variant: the radio task never looks at the DMA channel by itself. *)
PollNothing == UNCHANGED fifoVars

(* The poll at the end of every pass of the radio task. *)
Poll ==
  /\ CheckTxFifo(wifi_fifo_head)
  /\ UNCHANGED <<wifi_fifo, wifi_fifo_head, uart, accepted, peak>>

(* The UART takes the next half envelope out of memory. *)
SendFirstHalf ==
  /\ dma.left > 0 /\ dma.half = NULL
  /\ dma' = [dma EXCEPT !.half = wifi_fifo[dma.pos]]
  /\ UNCHANGED <<wifi_fifo, wifi_fifo_head, wifi_fifo_tail, uart, accepted, peak>>

SendSecondHalf ==
  /\ dma.left > 0 /\ dma.half # NULL
  /\ uart' = Append(uart, <<dma.half, wifi_fifo[dma.pos]>>)
  /\ dma' = IF dma.left = 1 THEN Idle
            ELSE [pos |-> dma.pos + 1, left |-> dma.left - 1, half |-> NULL]
  /\ UNCHANGED <<wifi_fifo, wifi_fifo_head, wifi_fifo_tail, accepted, peak>>

Dma == SendFirstHalf \/ SendSecondHalf

Next == (\E p \in Packet : AddPacket(p)) \/ Poll \/ Dma

Spec == FifoInit /\ [][Next]_fifoVars

(* The UART is clocked by hardware and the radio task polls in every pass. *)
FifoFairness == WF_fifoVars(Poll) /\ WF_fifoVars(Dma)

-----------------------------------------------------------------------------
Waiting == Backlog(wifi_fifo_head, wifi_fifo_tail)

(* The UART carries the accepted envelopes, whole, once and in the order   *)
(* they were received, and the ring holds the rest of them - as long as no *)
(* envelope was added to a backlog that reaches around to the slots of a   *)
(* run that is being sent (wifi.c:62-97, 339-357).                         *)
WholeAndInOrder ==
  peak + MAX_RUN < WIFI_FIFO_SIZE =>
    /\ \A k \in 1 .. Len(uart) : uart[k] = <<accepted[k], accepted[k]>>
    /\ \A k \in 1 .. dma.left :
         wifi_fifo[dma.pos + k - 1] = accepted[Len(uart) + k]
    /\ \A k \in 1 .. Waiting :
         wifi_fifo[Wrap(wifi_fifo_tail + k - 1)] = accepted[Len(uart) + dma.left + k]
    /\ dma.half \in {NULL, wifi_fifo[dma.pos]}

(* Beyond that point envelopes may be torn or replaced by later ones, but  *)
(* the UART never carries more envelopes than were accepted: the stream    *)
(* stays aligned.                                                          *)
CountsAgree == Len(accepted) = Len(uart) + dma.left + Waiting

(* To the radio task the ring and the DMA channel are one queue: of the    *)
(* slots that wait and a run that is being sent, though it counts as free. *)
(* It is exact up to a reserve of one run, and beyond that sends halves of *)
(* envelopes at least, never the memory of a slot that was not written.    *)
Pending == SubSeq(accepted, Len(uart) + 1, Len(accepted))

Queue == INSTANCE LossyFifo WITH
  Item     <- Packet,
  CAPACITY <- WIFI_FIFO_SIZE - 1 + MAX_RUN,
  RESERVE  <- WIFI_FIFO_SIZE - MAX_RUN,
  q        <- Pending,
  out      <- uart,
  spoiled  <- peak + MAX_RUN >= WIFI_FIFO_SIZE

ImplementsQueue == Queue!Spec
=============================================================================
