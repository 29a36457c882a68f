----------------------------- MODULE WlanReader -----------------------------
(***************************************************************************)
(* The radio task of the WLAN reader, wifi_task_nrf() in                   *)
(* firmware/at91sam7/openbeacon-wlan/application/wifi.c, with the interrupt *)
(* that wakes it (core/openbeacon/nRF24L01/nRF_CMD.c) and the reader id it  *)
(* keeps in flash (core/openbeacon/env.c).  The nRF24L01 chip is external: *)
(* a receive FIFO, and an RX_DR flag that a new frame sets, that only      *)
(* ClearIRQ clears and whose falling edge on the IRQ pin gives the binary  *)
(* semaphore xnRF_SemaphoreACK.                                            *)
(*                                                                         *)
(* Every frame goes into the transmit ring (WifiFifo) before it is         *)
(* decoded; frames that are a command for this reader are then executed    *)
(* and acknowledged.  Encryption and CRC are abstracted to the kind of the *)
(* frame: cmd = "none" stands for all frames without an effect here.       *)
(***************************************************************************)
EXTENDS Integers, Sequences

CONSTANTS
  RX_DEPTH,                 \* receive FIFO of the chip (3)
  WIFI_FIFO_SIZE, MAX_RUN,  \* transmit ring, see WifiFifo
  ReaderId, DefaultId,      \* reader ids, and the one used when the flash is invalid
  Frame,                    \* frames on the air: [cmd, to, arg]
  NULL,
  Burst,       \* frames that can arrive between the FIFO_STATUS read and ClearIRQ
  MaxFrames    \* bound: frames the chip receives

Command == {"none", "nop", "reset", "mute", "setoid"}

(* A frame with the position at which the chip received it.  Reading an    *)
(* empty FIFO gives the last frame again or something that fails the CRC.  *)
Envelope == [id : 1 .. MaxFrames, frame : Frame]
Garbage  == [id |-> 0, frame |-> [cmd |-> "none", to |-> DefaultId, arg |-> DefaultId]]

ASSUME WlanReaderAssumption ==
  /\ RX_DEPTH \in Nat \ {0} /\ Burst \in Nat /\ MaxFrames \in Nat
  /\ WIFI_FIFO_SIZE \in Nat /\ WIFI_FIFO_SIZE >= 2 /\ MAX_RUN \in Nat \ {0}
  /\ DefaultId \in ReaderId
  /\ Frame \subseteq [cmd : Command, to : ReaderId, arg : ReaderId]
  /\ NULL \notin ReaderId \cup Envelope \cup {Garbage}

VARIABLES
  pc,                             \* where wifi_task_nrf() is
  rx, rx_dr, sem,                 \* chip FIFO, RX_DR flag, xnRF_SemaphoreACK
  g_Beacon,                       \* the frame being handled
  disable_beacon_fowarding_to_uart,
  reader_id,                      \* env.e.reader_id in RAM
  flash,                          \* the stored one, NULL if the page is not valid
  wifi_fifo, wifi_fifo_head, wifi_fifo_tail, dma, uart, accepted, peak,
  received,                       \* history: frames the chip took
  readOut,                        \* history: ids of the frames read out of the chip since boot
  window,                         \* history: frames that arrived in this clear window
  latched,                        \* history: booted with RX_DR set, not yet cleared
  raced,                          \* history: ClearIRQ last ran with the wake-up pending
  ackedId                         \* history: reader id acknowledged last

Ring == INSTANCE WifiFifo WITH Packet <- Envelope \cup {Garbage}

ring    == <<wifi_fifo, wifi_fifo_head, wifi_fifo_tail, dma, uart, accepted, peak>>
chip    == <<rx, rx_dr, sem>>
config  == <<reader_id, flash>>
history == <<received, readOut, window, latched, raced, ackedId>>
vars    == <<pc, chip, g_Beacon, disable_beacon_fowarding_to_uart, config, ring, history>>

TypeOK ==
  /\ pc \in {"boot", "wait", "read", "command", "store", "program", "ack", "tx", "more",
             "clear", "poll", "announce", "hung"}
  /\ rx \in Seq(Envelope) /\ Len(rx) <= RX_DEPTH
  /\ rx_dr \in BOOLEAN /\ sem \in BOOLEAN
  /\ g_Beacon \in Envelope \cup {Garbage}
  /\ disable_beacon_fowarding_to_uart \in BOOLEAN
  /\ reader_id \in ReaderId /\ flash \in ReaderId \cup {NULL}
  /\ Ring!FifoTypeOK
  /\ received \in 0 .. MaxFrames /\ readOut \in Seq(1 .. MaxFrames) /\ window \in 0 .. Burst
  /\ latched \in BOOLEAN /\ raced \in BOOLEAN /\ ackedId \in ReaderId \cup {NULL}

(* The chip receives: powered, CE high and not switched to transmission.   *)
Listening == pc \notin {"boot", "tx", "announce"}

Init ==
  /\ pc = "boot"
  /\ rx = <<>> /\ rx_dr = FALSE /\ sem = FALSE
  /\ g_Beacon = Garbage /\ disable_beacon_fowarding_to_uart = FALSE
  /\ reader_id = DefaultId /\ flash = NULL
  /\ Ring!FifoInit
  /\ received = 0 /\ readOut = <<>> /\ window = 0
  /\ latched = FALSE /\ raced = FALSE /\ ackedId = NULL

-----------------------------------------------------------------------------
(* The chip takes a frame off the air; a full FIFO loses it without a sign. *)
(* Only the edge of RX_DR gives the semaphore.                             *)
Arrive(f) ==
  /\ Listening /\ received < MaxFrames /\ Len(rx) < RX_DEPTH
  /\ pc = "clear" => window < Burst
  /\ rx' = Append(rx, [id |-> received + 1, frame |-> f])
  /\ rx_dr' = TRUE
  /\ sem' = (sem \/ ~rx_dr)
  /\ received' = received + 1
  /\ window' = IF pc = "clear" THEN window + 1 ELSE window
  /\ UNCHANGED <<pc, g_Beacon, disable_beacon_fowarding_to_uart, config, ring,
                 readOut, latched, raced, ackedId>>

(* Bug variants: the semaphore stays given as vSemaphoreCreateBinary() made *)
(* it, and the id is taken from flash without looking at the CRC.          *)
BootSemaphoreGiven ==
  /\ pc = "boot" /\ pc' = "wait"
  /\ reader_id' = IF flash = NULL THEN DefaultId ELSE flash
  /\ rx' = <<>> /\ sem' = TRUE
  /\ latched' = rx_dr
  /\ UNCHANGED <<rx_dr, g_Beacon, disable_beacon_fowarding_to_uart, flash, ring, received,
                 readOut, window, raced, ackedId>>

BootUnchecked ==
  /\ pc = "boot" /\ pc' = "wait"
  /\ reader_id' = flash
  /\ rx' = <<>> /\ sem' = FALSE
  /\ latched' = rx_dr
  /\ UNCHANGED <<rx_dr, g_Beacon, disable_beacon_fowarding_to_uart, flash, ring, received,
                 readOut, window, raced, ackedId>>

(* mainloop() and the start of the radio task: load the id, flush the      *)
(* FIFO, create the semaphore empty, switch to RX.  RX_DR is left alone.   *)
Boot ==
  /\ pc = "boot" /\ pc' = "wait"
  /\ reader_id' = IF flash = NULL THEN DefaultId ELSE flash
  /\ rx' = <<>> /\ sem' = FALSE
  /\ latched' = rx_dr
  /\ UNCHANGED <<rx_dr, g_Beacon, disable_beacon_fowarding_to_uart, flash, ring, received,
                 readOut, window, raced, ackedId>>

(* What a reset does to everything in RAM. *)
Restart ==
  /\ pc' = "boot"
  /\ sem' = FALSE /\ g_Beacon' = Garbage /\ disable_beacon_fowarding_to_uart' = FALSE
  /\ Ring!FifoRestart
  /\ readOut' = <<>> /\ window' = 0 /\ latched' = FALSE /\ raced' = FALSE
  /\ reader_id' = DefaultId
  /\ UNCHANGED <<flash, received, ackedId>>

PowerLoss == pc # "boot" /\ Restart /\ rx' = <<>> /\ rx_dr' = FALSE

(* The chip is not reset along with the processor. *)
Watchdog == pc = "hung" /\ Restart /\ UNCHANGED <<rx, rx_dr>>

-----------------------------------------------------------------------------
(* nRFCMD_WaitRx(): take the semaphore, or give up after 100 ticks. *)
Wake ==
  /\ pc = "wait" /\ sem
  /\ sem' = FALSE /\ pc' = "read"
  /\ UNCHANGED <<rx, rx_dr, g_Beacon, disable_beacon_fowarding_to_uart, config, ring, history>>

Timeout ==
  /\ pc = "wait" /\ ~sem
  /\ pc' = "clear" /\ window' = 0
  /\ UNCHANGED <<chip, g_Beacon, disable_beacon_fowarding_to_uart, config, ring, received,
                 readOut, latched, raced, ackedId>>

ForMe(e) == e.frame.cmd # "none" /\ e.frame.to = reader_id

(* Read a payload, forward it to the ring, decode it. *)
ReadFrame(e) ==
  /\ pc = "read"
  /\ IF rx = <<>> THEN e \in {g_Beacon, Garbage} ELSE e = Head(rx)
  /\ rx' = IF rx = <<>> THEN rx ELSE Tail(rx)
  /\ g_Beacon' = e /\ readOut' = IF rx = <<>> THEN readOut ELSE Append(readOut, e.id)
  /\ IF disable_beacon_fowarding_to_uart THEN UNCHANGED ring ELSE Ring!AddPacket(e)
  /\ pc' = IF ForMe(e) THEN "command" ELSE "more"
  /\ UNCHANGED <<rx_dr, sem, disable_beacon_fowarding_to_uart, config, received, window,
                 latched, raced, ackedId>>

(* Bug variant: the new id is acknowledged without env_store(). *)
ExecuteUnsaved ==
  /\ pc = "command"
  /\ pc' = IF g_Beacon.frame.cmd = "reset" THEN "hung" ELSE "ack"
  /\ disable_beacon_fowarding_to_uart' =
       (disable_beacon_fowarding_to_uart \/ g_Beacon.frame.cmd = "mute")
  /\ reader_id' = IF g_Beacon.frame.cmd = "setoid" THEN g_Beacon.frame.arg ELSE reader_id
  /\ ackedId' = IF g_Beacon.frame.cmd = "setoid" THEN NULL ELSE ackedId
  /\ UNCHANGED <<chip, g_Beacon, flash, ring, received, readOut, window, latched, raced>>

(* wifi_reader_command(): the three WLAN resets all mute the reader; an    *)
(* unknown opcode is acknowledged like a NOP.                              *)
Execute ==
  /\ pc = "command"
  /\ pc' = CASE g_Beacon.frame.cmd = "reset"  -> "hung"
             [] g_Beacon.frame.cmd = "setoid" -> "store"
             [] OTHER                         -> "ack"
  /\ disable_beacon_fowarding_to_uart' =
       (disable_beacon_fowarding_to_uart \/ g_Beacon.frame.cmd = "mute")
  /\ reader_id' = IF g_Beacon.frame.cmd = "setoid" THEN g_Beacon.frame.arg ELSE reader_id
  /\ ackedId' = IF g_Beacon.frame.cmd = "setoid" THEN NULL ELSE ackedId
  /\ UNCHANGED <<chip, g_Beacon, flash, ring, received, readOut, window, latched, raced>>

(* env_store(): programming the page erases it first. *)
EraseEnv ==
  /\ pc = "store"
  /\ flash' = NULL /\ pc' = "program"
  /\ UNCHANGED <<chip, g_Beacon, disable_beacon_fowarding_to_uart, reader_id, ring, history>>

ProgramEnv ==
  /\ pc = "program"
  /\ flash' = reader_id /\ pc' = "ack"
  /\ UNCHANGED <<chip, g_Beacon, disable_beacon_fowarding_to_uart, reader_id, ring, history>>

(* The acknowledgement goes out; the chip is deaf until it has. *)
SendAck ==
  /\ pc = "ack" /\ pc' = "tx"
  /\ ackedId' = IF g_Beacon.frame.cmd = "setoid" THEN g_Beacon.frame.arg ELSE ackedId
  /\ UNCHANGED <<chip, g_Beacon, disable_beacon_fowarding_to_uart, config, ring, received,
                 readOut, window, latched, raced>>

AckSent ==
  /\ pc = "tx" /\ pc' = "more"
  /\ UNCHANGED <<chip, g_Beacon, disable_beacon_fowarding_to_uart, config, ring, history>>

(* Bug variant: one frame per wake-up. *)
CheckNoMore ==
  /\ pc = "more" /\ pc' = "clear"
  /\ window' = 0
  /\ UNCHANGED <<chip, g_Beacon, disable_beacon_fowarding_to_uart, config, ring, received,
                 readOut, latched, raced, ackedId>>

(* FIFO_STATUS: go on until the chip FIFO is empty. *)
CheckMore ==
  /\ pc = "more"
  /\ pc' = IF rx = <<>> THEN "clear" ELSE "read"
  /\ window' = 0
  /\ UNCHANGED <<chip, g_Beacon, disable_beacon_fowarding_to_uart, config, ring, received,
                 readOut, latched, raced, ackedId>>

ClearIRQ ==
  /\ pc = "clear" /\ pc' = "poll"
  /\ rx_dr' = FALSE
  /\ raced' = sem
  /\ latched' = (latched /\ Len(rx) = RX_DEPTH)
  /\ UNCHANGED <<rx, sem, g_Beacon, disable_beacon_fowarding_to_uart, config, ring, received,
                 readOut, window, ackedId>>

(* Look at the UART and, when it is time, announce the reader. *)
PollUart ==
  /\ pc = "poll" /\ pc' \in {"wait", "announce"}
  /\ Ring!Poll
  /\ UNCHANGED <<chip, g_Beacon, disable_beacon_fowarding_to_uart, config, history>>

(* Bug variant: switching back to RX flushes the receive FIFO. *)
AnnouncedFlushing ==
  /\ pc = "announce" /\ pc' = "wait"
  /\ rx' = <<>>
  /\ UNCHANGED <<rx_dr, sem, g_Beacon, disable_beacon_fowarding_to_uart, config, ring, history>>

Announced ==
  /\ pc = "announce" /\ pc' = "wait"
  /\ UNCHANGED <<chip, g_Beacon, disable_beacon_fowarding_to_uart, config, ring, history>>

RadioTask ==
  \/ Boot \/ Wake \/ Timeout
  \/ \E e \in Envelope \cup {Garbage} : ReadFrame(e)
  \/ Execute \/ EraseEnv \/ ProgramEnv \/ SendAck \/ AckSent
  \/ CheckMore \/ ClearIRQ \/ PollUart \/ Announced

SendUart ==
  /\ Ring!Dma
  /\ UNCHANGED <<pc, chip, g_Beacon, disable_beacon_fowarding_to_uart, config, history>>

Next ==
  \/ \E f \in Frame : Arrive(f)
  \/ RadioTask \/ SendUart
  \/ Watchdog \/ PowerLoss

Spec == Init /\ [][Next]_vars

(* The radio task has the highest priority of all tasks, the UART and the  *)
(* watchdog are hardware.                                                  *)
FairSpec == Spec /\ WF_vars(RadioTask) /\ WF_vars(SendUart) /\ WF_vars(Watchdog)
-----------------------------------------------------------------------------
(* Nothing will ever wake the task again: the FIFO is full, so that no     *)
(* frame can set RX_DR, and RX_DR is clear.                                *)
Deaf == pc = "wait" /\ ~sem /\ ~rx_dr /\ Len(rx) = RX_DEPTH

(* The drain loop, the flag and the semaphore keep the reader listening as *)
(* long as fewer than RX_DEPTH frames can arrive between the FIFO_STATUS   *)
(* read and ClearIRQ.  The one way to go deaf is a warm reset: RX_DR is    *)
(* still set, so frames give no edge, and the first wait that times out    *)
(* withdraws the flag of a FIFO that filled up meanwhile (wifi.c:379-420). *)
DeafCauses == Deaf => latched

(* The task reads an empty FIFO (and forwards what it gets, wifi.c:388)    *)
(* only if the last ClearIRQ ran between a frame's arrival and its wake-up. *)
EmptyReadOnlyAfterRace == pc = "read" /\ rx = <<>> => raced

(* What the task read since boot, and the chip still holds, is every frame *)
(* since the first one, in order and once, through all the mode switches.  *)
Taken == readOut \o [k \in DOMAIN rx |-> rx[k].id]
NoFrameSkipped ==
  \A k \in DOMAIN Taken : Taken[k] = received - Len(Taken) + k

(* A reader that has acknowledged a new id keeps it over every reset and   *)
(* power loss, until it is told another one (wifi.c:325-329, env.c:119).   *)
AckedIdSurvives ==
  ackedId # NULL => flash = ackedId /\ (pc # "boot" => reader_id = ackedId)

(* A frame in the chip is read once the semaphore is given, or lost with a *)
(* reset; no command and no announcement leaves it behind.                 *)
InChip(n) == \E k \in DOMAIN rx : rx[k].id = n
WokenReads == \A n \in 1 .. MaxFrames : InChip(n) /\ sem ~> ~InChip(n)
=============================================================================
