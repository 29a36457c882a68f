----------------------------- MODULE DimmerLink -----------------------------
(***************************************************************************)
(* The radio link of the Blinkenlights installation, from the wireless MCU *)
(* (firmware/at91sam7/openbeacon-blinkenlights-wmcu/application/proto.c    *)
(* and bprotocol.c) to one of its dimmers (openbeacon-blinkenlights-dimmer *)
(* /application/proto.c).                                                  *)
(*                                                                         *)
(* In the MCU the network task sends each command TX_COMMAND_RETRIES times *)
(* and the radio task sends the lamp values over and over.  Both go        *)
(* through PtInternalTransmit(), without a lock, to one nRF24L01.  The     *)
(* sequence number of a packet is the host's clock at the first frame plus *)
(* the time since then; the dimmer takes a packet only if its number is    *)
(* ahead of the last one, by less than a window.                           *)
(*                                                                         *)
(* External: the chips (a transmit and a receive FIFO of FIFO packets, the *)
(* mode bit and CE, no acknowledgements), the air, which loses packets,    *)
(* and the host.  A packet takes less than a tick in the air.              *)
(***************************************************************************)
EXTENDS Integers, Sequences, FiniteSets

CONSTANTS
  TX_COMMAND_RETRIES,   \* 3
  MOD, WINDOW,          \* sequence numbers are unsigned 32 bit; 2^28
  FIFO,                 \* packets in each FIFO of an nRF24L01 (3)
  MaxDelay,             \* ticks a numbered packet waits in the MCU at most
  HostClock,            \* what the host's clock may be ahead of `now'
  MaxNow, MaxCommands   \* bounds: ticks, commands of the host

Command == {"config", "reset", "setid"}
Tasks   == {"net", "radio"}

ASSUME DimmerLinkAssumption ==
  /\ TX_COMMAND_RETRIES \in Nat \ {0} /\ FIFO \in Nat \ {0}
  /\ WINDOW \in Nat \ {0} /\ MOD \in Nat /\ 2 * WINDOW <= MOD
  /\ MaxDelay \in Nat \ {0} /\ MaxDelay <= WINDOW
  /\ HostClock \subseteq 0 .. MOD - 1 /\ HostClock # {}
  /\ MaxNow \in Nat /\ MaxCommands \in Nat

VARIABLES
  now,                  \* ticks since the beginning
  host,                 \* what the host's clock is ahead of now
  boot, sequence_seed,  \* of the MCU: its start, 0 before the first frame
  task,                 \* the tasks: where in PtInternalTransmit(), since when, their packet
  command, try,         \* network task: the command of PtTransmit(), "none" between two; its try
  txaddr,               \* the address the chip sends to: "broadcast" or "jam"
  mode, ce, txfifo,     \* the MCU's chip
  rxfifo,               \* the dimmer's chip
  running,              \* the dimmer is neither in PtResetDevice() nor without power
  last_sequence, wmcu_id, stored,  \* of the dimmer, the stored id in its flash
  commands,             \* bound: commands so far; the current one's identity
  last,                 \* history: the packet accepted last
  executed, resets,     \* history: commands the dimmer carried out, resets by command
  missed,               \* history: tries of the current command that nobody could take
  collided              \* history: both tasks transmitted during the current command

mcu     == <<boot, sequence_seed, task, command, try, txaddr>>
chip    == <<mode, ce, txfifo>>
dimmer  == <<rxfifo, running, last_sequence, wmcu_id, stored>>
seen    == <<last, executed, resets>>
history == <<commands, seen, missed, collided>>
vars    == <<now, host, mcu, chip, dimmer, history>>

NoPacket == [cmd |-> "none", id |-> 0, seq |-> 0, born |-> 0, host |-> 0]

Init ==
  /\ now = 0 /\ host \in HostClock
  /\ boot = 0 /\ sequence_seed = 0
  /\ task = [t \in Tasks |-> [pc |-> "idle", since |-> 0, pkg |-> NoPacket]]
  /\ command = "none" /\ try = 0 /\ txaddr = "jam"
  /\ mode = "RX" /\ ce = FALSE /\ txfifo = <<>> /\ rxfifo = <<>>
  /\ running = TRUE /\ last_sequence = 0
  /\ wmcu_id \in {0, 1} /\ stored = wmcu_id
  /\ commands = 0 /\ last = NoPacket /\ executed = {} /\ missed = 0 /\ collided = FALSE
  /\ resets = [c \in 1 .. MaxCommands |-> 0]

-----------------------------------------------------------------------------
(* The MCU.                                                                *)

(* b_parse_mcu_multiframe() 70-75: the first frame sets the seed.  A host  *)
(* that was started again, or another one, has a clock of its own.         *)
Frame(h) ==
  /\ sequence_seed = 0
  /\ host' = h
  /\ sequence_seed' = (h + now - (now - boot)) % MOD
  /\ UNCHANGED <<now, boot, task, command, try, txaddr, chip, dimmer, history>>

Other(t) == CHOOSE u \in Tasks : u # t

(* PtInternalTransmit() 123-133: silently nothing without a seed, else     *)
(* disable the receiver and wait.                                          *)
Enter(t, pkg) ==
  /\ task' = [task EXCEPT ![t] = [pc |-> "wait", since |-> now, pkg |-> pkg]]
  /\ ce' = FALSE
  /\ collided' = (collided \/ task[Other(t)].pc # "idle")

(* PtInternalTransmit() 136-154: transmit mode, then the sequence number   *)
(* at this time, CRC and encryption.                                       *)
Stamp(t) ==
  /\ task[t].pc = "wait" /\ now > task[t].since
  /\ mode' = "TX"
  /\ LET pkg == [task[t].pkg EXCEPT !.seq = (sequence_seed + now - boot) % MOD,
                                    !.born = now, !.host = host]
     IN  task' = [task EXCEPT ![t] = [@ EXCEPT !.pc = "stamped", !.pkg = pkg]]
  /\ UNCHANGED <<now, host, boot, sequence_seed, command, try, txaddr, ce, txfifo, dimmer, history>>

(* What becomes of the tries of the current command that are in s.         *)
Tries(s) == Cardinality({i \in 1 .. Len(s) : s[i].id = commands})

(* nRFAPI_TX(): a full FIFO does not take the packet.                      *)
Uploaded(pkg) == IF Len(txfifo) = FIFO THEN txfifo ELSE Append(txfifo, pkg)

(* PtInternalTransmit() 158-164 *)
Upload(t) ==
  LET pkg == task[t].pkg
  IN  /\ task[t].pc = "stamped"
      /\ txfifo' = Uploaded(pkg)
      /\ missed' = missed + IF Uploaded(pkg) = txfifo THEN Tries(<<pkg>>) ELSE 0
      /\ ce' = TRUE
      /\ task' = [task EXCEPT ![t].pc = "sent", ![t].since = now]
      /\ UNCHANGED <<now, host, boot, sequence_seed, command, try, txaddr, mode, dimmer,
                     commands, seen, collided>>

(* PtInternalTransmit() 167: receive mode again, in time or not.           *)
Transmitted(t) ==
  /\ task[t].pc = "sent" /\ now > task[t].since
  /\ mode' = "RX"
  /\ task' = [task EXCEPT ![t] = [pc |-> "idle", since |-> 0, pkg |-> NoPacket]]
  /\ try' = IF t = "net" THEN try + 1 ELSE try
  /\ UNCHANGED <<now, host, boot, sequence_seed, command, txaddr, ce, txfifo, dimmer, history>>

(* The network task gets a command, b_parse_mcu_devctrl(), and PtTransmit()*)
(* starts; SET_LAMP_ID goes to the broadcast address.                      *)
Call(c) ==
  /\ command = "none" /\ commands < MaxCommands
  /\ command' = c /\ try' = 0
  /\ commands' = commands + 1
  /\ txaddr' = IF c = "setid" THEN "broadcast" ELSE txaddr
  /\ missed' = 0 /\ collided' = (task["radio"].pc # "idle")
  /\ UNCHANGED <<now, host, boot, sequence_seed, task, chip, dimmer, seen>>

(* Bug variant: the packet, encrypted in place, is not restored.           *)
PlainEncrypted == [NoPacket EXCEPT !.cmd = IF try = 0 THEN command ELSE "garbage",
                                   !.id = commands]

(* PtTransmit() 186-187: every try starts from the packet as it was given. *)
Plain == [NoPacket EXCEPT !.cmd = command, !.id = commands]

TrySend ==
  /\ command # "none" /\ task["net"].pc = "idle" /\ try < TX_COMMAND_RETRIES
  /\ IF sequence_seed = 0
     THEN /\ try' = try + 1 /\ missed' = missed + 1
          /\ UNCHANGED <<task, ce, collided>>
     ELSE Enter("net", Plain) /\ UNCHANGED <<try, missed>>
  /\ UNCHANGED <<now, host, boot, sequence_seed, command, txaddr, mode, txfifo, dimmer,
                 commands, seen>>

(* PtTransmit() 192-196: back to the address of the lamp values.           *)
Return ==
  /\ command # "none" /\ task["net"].pc = "idle" /\ try = TX_COMMAND_RETRIES
  /\ command' = "none"
  /\ txaddr' = "jam"
  /\ UNCHANGED <<now, host, boot, sequence_seed, task, try, chip, dimmer, history>>

(* vnRFtaskRxTx() 229-231: the radio task finds the transmit FIFO full.    *)
FlushTX ==
  /\ task["radio"].pc = "idle" /\ Len(txfifo) = FIFO
  /\ txfifo' = <<>>
  /\ missed' = missed + Tries(txfifo)
  /\ UNCHANGED <<now, host, mcu, mode, ce, dimmer, commands, seen, collided>>

(* vnRFtaskRxTx() 273-292: the lamp values, to all dimmers of this MCU.    *)
Jam ==
  /\ task["radio"].pc = "idle" /\ Len(txfifo) < FIFO /\ sequence_seed # 0
  /\ Enter("radio", [NoPacket EXCEPT !.cmd = "values"])
  /\ UNCHANGED <<now, host, boot, sequence_seed, command, try, txaddr, mode, txfifo, dimmer,
                 commands, seen, missed>>

(* Reset or power loss of the MCU, which forgets the seed and its clock.   *)
McuRestart ==
  /\ sequence_seed # 0
  /\ sequence_seed' = 0 /\ boot' = now
  /\ task' = [t \in Tasks |-> [pc |-> "idle", since |-> 0, pkg |-> NoPacket]]
  /\ command' = "none" /\ try' = 0 /\ txaddr' = "jam"
  /\ mode' = "RX" /\ ce' = FALSE /\ txfifo' = <<>>
  /\ missed' = TX_COMMAND_RETRIES
  /\ UNCHANGED <<now, host, dimmer, commands, seen, collided>>

-----------------------------------------------------------------------------
(* The air.                                                                *)

OnAir == mode = "TX" /\ ce /\ txfifo # <<>>

(* A dimmer hears the broadcast address and the one of its MCU's id.       *)
Heard == Len(rxfifo) < FIFO /\ (txaddr = "broadcast" \/ wmcu_id = 1)

Lose ==
  /\ OnAir
  /\ txfifo' = Tail(txfifo)
  /\ missed' = missed + Tries(<<Head(txfifo)>>)
  /\ UNCHANGED <<now, host, mcu, mode, ce, dimmer, commands, seen, collided>>

Deliver ==
  /\ OnAir /\ Heard
  /\ txfifo' = Tail(txfifo)
  /\ rxfifo' = Append(rxfifo, Head(txfifo))
  /\ UNCHANGED <<now, host, mcu, mode, ce, running, last_sequence, wmcu_id, stored, history>>

-----------------------------------------------------------------------------
(* The dimmer.                                                             *)

Signed(d) == IF d % MOD >= MOD \div 2 THEN (d % MOD) - MOD ELSE d % MOD

(* Bug variant: the difference is not taken as a signed number.            *)
InWindowUnsigned(seq) == seq > last_sequence /\ seq - last_sequence < WINDOW

(* Bug variant: only the same number is refused.                           *)
InWindowNotSame(seq) == Signed(seq - last_sequence) # 0

(* bParsePacket() 258: 0 < seq_delta < 2^28                                *)
InWindow(seq) ==
  /\ Signed(seq - last_sequence) > 0
  /\ Signed(seq - last_sequence) < WINDOW

(* The CRC, and bParsePacket() 223-245: lamp values are for the dimmers of *)
(* one MCU.  Commands go to the dimmer that is modelled.                   *)
Addressed(p) == p.cmd # "garbage" /\ (p.cmd = "values" => wmcu_id = 1)

Accepts(p) == last_sequence = 0 \/ InWindow(p.seq)

(* Packets that the dimmer refuses although they are newer: too long after *)
(* the last one, or numbered by another clock.                             *)
OutOfReach(p) == p.host # last.host \/ p.born - last.born >= WINDOW

CanExecute ==
  running /\ rxfifo # <<>> /\ Addressed(Head(rxfifo)) /\ Accepts(Head(rxfifo))

CanRefuse ==
  running /\ rxfifo # <<>> /\ ~ (Addressed(Head(rxfifo)) /\ Accepts(Head(rxfifo)))

(* vnRFtaskRxTx(): read a packet; CRC, address and sequence number refuse. *)
Refuse ==
  LET p == Head(rxfifo)
  IN  /\ CanRefuse
      /\ rxfifo' = Tail(rxfifo)
      /\ missed' = missed + IF p.cmd # "garbage" /\ (~ Addressed(p) \/ OutOfReach(p))
                            THEN Tries(<<p>>) ELSE 0
      /\ UNCHANGED <<now, host, mcu, chip, running, last_sequence, wmcu_id, stored,
                     commands, seen, collided>>

(* bParsePacket() 248-412: take the sequence number, carry the packet out. *)
(* SET_LAMP_ID stores the id, RESET waits for the watchdog.                *)
Execute ==
  LET p == Head(rxfifo)
  IN  /\ CanExecute
      /\ rxfifo' = Tail(rxfifo)
      /\ last_sequence' = p.seq
      /\ wmcu_id' = IF p.cmd = "setid" THEN 1 ELSE wmcu_id
      /\ stored' = IF p.cmd = "setid" THEN 1 ELSE stored
      /\ running' = (p.cmd # "reset")
      /\ last' = p
      /\ executed' = executed \cup ({p.id} \ {0})
      /\ resets' = IF p.cmd = "reset" THEN [resets EXCEPT ![p.id] = @ + 1] ELSE resets
      /\ UNCHANGED <<now, host, mcu, chip, commands, missed, collided>>

(* Bug variant: the initialisation leaves the receive FIFO.                *)
FifoKept == rxfifo

(* nRFAPI_Init(): the initialisation flushes the receive FIFO.             *)
FifoAtBoot == <<>>

Forgotten == missed + Tries(rxfifo) - Tries(FifoAtBoot)

(* The dimmer is up again 0.6 s after RESET or later, when the last try of *)
(* the command has left the MCU.                                           *)
DimmerBoots ==
  /\ ~ running
  /\ \/ command = "none" \/ last.id # commands
  /\ \A i \in 1 .. Len(txfifo) : txfifo[i].id # last.id
  /\ running' = TRUE /\ last_sequence' = 0 /\ wmcu_id' = stored
  /\ rxfifo' = FifoAtBoot
  /\ missed' = Forgotten
  /\ UNCHANGED <<now, host, mcu, chip, stored, commands, seen, collided>>

(* Power loss of the dimmer, which comes back as slowly.                   *)
DimmerPowerLoss ==
  /\ running /\ last_sequence # 0
  /\ running' = FALSE
  /\ UNCHANGED <<now, host, mcu, chip, rxfifo, last_sequence, wmcu_id, stored, history>>

-----------------------------------------------------------------------------
(* Packets that have a number and have not left the MCU.                   *)
Numbered ==
  {txfifo[i] : i \in 1 .. Len(txfifo)} \cup
  {task[t].pkg : t \in {u \in Tasks : task[u].pc = "stamped"}}

(* Time passes when no packet is in the air.  One that is encrypted or that*)
(* was left in the chip waits for the other task or for the next lamp      *)
(* values: 20 ms or less, next to nothing of the range of the numbers.     *)
Tick ==
  /\ now < MaxNow /\ ~ OnAir
  /\ \A p \in Numbered : now - p.born < MaxDelay
  /\ now' = now + 1
  /\ UNCHANGED <<host, mcu, chip, dimmer, history>>

Next ==
  \/ \E h \in HostClock : Frame(h)
  \/ \E t \in Tasks : Stamp(t) \/ Upload(t) \/ Transmitted(t)
  \/ \E c \in Command : Call(c)
  \/ TrySend \/ Return \/ FlushTX \/ Jam \/ McuRestart
  \/ Lose \/ Deliver
  \/ Refuse \/ Execute \/ DimmerBoots \/ DimmerPowerLoss
  \/ Tick

Spec == Init /\ [][Next]_vars

-----------------------------------------------------------------------------
(* The dimmer carries packets out in the order in which they were numbered *)
(* even though the two tasks of the MCU may send them in another.  Two     *)
(* exceptions: the number 0, after which it starts anew, as after a reset, *)
(* and a host with another clock.                                          *)
ExecutedInOrder ==
  CanExecute => \/ Head(rxfifo).born > last.born
                     \/ last_sequence = 0
                     \/ Head(rxfifo).host # last.host

(* A packet numbered later than the last one carried out is refused only   *)
(* if the link was silent for the whole window, or the host's clock has    *)
(* changed: the dimmer is then deaf until it is reset.                     *)
NewerRefusedOutOfReach ==
  CanRefuse => \/ ~ Addressed(Head(rxfifo))
               \/ Head(rxfifo).born <= last.born
               \/ OutOfReach(Head(rxfifo))

(* The tries of a RESET command reset a dimmer once: those that arrive     *)
(* while it waits for the watchdog are gone when it is up again.           *)
ResetOnce == \A c \in 1 .. MaxCommands : resets[c] <= 1

(* A command whose transmissions did not meet one of the radio task is     *)
(* carried out if but one of its tries got through to the dimmer.          *)
CommandArrives ==
  (/\ commands > 0 /\ command = "none"
   /\ txfifo = <<>> /\ rxfifo = <<>> /\ ~ collided)
     => commands \in executed \/ missed >= TX_COMMAND_RETRIES
=============================================================================
