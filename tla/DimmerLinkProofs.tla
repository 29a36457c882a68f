-------------------------- MODULE DimmerLinkProofs --------------------------
(***************************************************************************)
(* Proofs about DimmerLink, for any number of tries, any depth of the      *)
(* FIFOs, any range of sequence numbers and window, any host clocks and    *)
(* any number of commands and ticks: the dimmer carries packets out in the *)
(* order of their numbers, refuses a newer one only out of reach, is reset *)
(* once by a command, and gets a command of which one try gets through.    *)
(***************************************************************************)
EXTENDS DimmerLink, TLAPS, FiniteSetTheorems

Packet == [cmd : Command \cup {"values", "none"}, id : 0 .. MaxCommands, seq : Nat, born : Nat,
           host : Nat]

TaskState == [pc : {"idle", "wait", "stamped", "sent"}, since : Nat, pkg : Packet]

Types ==
  /\ now \in Nat /\ host \in Nat /\ boot \in Nat /\ sequence_seed \in Nat
  /\ task \in [Tasks -> TaskState]
  /\ command \in Command \cup {"none"} /\ try \in Nat
  /\ txfifo \in Seq(Packet) /\ rxfifo \in Seq(Packet) /\ last \in Packet
  /\ last_sequence \in Nat
  /\ commands \in 0 .. MaxCommands /\ missed \in Nat
  /\ resets \in [1 .. MaxCommands -> Nat]

(* The packets under way, by where they are.                               *)
Stamped == {t \in Tasks : task[t].pc = "stamped"}
InTx    == 1 .. Len(txfifo)
InRx    == 1 .. Len(rxfifo)

(* Clocks: a sequence number is the host's clock at the time of birth.     *)
OnClock(p) == \E k \in Int : p.seq = p.host + p.born + k * MOD

Clocks ==
  /\ sequence_seed # 0 => \E k \in Int : sequence_seed = host + boot + k * MOD
  /\ \A t \in Tasks : task[t].pc = "wait" => sequence_seed # 0
  /\ \A t \in Stamped : OnClock(task[t].pkg)
  /\ \A i \in InTx : OnClock(txfifo[i])
  /\ \A i \in InRx : OnClock(rxfifo[i])
  /\ last_sequence # 0 => last_sequence = last.seq /\ OnClock(last)

(* A packet leaves the MCU in time, so that one behind another in the      *)
(* dimmer is not much older.                                               *)
InTime(p) == p.born <= now /\ now <= p.born + MaxDelay

Delays ==
  /\ \A t \in Stamped : InTime(task[t].pkg)
  /\ \A i \in InTx : InTime(txfifo[i])
  /\ last.born <= now
  /\ \A i \in InRx : /\ rxfifo[i].born <= now
                     /\ last.born - rxfifo[i].born <= MaxDelay
                     /\ \A j \in InRx : i < j => rxfifo[i].born - rxfifo[j].born <= MaxDelay

(* Whose packets there are.                                                *)
Labelled(p) == p.id <= commands /\ p.cmd # "none" /\ (p.cmd = "values" <=> p.id = 0)

Labels ==
  /\ \A i \in InTx : Labelled(txfifo[i])
  /\ \A i \in InRx : Labelled(rxfifo[i])
  /\ task["net"].pc # "idle" =>
       command # "none" /\ task["net"].pkg.cmd = command /\ task["net"].pkg.id = commands
  /\ task["radio"].pc # "idle" => task["radio"].pkg.cmd = "values" /\ task["radio"].pkg.id = 0
  /\ command # "none" => commands > 0

(* Nothing of command c is under way any more, or will be.                 *)
Gone(c) ==
  /\ \A i \in InTx : txfifo[i].id # c
  /\ \A i \in InRx : rxfifo[i].id # c
  /\ command # "none" => commands # c

Resets ==
  \A c \in 1 .. MaxCommands :
    /\ resets[c] <= 1
    /\ resets[c] = 1 => c <= commands /\ (Gone(c) \/ (~ running /\ last.id = c))

Carried == last.id = 0 \/ last.id \in executed

(* While the radio task does not meet the current command, the packets of  *)
(* other ones that are ahead of one of the command are older than it.      *)
InOrder(rx, tx, l, c) ==
  /\ \A i \in 1 .. Len(tx) : tx[i].id = c =>
       /\ \A j \in 1 .. Len(tx) : j < i /\ tx[j].id # c => tx[j].born < tx[i].born
       /\ \A j \in 1 .. Len(rx) : rx[j].id # c => rx[j].born < tx[i].born
       /\ l.id # c => l.born < tx[i].born
  /\ \A i \in 1 .. Len(rx) : rx[i].id = c =>
       /\ \A j \in 1 .. Len(rx) : j < i /\ rx[j].id # c => rx[j].born < rx[i].born
       /\ l.id # c => l.born < rx[i].born

AllBornBy(b) ==
  /\ \A j \in InTx : txfifo[j].born <= b
  /\ \A j \in InRx : rxfifo[j].born <= b
  /\ last.born <= b

OthersBornBefore(b) ==
  /\ \A j \in InTx : txfifo[j].id # commands => txfifo[j].born < b
  /\ \A j \in InRx : rxfifo[j].id # commands => rxfifo[j].born < b
  /\ last.id # commands => last.born < b

Order ==
  commands > 0 /\ ~ collided =>
    /\ task["net"].pc = "idle" \/ task["radio"].pc = "idle"
    /\ InOrder(rxfifo, txfifo, last, commands)
    /\ task["net"].pc = "wait" => AllBornBy(task["net"].since)
    /\ task["net"].pc = "stamped" => OthersBornBefore(task["net"].pkg.born)

(* Each try of the current command was missed or is under way.             *)
Begun == IF command = "none" THEN TX_COMMAND_RETRIES
         ELSE IF task["net"].pc = "sent" THEN try + 1 ELSE try

Counted ==
  commands > 0 /\ ~ collided /\ commands \notin executed =>
    missed + Tries(txfifo) + Tries(rxfifo) >= Begun

IInv ==
  /\ Types /\ Clocks /\ Delays /\ Labels /\ Resets /\ Carried /\ Order /\ Counted

-----------------------------------------------------------------------------
(* How many packets of command c a FIFO holds.                             *)
Of(s, c)    == {i \in 1 .. Len(s) : s[i].id = c}
Count(s, c) == Cardinality(Of(s, c))

LEMMA CountType ==
  ASSUME NEW s \in Seq(Packet), NEW c
  PROVE  IsFiniteSet(Of(s, c)) /\ Count(s, c) \in Nat
  <1>1. IsFiniteSet(1 .. Len(s)) /\ Of(s, c) \in SUBSET (1 .. Len(s))
    BY FS_Interval DEF Of
  <1> QED
    BY <1>1, FS_Subset, FS_CardinalityType DEF Count

LEMMA CountNone ==
  ASSUME NEW s \in Seq(Packet), NEW c, \A i \in 1 .. Len(s) : s[i].id # c
  PROVE  Count(s, c) = 0
  <1>1. Of(s, c) = {}
    BY DEF Of
  <1> QED
    BY <1>1, FS_EmptySet DEF Count

LEMMA CountAppend ==
  ASSUME NEW s \in Seq(Packet), NEW p \in Packet, NEW c
  PROVE  Count(Append(s, p), c) = Count(s, c) + IF p.id = c THEN 1 ELSE 0
  <1>1. Of(Append(s, p), c) = IF p.id = c THEN Of(s, c) \cup {Len(s) + 1} ELSE Of(s, c)
    BY DEF Of
  <1>2. Len(s) + 1 \notin Of(s, c)
    BY DEF Of
  <1>3. IsFiniteSet(Of(s, c)) /\ Count(s, c) \in Nat
    BY CountType
  <1>4. CASE p.id = c
    <2>1. Of(Append(s, p), c) = Of(s, c) \cup {Len(s) + 1}
      BY <1>1, <1>4
    <2> QED
      BY <1>2, <1>3, <1>4, <2>1, FS_AddElement, Zenon DEF Count
  <1>5. CASE p.id # c
    BY <1>1, <1>3, <1>5 DEF Count
  <1> QED
    BY <1>4, <1>5

LEMMA CountTail ==
  ASSUME NEW s \in Seq(Packet), s # <<>>, NEW c
  PROVE  Count(Tail(s), c) = Count(s, c) - IF Head(s).id = c THEN 1 ELSE 0
  <1> DEFINE S == Of(s, c) \ {1}
             T == Of(Tail(s), c)
             f == [i \in S |-> i - 1]
  <1>1. /\ Len(s) \in Nat \ {0} /\ Len(Tail(s)) = Len(s) - 1 /\ Head(s) = s[1]
        /\ \A i \in 1 .. Len(s) - 1 : Tail(s)[i] = s[i + 1]
    OBVIOUS
  <1>2. f \in Bijection(S, T)
    <2>1. \A i \in S : i \in Nat /\ i - 1 \in T
      BY <1>1 DEF Of
    <2>2. \A j \in T : j \in Nat /\ j + 1 \in S
      BY <1>1 DEF Of
    <2>3. f \in [S -> T]
      BY <2>1
    <2>4. \A a, b \in S : f[a] = f[b] => a = b
      BY <2>1
    <2>5. \A j \in T : \E i \in S : f[i] = j
      <3> SUFFICES ASSUME NEW j \in T PROVE \E i \in S : f[i] = j
        OBVIOUS
      <3>1. j + 1 \in S /\ f[j + 1] = j
        BY <2>2
      <3> QED
        BY <3>1
    <2> HIDE DEF S, T, f
    <2> QED
      BY <2>3, <2>4, <2>5 DEF Bijection, Injection, Surjection, IsInjective
  <1>3. IsFiniteSet(S) /\ Cardinality(S) = IF 1 \in Of(s, c) THEN Count(s, c) - 1 ELSE Count(s, c)
    BY CountType, FS_RemoveElement DEF Count
  <1>4. Cardinality(T) = Cardinality(S)
    <2> HIDE DEF S, T, f
    <2> QED
      BY <1>2, <1>3, FS_Bijection DEF ExistsBijection
  <1>5. 1 \in Of(s, c) <=> Head(s).id = c
    BY <1>1 DEF Of
  <1> QED
    BY <1>3, <1>4, <1>5, CountType DEF Count

LEMMA TriesCount ==
  ASSUME NEW s
  PROVE  Tries(s) = Count(s, commands)
  BY DEF Tries, Count, Of

LEMMA CountOne ==
  ASSUME NEW p \in Packet, NEW c
  PROVE  Count(<<p>>, c) = IF p.id = c THEN 1 ELSE 0
  <1>1. Of(<<p>>, c) = IF p.id = c THEN {1} ELSE {}
    <2>1. Len(<<p>>) = 1 /\ <<p>>[1] = p /\ 1 .. 1 = {1}
      OBVIOUS
    <2> QED
      BY <2>1 DEF Of
  <1> QED
    BY <1>1, FS_EmptySet, FS_Singleton DEF Count

-----------------------------------------------------------------------------
(* Arithmetic of the sequence numbers.                                     *)
LEMMA Modulo ==
  ASSUME NEW m \in Nat \ {0}, NEW r \in 0 .. m - 1, NEW k \in Int
  PROVE  (r + k * m) % m = r
  OBVIOUS

LEMMA ModuloIs ==
  ASSUME NEW a \in Int, NEW m \in Nat \ {0}
  PROVE  \E k \in Int : a % m = a + k * m /\ a % m \in 0 .. m - 1
  <1> DEFINE q == a \div m
  <1>1. q \in Int /\ a % m \in 0 .. m - 1
    OBVIOUS
  <1>2. a % m = a - q * m
    OBVIOUS
  <1> HIDE DEF q
  <1>3. a % m = a + (- q) * m /\ - q \in Int
    BY <1>1, <1>2
  <1> QED
    BY <1>1, <1>3

LEMMA SignedDifference ==
  ASSUME NEW x \in Int, NEW d \in Int, NEW k \in Int, x = d + k * MOD,
         - WINDOW <= d, d < WINDOW
  PROVE  Signed(x) = d
  <1>0. MOD \in Nat \ {0} /\ WINDOW \in Nat \ {0} /\ 2 * WINDOW <= MOD
    BY DimmerLinkAssumption
  <1>1. MOD \div 2 \in Nat /\ WINDOW <= MOD \div 2 /\ MOD \div 2 <= MOD - WINDOW
    BY <1>0
  <1>2. CASE d >= 0
    <2>1. d \in 0 .. MOD - 1
      BY <1>0, <1>2
    <2>2. x % MOD = d
      BY <1>0, <2>1, Modulo, (d + k * MOD) % MOD = d
    <2> QED
      <3>1. ~ (d >= MOD \div 2)
        BY <1>1, <1>0
      <3> QED
        BY <2>2, <3>1 DEF Signed
  <1>3. CASE d < 0
    <2>1. d + MOD \in 0 .. MOD - 1 /\ k - 1 \in Int
      BY <1>0, <1>3
    <2>2. x = (d + MOD) + (k - 1) * MOD
      BY <1>0
    <2>3. x % MOD = d + MOD
      BY <1>0, <2>1, <2>2, Modulo, ((d + MOD) + (k - 1) * MOD) % MOD = d + MOD
    <2>4. d + MOD >= MOD \div 2
      BY <1>0, <1>1
    <2> QED
      BY <1>0, <1>1, <2>3, <2>4 DEF Signed
  <1> QED
    BY <1>2, <1>3

-----------------------------------------------------------------------------
(* What the steps of the two tasks do.                                     *)
OnlyTask(t) == \A u \in Tasks \ {t} : task'[u] = task[u]

LEMMA OtherTask == Other("net") = "radio" /\ Other("radio") = "net"
  BY DEF Other, Tasks

LEMMA NoPacketType == NoPacket \in Packet
  BY DimmerLinkAssumption DEF NoPacket, Packet

LEMMA TaskChanges ==
  ASSUME Types, NEW t \in Tasks, NEW new \in TaskState, task' = [task EXCEPT ![t] = new]
  PROVE  task' \in [Tasks -> TaskState] /\ OnlyTask(t) /\ task'[t] = new
  BY DEF Types, OnlyTask

LEMMA EnterDoes ==
  ASSUME Types, NEW t \in Tasks, NEW pkg \in Packet, Enter(t, pkg)
  PROVE  /\ task' \in [Tasks -> TaskState] /\ OnlyTask(t)
         /\ task'[t].pc = "wait" /\ task'[t].since = now /\ task'[t].pkg = pkg
  <1> DEFINE new == [pc |-> "wait", since |-> now, pkg |-> pkg]
  <1>1. new \in TaskState /\ new.pc = "wait" /\ new.since = now /\ new.pkg = pkg
    BY DEF Types, TaskState
  <1>2. task' = [task EXCEPT ![t] = new]
    BY DEF Enter
  <1> HIDE DEF new
  <1> QED
    BY <1>1, <1>2, TaskChanges

LEMMA StampDoes ==
  ASSUME Types, NEW t \in Tasks, Stamp(t)
  PROVE  /\ task' \in [Tasks -> TaskState] /\ OnlyTask(t)
         /\ task[t].pc = "wait" /\ now > task[t].since /\ task'[t].pc = "stamped"
         /\ task'[t].pkg.cmd = task[t].pkg.cmd /\ task'[t].pkg.id = task[t].pkg.id
         /\ task'[t].pkg.born = now /\ task'[t].pkg.host = host
         /\ task'[t].pkg.seq = (sequence_seed + now - boot) % MOD
  <1> DEFINE old == task[t].pkg
             seq == (sequence_seed + now - boot) % MOD
             p   == [old EXCEPT !.seq = seq, !.born = now, !.host = host]
             new == [task[t] EXCEPT !.pc = "stamped", !.pkg = p]
  <1>1. task[t] \in TaskState /\ old \in Packet
    BY DEF Types, TaskState
  <1>2. seq \in Nat
    <2>1. MOD \in Nat \ {0} /\ sequence_seed + now - boot \in Int
      BY DimmerLinkAssumption DEF Types
    <2> QED
      BY <2>1, ModuloIs
  <1>3. task' = [task EXCEPT ![t] = new] /\ task[t].pc = "wait" /\ now > task[t].since
    BY DEF Stamp
  <1> HIDE DEF seq
  <1>4. p \in Packet
    BY <1>1, <1>2 DEF Packet, Types
  <1>5. p.cmd = old.cmd /\ p.id = old.id /\ p.born = now /\ p.host = host /\ p.seq = seq
    BY <1>1 DEF Packet
  <1> HIDE DEF p
  <1>6. new \in TaskState /\ new.pc = "stamped" /\ new.pkg = p
    BY <1>1, <1>4 DEF TaskState
  <1> HIDE DEF new
  <1>7. task'[t] = new /\ OnlyTask(t) /\ task' \in [Tasks -> TaskState]
    BY <1>3, <1>6, TaskChanges
  <1> QED
    BY <1>3, <1>5, <1>6, <1>7 DEF seq

LEMMA UploadDoes ==
  ASSUME Types, NEW t \in Tasks, Upload(t)
  PROVE  /\ task' \in [Tasks -> TaskState] /\ OnlyTask(t)
         /\ task[t].pc = "stamped" /\ task'[t].pc = "sent" /\ task'[t].pkg = task[t].pkg
         /\ task[t].pkg \in Packet
         /\ \/ txfifo' = txfifo /\ missed' = missed + Tries(<<task[t].pkg>>)
            \/ txfifo' = Append(txfifo, task[t].pkg) /\ missed' = missed
  <1> DEFINE new == [task[t] EXCEPT !.pc = "sent", !.since = now]
  <1>1. task[t] \in TaskState /\ task[t].pkg \in Packet /\ txfifo \in Seq(Packet)
        /\ missed \in Nat
    BY DEF Types, TaskState
  <1>2. new \in TaskState /\ new.pc = "sent" /\ new.pkg = task[t].pkg
    BY <1>1 DEF Types, TaskState
  <1>3. task' = [task EXCEPT ![t] = new]
    BY <1>1 DEF Upload
  <1> HIDE DEF new
  <1>4. task'[t] = new /\ OnlyTask(t) /\ task' \in [Tasks -> TaskState]
    BY <1>2, <1>3, TaskChanges
  <1>5. /\ txfifo' = Uploaded(task[t].pkg)
        /\ missed' = missed + IF Uploaded(task[t].pkg) = txfifo THEN Tries(<<task[t].pkg>>) ELSE 0
    BY DEF Upload
  <1>6. Append(txfifo, task[t].pkg) # txfifo
    BY <1>1
  <1> QED
    BY <1>1, <1>2, <1>4, <1>5, <1>6 DEF Uploaded, Upload

LEMMA TransmittedDoes ==
  ASSUME Types, NEW t \in Tasks, Transmitted(t)
  PROVE  /\ task' \in [Tasks -> TaskState] /\ OnlyTask(t)
         /\ task[t].pc = "sent" /\ task'[t].pc = "idle"
  <1> DEFINE new == [pc |-> "idle", since |-> 0, pkg |-> NoPacket]
  <1>1. new \in TaskState /\ new.pc = "idle"
    BY NoPacketType DEF TaskState
  <1>2. task' = [task EXCEPT ![t] = new]
    BY DEF Transmitted
  <1> HIDE DEF new
  <1> QED
    BY <1>1, <1>2, TaskChanges DEF Transmitted

LEMMA RestartDoes ==
  ASSUME McuRestart
  PROVE  task' \in [Tasks -> TaskState] /\ \A t \in Tasks : task'[t].pc = "idle"
  BY NoPacketType DEF McuRestart, TaskState

LEMMA PlainIs ==
  ASSUME Types, command # "none"
  PROVE  Plain \in Packet /\ Plain.cmd = command /\ Plain.id = commands
  BY DimmerLinkAssumption DEF Plain, NoPacket, Packet, Types

LEMMA JamDoes ==
  ASSUME Types, Jam
  PROVE  /\ task' \in [Tasks -> TaskState] /\ OnlyTask("radio")
         /\ task["radio"].pc = "idle" /\ sequence_seed # 0
         /\ task'["radio"].pc = "wait" /\ task'["radio"].since = now
         /\ task'["radio"].pkg.cmd = "values" /\ task'["radio"].pkg.id = 0
  <1> DEFINE p == [NoPacket EXCEPT !.cmd = "values"]
  <1>1. p \in Packet /\ p.cmd = "values" /\ p.id = 0 /\ "radio" \in Tasks
    BY DimmerLinkAssumption DEF NoPacket, Packet, Tasks
  <1>2. Enter("radio", p)
    BY DEF Jam
  <1> HIDE DEF p
  <1> QED
    BY <1>1, <1>2, EnterDoes DEF Jam

(* A try of the network task without a seed, and with one.                 *)
LEMMA TryDoes ==
  ASSUME Types, TrySend
  PROVE  /\ command # "none" /\ task["net"].pc = "idle" /\ try < TX_COMMAND_RETRIES
         /\ \/ /\ sequence_seed = 0 /\ task' = task /\ try' = try + 1 /\ missed' = missed + 1
               /\ collided' = collided
            \/ /\ sequence_seed # 0 /\ task' \in [Tasks -> TaskState] /\ OnlyTask("net")
               /\ task'["net"].pc = "wait" /\ task'["net"].since = now
               /\ task'["net"].pkg.cmd = command /\ task'["net"].pkg.id = commands
               /\ try' = try /\ missed' = missed
               /\ collided' = (collided \/ task["radio"].pc # "idle")
  <1>1. "net" \in Tasks /\ command # "none"
    BY DEF Tasks, TrySend
  <1>2. CASE sequence_seed = 0
    BY <1>2 DEF TrySend
  <1>3. CASE sequence_seed # 0
    <2> DEFINE p == Plain
    <2>1. p \in Packet /\ p.cmd = command /\ p.id = commands
      BY <1>1, PlainIs
    <2>2. Enter("net", p) /\ try' = try /\ missed' = missed
      BY <1>3 DEF TrySend
    <2>3. collided' = (collided \/ task["radio"].pc # "idle")
      BY <2>2, OtherTask DEF Enter
    <2> HIDE DEF p
    <2>4. /\ task' \in [Tasks -> TaskState] /\ OnlyTask("net")
          /\ task'["net"].pc = "wait" /\ task'["net"].since = now /\ task'["net"].pkg = p
      BY <1>1, <2>1, <2>2, EnterDoes
    <2> QED
      BY <1>3, <2>1, <2>2, <2>3, <2>4 DEF TrySend
  <1> QED
    BY <1>2, <1>3

-----------------------------------------------------------------------------
LEMMA TriesType ==
  ASSUME NEW s \in Seq(Packet)
  PROVE  Tries(s) \in Nat
  BY CountType, TriesCount

LEMMA PacketsTypes ==
  ASSUME Types
  PROVE  /\ rxfifo # <<>> => Head(rxfifo) \in Packet /\ <<Head(rxfifo)>> \in Seq(Packet)
                             /\ Tail(rxfifo) \in Seq(Packet)
         /\ txfifo # <<>> => Head(txfifo) \in Packet /\ <<Head(txfifo)>> \in Seq(Packet)
                             /\ Tail(txfifo) \in Seq(Packet)
         /\ \A t \in Tasks : task[t].pkg \in Packet /\ <<task[t].pkg>> \in Seq(Packet)
         /\ Tries(txfifo) \in Nat /\ Tries(rxfifo) \in Nat
         /\ <<>> \in Seq(Packet) /\ Tries(<<>>) = 0
  <1>1. <<>> \in Seq(Packet) /\ \A i \in 1 .. Len(<<>>) : <<>>[i].id # commands
    OBVIOUS
  <1>2. Tries(<<>>) = 0
    BY <1>1, CountNone, TriesCount
  <1> QED
    BY <1>1, <1>2, TriesType DEF Types, TaskState

LEMMA TaskTypes ==
  ASSUME Types, [Next]_vars
  PROVE  task' \in [Tasks -> TaskState]
  <1>0. task \in [Tasks -> TaskState]
    BY DEF Types
  <1>1. CASE \E t \in Tasks : Stamp(t) \/ Upload(t) \/ Transmitted(t)
    BY <1>1, StampDoes, UploadDoes, TransmittedDoes
  <1>2. CASE TrySend
    BY <1>0, <1>2, TryDoes
  <1>3. CASE Jam
    BY <1>3, JamDoes
  <1>4. CASE McuRestart
    BY <1>4, RestartDoes
  <1>5. CASE task' = task
    BY <1>0, <1>5
  <1>6. CASE ~ (\E t \in Tasks : Stamp(t) \/ Upload(t) \/ Transmitted(t))
             /\ ~ TrySend /\ ~ Jam /\ ~ McuRestart
    <2>1. task' = task
      BY <1>6 DEF Next, Frame, Call, Return, FlushTX, Lose, Deliver, Refuse, Execute, DimmerBoots,
         DimmerPowerLoss, Tick, vars, mcu
    <2> QED
      BY <1>0, <2>1
  <1> QED
    BY <1>1, <1>2, <1>3, <1>4, <1>6

LEMMA FifoTypes ==
  ASSUME Types, [Next]_vars
  PROVE  (txfifo \in Seq(Packet) /\ rxfifo \in Seq(Packet) /\ last \in Packet /\ missed \in Nat)'
  <1> USE DEF mcu, chip, dimmer, seen, history
  <1>0. /\ txfifo \in Seq(Packet) /\ rxfifo \in Seq(Packet) /\ last \in Packet /\ missed \in Nat
        /\ TX_COMMAND_RETRIES \in Nat
    BY DimmerLinkAssumption DEF Types
  <1>1. CASE \E t \in Tasks : Upload(t)
    <2>1. PICK t \in Tasks : Upload(t)
      BY <1>1
    <2>2. task[t].pkg \in Packet /\ Tries(<<task[t].pkg>>) \in Nat
      BY PacketsTypes, TriesType
    <2>3. rxfifo' = rxfifo /\ last' = last
      BY <2>1 DEF Upload
    <2>4. \/ txfifo' = txfifo /\ missed' = missed + Tries(<<task[t].pkg>>)
          \/ txfifo' = Append(txfifo, task[t].pkg) /\ missed' = missed
      BY <2>1, UploadDoes
    <2>5. CASE txfifo' = txfifo /\ missed' = missed + Tries(<<task[t].pkg>>)
      BY <1>0, <2>2, <2>3, <2>5
    <2>6. CASE txfifo' = Append(txfifo, task[t].pkg) /\ missed' = missed
      BY <1>0, <2>2, <2>3, <2>6
    <2> QED
      BY <2>4, <2>5, <2>6
  <1>2. CASE FlushTX
    BY <1>0, <1>2, PacketsTypes DEF FlushTX
  <1>3. CASE McuRestart
    BY <1>0, <1>3, PacketsTypes DEF McuRestart
  <1>4. CASE Lose
    <2>1. txfifo # <<>> /\ Tries(<<Head(txfifo)>>) \in Nat
      BY <1>4, PacketsTypes, TriesType DEF Lose, OnAir
    <2> QED
      BY <1>0, <1>4, <2>1, PacketsTypes DEF Lose
  <1>5. CASE Deliver
    <2>1. txfifo # <<>>
      BY <1>5 DEF Deliver, OnAir
    <2> QED
      BY <1>0, <1>5, <2>1, PacketsTypes DEF Deliver
  <1>6. CASE Refuse
    <2>1. rxfifo # <<>> /\ Tries(<<Head(rxfifo)>>) \in Nat
      BY <1>6, PacketsTypes, TriesType DEF Refuse, CanRefuse
    <2> DEFINE p == Head(rxfifo)
               k == IF p.cmd # "garbage" /\ (~ Addressed(p) \/ OutOfReach(p)) THEN Tries(<<p>>) ELSE 0
    <2>2. k \in Nat
      BY <2>1
    <2>3. /\ rxfifo' = Tail(rxfifo) /\ missed' = missed + k
          /\ UNCHANGED <<txfifo, last>>
      BY <1>6 DEF Refuse
    <2> HIDE DEF k
    <2> QED
      BY <1>0, <2>1, <2>2, <2>3, PacketsTypes
  <1>7. CASE Execute
    <2>1. rxfifo # <<>>
      BY <1>7 DEF Execute, CanExecute
    <2> QED
      BY <1>0, <1>7, <2>1, PacketsTypes DEF Execute
  <1>8. CASE DimmerBoots
    BY <1>0, <1>8, PacketsTypes DEF DimmerBoots, Forgotten, FifoAtBoot
  <1>9. CASE Call(command') \/ TrySend
    BY <1>0, <1>9, TryDoes DEF Call, TrySend
  <1>10. CASE ~ (\E t \in Tasks : Upload(t)) /\ ~ FlushTX /\ ~ McuRestart /\ ~ Lose /\ ~ Deliver
              /\ ~ Refuse /\ ~ Execute /\ ~ DimmerBoots /\ ~ (Call(command') \/ TrySend)
    <2>1. txfifo' = txfifo /\ rxfifo' = rxfifo /\ last' = last /\ missed' = missed
      BY Zenon, <1>10 DEF Next, Frame, Stamp, Transmitted, Call, Return, Jam, DimmerPowerLoss, Tick, vars
    <2> QED
      BY <1>0, <2>1
  <1> QED
    BY <1>1, <1>2, <1>3, <1>4, <1>5, <1>6, <1>7, <1>8, <1>9, <1>10

LEMMA OtherTypes ==
  ASSUME Types, [Next]_vars
  PROVE (/\ now \in Nat /\ host \in Nat /\ boot \in Nat /\ sequence_seed \in Nat
          /\ command \in Command \cup {"none"} /\ try \in Nat
          /\ last_sequence \in Nat
          /\ commands \in 0 .. MaxCommands
          /\ resets \in [1 .. MaxCommands -> Nat])'
  <1> USE DEF mcu, chip, dimmer, seen, history
  <1>0. /\ now \in Nat /\ host \in Nat /\ boot \in Nat /\ sequence_seed \in Nat
        /\ command \in Command \cup {"none"} /\ try \in Nat
        /\ last_sequence \in Nat
        /\ commands \in 0 .. MaxCommands
        /\ resets \in [1 .. MaxCommands -> Nat] /\ MaxCommands \in Nat
    BY DimmerLinkAssumption DEF Types
  <1>1. CASE \E h \in HostClock : Frame(h)
    <2>1. PICK h \in HostClock : Frame(h)
      BY <1>1
    <2>2. MOD \in Nat \ {0} /\ h \in Nat
      BY DimmerLinkAssumption
    <2>3. h + now - (now - boot) \in Int
      BY <1>0, <2>2
    <2>4. (h + now - (now - boot)) % MOD \in Nat
      BY <2>2, <2>3, ModuloIs
    <2> QED
      BY <1>0, <2>1, <2>2, <2>4 DEF Frame
  <1>2. CASE \E t \in Tasks : Stamp(t) \/ Upload(t) \/ Transmitted(t)
    BY <1>0, <1>2 DEF Stamp, Upload, Transmitted
  <1>3. CASE \E c \in Command : Call(c)
    <2>1. PICK c \in Command : Call(c)
      BY <1>3
    <2>2. commands' \in 0 .. MaxCommands
      BY <1>0, <2>1 DEF Call
    <2> QED
      BY <1>0, <2>1, <2>2 DEF Call
  <1>4. CASE TrySend
    <2>1. try' \in Nat
      BY <1>0, <1>4, TryDoes
    <2> QED
      BY <1>0, <1>4, <2>1 DEF TrySend
  <1>5. CASE Jam
    BY <1>0, <1>5 DEF Jam
  <1>6. CASE Execute
    <2>1. Head(rxfifo) \in Packet
      BY <1>6, PacketsTypes DEF Execute, CanExecute
    <2>2. resets' \in [1 .. MaxCommands -> Nat]
      <3> DEFINE c == Head(rxfifo).id
      <3>1. resets' = resets \/ resets' = [resets EXCEPT ![c] = resets[c] + 1]
        BY <1>6 DEF Execute
      <3> HIDE DEF c
      <3> QED
        BY <1>0, <3>1
    <2>3. last_sequence' \in Nat
      BY <1>6, <2>1 DEF Execute, Packet
    <2> QED
      BY <1>0, <1>6, <2>2, <2>3 DEF Execute
  <1>7. CASE McuRestart
    BY <1>0, <1>7 DEF McuRestart
  <1>8. CASE DimmerBoots \/ DimmerPowerLoss
    <2>1. /\ UNCHANGED <<now, host, boot, sequence_seed, command, try, commands, resets>>
          /\ last_sequence' \in Nat
      BY <1>0, <1>8 DEF DimmerBoots, DimmerPowerLoss
    <2> QED
      BY <1>0, <2>1
  <1>9. CASE Return \/ Tick
    BY SMTT(30), <1>0, <1>9 DEF Return, Tick
  <1>10. CASE FlushTX \/ Lose
    BY <1>0, <1>10 DEF FlushTX, Lose
  <1>11. CASE Deliver \/ Refuse
    BY <1>0, <1>11 DEF Deliver, Refuse
  <1>12. CASE UNCHANGED vars
    BY <1>0, <1>12 DEF vars
  <1> QED
    BY <1>1, <1>2, <1>3, <1>4, <1>5, <1>6, <1>7, <1>8, <1>9, <1>10, <1>11, <1>12 DEF Next

LEMMA TypesStep ==
  ASSUME Types, [Next]_vars
  PROVE  Types'
  BY TaskTypes, FifoTypes, OtherTypes DEF Types

-----------------------------------------------------------------------------
(* Where the packets in the FIFOs come from.                               *)
LEMMA TailOf ==
  ASSUME NEW s \in Seq(Packet), s # <<>>
  PROVE  /\ Len(Tail(s)) = Len(s) - 1 /\ Len(s) \in Nat \ {0} /\ Head(s) = s[1]
         /\ \A i \in 1 .. Len(Tail(s)) : i + 1 \in 1 .. Len(s) /\ Tail(s)[i] = s[i + 1]
  OBVIOUS

LEMMA AppendOf ==
  ASSUME NEW s \in Seq(Packet), NEW p \in Packet
  PROVE  /\ Len(Append(s, p)) = Len(s) + 1 /\ Append(s, p)[Len(s) + 1] = p
         /\ \A i \in 1 .. Len(s) : Append(s, p)[i] = s[i]
  OBVIOUS

LEMMA TxFlow ==
  ASSUME Types, [Next]_vars
  PROVE  \/ txfifo' = txfifo
         \/ (Lose \/ Deliver) /\ txfifo # <<>> /\ txfifo' = Tail(txfifo)
         \/ (FlushTX \/ McuRestart) /\ txfifo' = <<>>
         \/ \E t \in Tasks : Upload(t) /\ txfifo' = Append(txfifo, task[t].pkg)
  <1>1. CASE \E t \in Tasks : Upload(t)
    BY <1>1, UploadDoes
  <1>2. CASE ~ \E t \in Tasks : Upload(t)
    BY Zenon, <1>2 DEF Next, Frame, Stamp, Transmitted, Call, TrySend, Return, FlushTX, Jam, McuRestart,
       Lose, Deliver, OnAir, Refuse, Execute, DimmerBoots, DimmerPowerLoss, Tick, vars, chip
  <1> QED
    BY <1>1, <1>2

LEMMA RxFlow ==
  ASSUME Types, [Next]_vars
  PROVE  \/ rxfifo' = rxfifo
         \/ Deliver /\ txfifo # <<>> /\ rxfifo' = Append(rxfifo, Head(txfifo))
         \/ (Refuse \/ Execute) /\ rxfifo # <<>> /\ rxfifo' = Tail(rxfifo)
         \/ DimmerBoots /\ rxfifo' = <<>>
  <1>1. CASE Deliver
    BY <1>1 DEF Deliver, OnAir
  <1>2. CASE Refuse \/ Execute
    BY <1>2 DEF Refuse, CanRefuse, Execute, CanExecute
  <1>3. CASE DimmerBoots
    BY <1>3 DEF DimmerBoots, FifoAtBoot
  <1>4. CASE ~ Deliver /\ ~ Refuse /\ ~ Execute /\ ~ DimmerBoots
    BY Zenon, <1>4 DEF Next, Frame, Stamp, Upload, Transmitted, Call, TrySend, Return, FlushTX, Jam,
       McuRestart, Lose, DimmerPowerLoss, Tick, vars, dimmer
  <1> QED
    BY <1>1, <1>2, <1>3, <1>4

LEMMA Sources ==
  ASSUME Types, [Next]_vars
  PROVE  /\ \A i \in InTx' : \/ \E k \in InTx : txfifo'[i] = txfifo[k]
                             \/ \E t \in Stamped : Upload(t) /\ txfifo'[i] = task[t].pkg
         /\ \A i \in InRx' : \/ \E k \in InRx : rxfifo'[i] = rxfifo[k]
                             \/ \E k \in InTx : rxfifo'[i] = txfifo[k]
  <1> USE DEF InTx, InRx
  <1>0. txfifo \in Seq(Packet) /\ rxfifo \in Seq(Packet)
    BY DEF Types
  <1>1. ASSUME NEW i \in InTx'
        PROVE  \/ \E k \in InTx : txfifo'[i] = txfifo[k]
               \/ \E t \in Stamped : Upload(t) /\ txfifo'[i] = task[t].pkg
    <2>1. CASE txfifo' = txfifo
      BY <1>1, <2>1
    <2>2. CASE txfifo # <<>> /\ txfifo' = Tail(txfifo)
      BY <1>0, <1>1, <2>2, TailOf
    <2>3. CASE txfifo' = <<>>
      BY <1>1, <2>3
    <2>4. CASE \E t \in Tasks : Upload(t) /\ txfifo' = Append(txfifo, task[t].pkg)
      <3>1. PICK t \in Tasks : Upload(t) /\ txfifo' = Append(txfifo, task[t].pkg)
        BY <2>4
      <3>2. task[t].pkg \in Packet /\ t \in Stamped
        BY <3>1, UploadDoes DEF Stamped
      <3>3. i \in 1 .. Len(txfifo) \/ i = Len(txfifo) + 1
        BY <1>0, <1>1, <3>1, <3>2, AppendOf
      <3> QED
        BY <1>0, <3>1, <3>2, <3>3, AppendOf
    <2> QED
      BY <2>1, <2>2, <2>3, <2>4, TxFlow
  <1>2. ASSUME NEW i \in InRx'
        PROVE  \/ \E k \in InRx : rxfifo'[i] = rxfifo[k]
               \/ \E k \in InTx : rxfifo'[i] = txfifo[k]
    <2>1. CASE rxfifo' = rxfifo
      BY <1>2, <2>1
    <2>2. CASE rxfifo # <<>> /\ rxfifo' = Tail(rxfifo)
      BY <1>0, <1>2, <2>2, TailOf
    <2>3. CASE rxfifo' = <<>>
      BY <1>2, <2>3
    <2>4. CASE txfifo # <<>> /\ rxfifo' = Append(rxfifo, Head(txfifo))
      <3>1. Head(txfifo) \in Packet /\ Head(txfifo) = txfifo[1] /\ 1 \in InTx
        BY <1>0, <2>4
      <3>2. i \in 1 .. Len(rxfifo) \/ i = Len(rxfifo) + 1
        BY <1>0, <1>2, <2>4, <3>1, AppendOf
      <3> QED
        BY <1>0, <2>4, <3>1, <3>2, AppendOf
    <2> QED
      BY <2>1, <2>2, <2>3, <2>4, RxFlow
  <1> QED
    BY <1>1, <1>2

-----------------------------------------------------------------------------
(* The clocks.                                                             *)
LEMMA SeedStep ==
  ASSUME Types, Clocks, [Next]_vars
  PROVE  /\ sequence_seed' # 0 => \E k \in Int : sequence_seed' = host' + boot' + k * MOD
         /\ \A t \in Tasks : task'[t].pc = "wait" => sequence_seed' # 0
  <1> USE DEF mcu, chip, dimmer, seen, history
  <1>0. /\ MOD \in Nat \ {0} /\ now \in Nat /\ boot \in Nat /\ host \in Nat
        /\ HostClock \subseteq Nat
    BY DimmerLinkAssumption DEF Types
  <1>1. ASSUME sequence_seed' = sequence_seed, host' = host, boot' = boot,
               \A t \in Tasks : task'[t].pc = "wait" => task[t].pc = "wait" \/ sequence_seed # 0
        PROVE  /\ sequence_seed' # 0 => \E k \in Int : sequence_seed' = host' + boot' + k * MOD
               /\ \A t \in Tasks : task'[t].pc = "wait" => sequence_seed' # 0
    BY <1>1 DEF Clocks
  <1>2. CASE \E h \in HostClock : Frame(h)
    <2>1. PICK h \in HostClock : Frame(h)
      BY <1>2
    <2>2. h \in Nat /\ h + now - (now - boot) \in Int /\ h + now - (now - boot) = h + boot
      BY <1>0
    <2>3. \E k \in Int : sequence_seed' = host' + boot' + k * MOD
      BY <1>0, <2>1, <2>2, ModuloIs DEF Frame
    <2>4. \A t \in Tasks : task'[t].pc # "wait"
      BY <2>1 DEF Frame, Clocks
    <2> QED
      BY <2>3, <2>4
  <1>3. CASE McuRestart
    BY <1>3, RestartDoes DEF McuRestart
  <1>4. CASE \E t \in Tasks : Stamp(t) \/ Upload(t) \/ Transmitted(t)
    <2>1. PICK t \in Tasks : Stamp(t) \/ Upload(t) \/ Transmitted(t)
      BY <1>4
    <2>2. sequence_seed' = sequence_seed /\ host' = host /\ boot' = boot
      BY <2>1 DEF Stamp, Upload, Transmitted
    <2>3. task'[t].pc # "wait" /\ OnlyTask(t)
      BY <2>1, StampDoes, UploadDoes, TransmittedDoes
    <2> QED
      BY <1>1, <2>2, <2>3 DEF OnlyTask
  <1>5. CASE TrySend
    <2>1. sequence_seed' = sequence_seed /\ host' = host /\ boot' = boot
      BY <1>5 DEF TrySend
    <2> QED
      BY <1>1, <1>5, <2>1, TryDoes DEF OnlyTask
  <1>6. CASE Jam
    <2>1. sequence_seed' = sequence_seed /\ host' = host /\ boot' = boot
      BY <1>6 DEF Jam
    <2> QED
      BY <1>1, <1>6, <2>1, JamDoes DEF OnlyTask
  <1>7. CASE ~ (\E h \in HostClock : Frame(h)) /\ ~ McuRestart /\ ~ TrySend /\ ~ Jam
             /\ ~ \E t \in Tasks : Stamp(t) \/ Upload(t) \/ Transmitted(t)
    <2>1. sequence_seed' = sequence_seed /\ host' = host /\ boot' = boot /\ task' = task
      BY <1>7 DEF Next, Call, Return, FlushTX, Lose, Deliver, Refuse, Execute, DimmerBoots,
         DimmerPowerLoss, Tick, vars
    <2> QED
      BY <1>1, <2>1
  <1> QED
    BY <1>2, <1>3, <1>4, <1>5, <1>6, <1>7

(* A packet that is stamped or not yet has been in the same task before.   *)
LEMMA StampedBefore ==
  ASSUME Types, [Next]_vars, NEW t \in Tasks, task'[t].pc = "stamped"
  PROVE  \/ Stamp(t)
         \/ task[t].pc = "stamped" /\ task'[t].pkg = task[t].pkg /\ task'[t].since = task[t].since
  <1>1. CASE \E u \in Tasks : Stamp(u) \/ Upload(u) \/ Transmitted(u)
    <2>1. PICK u \in Tasks : Stamp(u) \/ Upload(u) \/ Transmitted(u)
      BY <1>1
    <2>2. CASE u = t
      BY <2>1, <2>2, UploadDoes, TransmittedDoes
    <2>3. CASE u # t
      <3>1. task'[t] = task[t]
        BY <2>1, <2>3, StampDoes, UploadDoes, TransmittedDoes DEF OnlyTask
      <3> QED
        BY <3>1
    <2> QED
      BY <2>2, <2>3
  <1>2. CASE TrySend
    BY <1>2, TryDoes DEF OnlyTask
  <1>3. CASE Jam
    BY <1>3, JamDoes DEF OnlyTask
  <1>4. CASE McuRestart
    BY <1>4, RestartDoes
  <1>5. CASE ~ (\E u \in Tasks : Stamp(u) \/ Upload(u) \/ Transmitted(u))
             /\ ~ TrySend /\ ~ Jam /\ ~ McuRestart
    <2>1. task' = task
      BY <1>5 DEF Next, Frame, Call, Return, FlushTX, Lose, Deliver, Refuse, Execute, DimmerBoots,
         DimmerPowerLoss, Tick, vars, mcu
    <2> QED
      BY <2>1
  <1> QED
    BY <1>1, <1>2, <1>3, <1>4, <1>5

(* What the dimmer takes last.                                             *)
LEMMA LastIs ==
  ASSUME Types, [Next]_vars
  PROVE  \/ /\ Execute /\ rxfifo # <<>> /\ last' = rxfifo[1] /\ 1 \in InRx
            /\ last_sequence' = rxfifo[1].seq /\ rxfifo[1] \in Packet
         \/ last' = last /\ last_sequence' \in {0, last_sequence}
  <1>1. CASE Execute
    <2>1. rxfifo # <<>> /\ rxfifo \in Seq(Packet)
      BY <1>1 DEF Execute, CanExecute, Types
    <2>2. Head(rxfifo) = rxfifo[1] /\ 1 \in InRx /\ rxfifo[1] \in Packet
      BY <2>1 DEF InRx
    <2> QED
      BY <1>1, <2>1, <2>2 DEF Execute
  <1>2. CASE ~ Execute
    BY Zenon, <1>2 DEF Next, Frame, Stamp, Upload, Transmitted, Call, TrySend, Return, FlushTX, Jam,
       McuRestart, Lose, Deliver, Refuse, DimmerBoots, DimmerPowerLoss, Tick, vars, dimmer, seen,
       history
  <1> QED
    BY <1>1, <1>2

LEMMA ClocksStep ==
  ASSUME Types, Clocks, [Next]_vars
  PROVE  Clocks'
  <1>1. ASSUME NEW t \in Tasks, task'[t].pc = "stamped"
        PROVE  OnClock(task'[t].pkg)
    <2>1. CASE Stamp(t)
      <3>1. /\ sequence_seed # 0
            /\ task'[t].pkg.seq = (sequence_seed + now - boot) % MOD
            /\ task'[t].pkg.born = now /\ task'[t].pkg.host = host
        BY <2>1, StampDoes DEF Clocks
      <3>2. /\ MOD \in Nat \ {0} /\ now \in Nat /\ boot \in Nat /\ host \in Nat
            /\ sequence_seed \in Nat
        BY DimmerLinkAssumption DEF Types
      <3>3. PICK k \in Int : sequence_seed = host + boot + k * MOD
        BY <3>1 DEF Clocks
      <3> DEFINE a == sequence_seed + now - boot
      <3>4. a \in Int
        BY <3>2
      <3>5. PICK q \in Int : a % MOD = a + q * MOD
        BY <3>2, <3>4, ModuloIs
      <3>6. a % MOD = host + now + (k + q) * MOD /\ k + q \in Int
        BY <3>2, <3>3, <3>5
      <3> QED
        BY <3>1, <3>6 DEF OnClock
    <2>2. CASE task[t].pc = "stamped" /\ task'[t].pkg = task[t].pkg
      BY <2>2 DEF Clocks, Stamped
    <2> QED
      BY <1>1, <2>1, <2>2, StampedBefore
  <1>2. \A i \in InTx' : OnClock(txfifo'[i])
    BY Sources DEF Clocks
  <1>3. \A i \in InRx' : OnClock(rxfifo'[i])
    BY Sources DEF Clocks
  <1>4. last_sequence' # 0 => last_sequence' = last'.seq /\ OnClock(last')
    BY LastIs DEF Clocks
  <1> QED
    BY <1>1, <1>2, <1>3, <1>4, SeedStep DEF Clocks, Stamped, OnClock

-----------------------------------------------------------------------------
(* The delays.                                                             *)
LEMMA TimeStep ==
  ASSUME Types, [Next]_vars
  PROVE  \/ now' = now
         \/ /\ now' = now + 1 /\ txfifo' = txfifo /\ rxfifo' = rxfifo /\ task' = task /\ last' = last
            /\ \A i \in InTx : now - txfifo[i].born < MaxDelay
            /\ \A t \in Stamped : now - task[t].pkg.born < MaxDelay
  <1>1. CASE Tick
    <2>1. /\ now' = now + 1 /\ txfifo' = txfifo /\ rxfifo' = rxfifo /\ task' = task /\ last' = last
          /\ \A p \in Numbered : now - p.born < MaxDelay
      BY <1>1 DEF Tick, mcu, chip, dimmer, seen, history
    <2>2. /\ \A i \in InTx : txfifo[i] \in Numbered
          /\ \A t \in Stamped : task[t].pkg \in Numbered
      BY SMTT(30) DEF Numbered, InTx, Stamped
    <2> QED
      BY <2>1, <2>2
  <1>2. CASE ~ Tick
    BY Zenon, <1>2 DEF Next, Frame, Stamp, Upload, Transmitted, Call, TrySend, Return, FlushTX, Jam,
       McuRestart, Lose, Deliver, Refuse, Execute, DimmerBoots, DimmerPowerLoss, vars
  <1> QED
    BY <1>1, <1>2

LEMMA BornTypes ==
  ASSUME Types
  PROVE  /\ MaxDelay \in Nat \ {0} /\ now \in Nat /\ last.born \in Nat
         /\ \A i \in InTx : txfifo[i] \in Packet /\ txfifo[i].born \in Nat
         /\ \A i \in InRx : rxfifo[i] \in Packet /\ rxfifo[i].born \in Nat
         /\ \A t \in Tasks : task[t].pkg.born \in Nat /\ task[t].since \in Nat
  <1>1. /\ \A i \in InTx : txfifo[i] \in Packet
        /\ \A i \in InRx : rxfifo[i] \in Packet
        /\ \A t \in Tasks : task[t].pkg \in Packet /\ task[t].since \in Nat
    BY DEF Types, InTx, InRx, TaskState
  <1> QED
    BY <1>1, DimmerLinkAssumption DEF Types, Packet

LEMMA DelaysStep ==
  ASSUME Types, Delays, [Next]_vars
  PROVE  Delays'
  <1> USE DEF InRx
  <1>0. /\ Types' /\ rxfifo \in Seq(Packet) /\ txfifo \in Seq(Packet)
    BY TypesStep DEF Types
  <1>1. CASE now' = now + 1 /\ txfifo' = txfifo /\ rxfifo' = rxfifo /\ task' = task /\ last' = last
             /\ (\A i \in InTx : now - txfifo[i].born < MaxDelay)
             /\ \A t \in Stamped : now - task[t].pkg.born < MaxDelay
    BY SMTT(30), <1>1, BornTypes DEF Delays, InTime, InTx, Stamped
  <1>2. CASE now' = now
    <2>1. ASSUME NEW t \in Tasks, task'[t].pc = "stamped"
          PROVE  task'[t].pkg.born <= now' /\ now' <= task'[t].pkg.born + MaxDelay
      <3>1. CASE Stamp(t)
        BY <1>2, <3>1, StampDoes, BornTypes DEF InTime
      <3>2. CASE task[t].pc = "stamped" /\ task'[t].pkg = task[t].pkg
        BY <1>2, <3>2 DEF Delays, Stamped, InTime
      <3> QED
        BY <2>1, <3>1, <3>2, StampedBefore
    <2>2. ASSUME NEW i \in InTx'
          PROVE  txfifo'[i].born <= now' /\ now' <= txfifo'[i].born + MaxDelay
      <3>1. \/ \E k \in InTx : txfifo'[i] = txfifo[k]
            \/ \E t \in Stamped : txfifo'[i] = task[t].pkg
        BY Sources
      <3> QED
        BY <1>2, <3>1 DEF Delays, InTime
    <2>3. ASSUME last'.born <= now', NEW R \in Seq(Packet), R = rxfifo', last' = last,
                 R = rxfifo \/ (txfifo # <<>> /\ R = Append(rxfifo, Head(txfifo))) \/ R = <<>>
          PROVE  \A i \in 1 .. Len(R) :
                   /\ R[i].born <= now' /\ last'.born - R[i].born <= MaxDelay
                   /\ \A j \in 1 .. Len(R) : i < j => R[i].born - R[j].born <= MaxDelay
      <3>1. CASE R = rxfifo
        BY <1>2, <2>3, <3>1 DEF Delays
      <3>2. CASE R = <<>>
        BY <3>2
      <3>3. CASE txfifo # <<>> /\ R = Append(rxfifo, Head(txfifo))
        <4>1. Head(txfifo) = txfifo[1] /\ 1 \in InTx /\ Head(txfifo) \in Packet
          BY <1>0, <3>3 DEF InTx
        <4>2. InTime(Head(txfifo))
          BY <4>1 DEF Delays
        <4> DEFINE n == Len(rxfifo)
        <4>3. /\ n \in Nat /\ Len(R) = n + 1 /\ R[n + 1] = Head(txfifo)
              /\ \A i \in 1 .. n : R[i] = rxfifo[i]
          BY <1>0, <3>3, <4>1, AppendOf
        <4>4. /\ \A i \in 1 .. n : /\ rxfifo[i].born \in Nat /\ rxfifo[i].born <= now
                                   /\ last.born - rxfifo[i].born <= MaxDelay
              /\ \A i, j \in 1 .. n : i < j => rxfifo[i].born - rxfifo[j].born <= MaxDelay
          BY BornTypes DEF Delays
        <4>5. /\ Head(txfifo).born \in Nat /\ Head(txfifo).born <= now
              /\ now <= Head(txfifo).born + MaxDelay /\ last.born <= now /\ last.born \in Nat
              /\ now \in Nat /\ MaxDelay \in Nat
          BY <4>1, <4>2, BornTypes DEF InTime, Delays
        <4> HIDE DEF n
        <4>6. ASSUME NEW i \in 1 .. n + 1
              PROVE  /\ R[i].born <= now' /\ last'.born - R[i].born <= MaxDelay
                     /\ \A j \in 1 .. n + 1 : i < j => R[i].born - R[j].born <= MaxDelay
          <5>1. CASE i = n + 1
            BY <1>2, <2>3, <4>3, <4>5, <5>1
          <5>2. CASE i \in 1 .. n
            <6>1. ASSUME NEW j \in 1 .. n + 1, i < j
                  PROVE  R[i].born - R[j].born <= MaxDelay
              <7>1. CASE j = n + 1
                <8>1. R[i].born \in Nat /\ R[i].born <= now
                  BY <4>3, <4>4, <5>2
                <8>2. R[j].born = Head(txfifo).born
                  BY <4>3, <7>1
                <8> QED
                  BY <4>5, <8>1, <8>2
              <7>2. CASE j \in 1 .. n
                BY <4>3, <4>4, <5>2, <6>1, <7>2
              <7> QED
                BY <4>3, <6>1, <7>1, <7>2
            <6> QED
              BY <1>2, <2>3, <4>3, <4>4, <5>2, <6>1
          <5> QED
            BY <4>3, <5>1, <5>2
        <4> QED
          BY <4>3, <4>6
      <3> QED
        BY <2>3, <3>1, <3>2, <3>3
    <2>4. CASE (Refuse \/ Execute) /\ rxfifo # <<>> /\ rxfifo' = Tail(rxfifo)
      <3>1. /\ \A i \in 1 .. Len(Tail(rxfifo)) : i + 1 \in 1 .. Len(rxfifo) /\ Tail(rxfifo)[i] = rxfifo[i + 1]
            /\ Len(rxfifo) \in Nat \ {0} /\ 1 \in 1 .. Len(rxfifo)
        BY <1>0, <2>4, TailOf
      <3>2. last' = last \/ last' = rxfifo[1]
        BY LastIs
      <3> QED
        BY SMTT(30), <1>2, <2>1, <2>2, <2>4, <3>1, <3>2 DEF Delays, Stamped, InTime
    <2>5. CASE ~ (Refuse \/ Execute)
      <3>1. last' = last /\ rxfifo' \in Seq(Packet) /\ last'.born <= now'
        BY <1>0, <1>2, <2>5, LastIs DEF Types, Delays
      <3>2. rxfifo' = rxfifo \/ (txfifo # <<>> /\ rxfifo' = Append(rxfifo, Head(txfifo)))
              \/ rxfifo' = <<>>
        BY <2>5, RxFlow
      <3> QED
        BY <2>1, <2>2, <2>3, <3>1, <3>2 DEF Delays, Stamped, InTime
    <2>6. Refuse \/ Execute => rxfifo # <<>> /\ rxfifo' = Tail(rxfifo)
      BY DEF Refuse, CanRefuse, Execute, CanExecute
    <2> QED
      BY <2>4, <2>5, <2>6
  <1> QED
    BY <1>1, <1>2, TimeStep

-----------------------------------------------------------------------------
(* The labels.                                                             *)
LEMMA TasksAct ==
  ASSUME Types, [Next]_vars, NEW t \in Tasks, task'[t].pc # "idle"
  PROVE  \/ /\ task[t].pc # "idle"
            /\ task'[t].pkg.id = task[t].pkg.id /\ task'[t].pkg.cmd = task[t].pkg.cmd
         \/ TrySend /\ t = "net" /\ task'[t].pkg.id = commands /\ task'[t].pkg.cmd = command
         \/ Jam /\ t = "radio" /\ task'[t].pkg.id = 0 /\ task'[t].pkg.cmd = "values"
  <1>1. CASE \E u \in Tasks : Stamp(u) \/ Upload(u) \/ Transmitted(u)
    <2>1. PICK u \in Tasks : Stamp(u) \/ Upload(u) \/ Transmitted(u)
      BY <1>1
    <2>2. CASE u = t
      BY <1>1, <2>1, <2>2, StampDoes, UploadDoes, TransmittedDoes
    <2>3. CASE u # t
      <3>1. task'[t] = task[t]
        BY <2>1, <2>3, StampDoes, UploadDoes, TransmittedDoes DEF OnlyTask
      <3> QED
        BY <3>1
    <2> QED
      BY <2>2, <2>3
  <1>2. CASE TrySend
    BY <1>2, TryDoes DEF OnlyTask
  <1>3. CASE Jam
    BY <1>3, JamDoes DEF OnlyTask
  <1>4. CASE McuRestart
    BY <1>4, RestartDoes
  <1>5. CASE ~ (\E u \in Tasks : Stamp(u) \/ Upload(u) \/ Transmitted(u))
             /\ ~ TrySend /\ ~ Jam /\ ~ McuRestart
    <2>1. task' = task
      BY <1>5 DEF Next, Frame, Call, Return, FlushTX, Lose, Deliver, Refuse, Execute, DimmerBoots,
         DimmerPowerLoss, Tick, vars, mcu
    <2> QED
      BY <2>1
  <1> QED
    BY <1>1, <1>2, <1>3, <1>4, <1>5

LEMMA CommandActs ==
  ASSUME Types, [Next]_vars
  PROVE  \/ /\ \E c \in Command : Call(c)
            /\ command = "none" /\ command' \in Command /\ commands' = commands + 1 /\ task' = task
            /\ "none" \notin Command
         \/ /\ Return \/ McuRestart
            /\ command' = "none" /\ commands' = commands
            /\ Return => task["net"].pc = "idle" /\ task' = task
         \/ command' = command /\ commands' = commands
  <1>1. CASE \E c \in Command : Call(c)
    BY <1>1 DEF Call, Command
  <1>2. CASE Return \/ McuRestart
    BY <1>2 DEF Return, McuRestart, history
  <1>3. CASE ~ (\E c \in Command : Call(c)) /\ ~ Return /\ ~ McuRestart
    BY Zenon, <1>3 DEF Next, Frame, Stamp, Upload, Transmitted, TrySend, FlushTX, Jam, Lose, Deliver,
       Refuse, Execute, DimmerBoots, DimmerPowerLoss, Tick, vars, mcu, history
  <1> QED
    BY <1>1, <1>2, <1>3

LEMMA LabelsStep ==
  ASSUME Types, Labels, [Next]_vars
  PROVE  Labels'
  <1>0. /\ "net" \in Tasks /\ "radio" \in Tasks /\ Tasks = {"net", "radio"}
        /\ commands \in Nat /\ commands' \in Nat /\ commands <= commands'
        /\ command \in Command \cup {"none"} /\ "values" \notin Command /\ "none" \notin Command
    <2>1. commands \in Nat /\ command \in Command \cup {"none"}
      BY DEF Types
    <2>2. commands' = commands + 1 \/ commands' = commands
      BY CommandActs
    <2> QED
      BY <2>1, <2>2 DEF Tasks, Command
  <1>1. ASSUME NEW t \in Stamped
        PROVE  Labelled(task[t].pkg)
    <2>1. CASE t = "net"
      <3>1. /\ command \in Command /\ commands > 0
            /\ task[t].pkg.cmd = command /\ task[t].pkg.id = commands
        BY <1>0, <1>1, <2>1 DEF Labels, Stamped
      <3> QED
        BY <1>0, <3>1 DEF Labelled
    <2>2. CASE t = "radio"
      <3>1. task[t].pkg.cmd = "values" /\ task[t].pkg.id = 0
        BY <1>0, <1>1, <2>2 DEF Labels, Stamped
      <3> QED
        BY <1>0, <3>1 DEF Labelled
    <2> QED
      BY <1>0, <2>1, <2>2 DEF Stamped
  <1>2. ASSUME NEW p \in Packet, Labelled(p)
        PROVE  p.id <= commands' /\ p.cmd # "none" /\ (p.cmd = "values" <=> p.id = 0)
    <2>1. p.id \in Nat
      BY DEF Packet
    <2> QED
      BY <1>0, <1>2, <2>1 DEF Labelled
  <1>3. ASSUME NEW i \in InTx'
        PROVE  /\ txfifo'[i].id <= commands' /\ txfifo'[i].cmd # "none"
               /\ txfifo'[i].cmd = "values" <=> txfifo'[i].id = 0
    <2>1. \/ \E k \in InTx : txfifo'[i] = txfifo[k]
          \/ \E t \in Stamped : txfifo'[i] = task[t].pkg
      BY Sources
    <2>2. txfifo'[i] \in Packet
      BY <2>1, BornTypes, PacketsTypes DEF Stamped
    <2>3. Labelled(txfifo'[i])
      BY <1>1, <2>1 DEF Labels
    <2> QED
      BY <1>2, <2>2, <2>3
  <1>4. ASSUME NEW i \in InRx'
        PROVE  /\ rxfifo'[i].id <= commands' /\ rxfifo'[i].cmd # "none"
               /\ rxfifo'[i].cmd = "values" <=> rxfifo'[i].id = 0
    <2>1. \/ \E k \in InRx : rxfifo'[i] = rxfifo[k]
          \/ \E k \in InTx : rxfifo'[i] = txfifo[k]
      BY Sources
    <2>2. rxfifo'[i] \in Packet
      BY <2>1, BornTypes
    <2>3. Labelled(rxfifo'[i])
      BY <2>1 DEF Labels
    <2> QED
      BY <1>2, <2>2, <2>3
  <1>5. ASSUME task'["net"].pc # "idle"
        PROVE  /\ command' # "none" /\ task'["net"].pkg.cmd = command'
               /\ task'["net"].pkg.id = commands'
    <2>1. CASE TrySend
      <3>1. command' = command /\ commands' = commands
        BY <2>1 DEF TrySend
      <3>2. task["net"].pc = "idle" /\ command # "none"
        BY <2>1 DEF TrySend
      <3>3. task'["net"].pkg.cmd = command /\ task'["net"].pkg.id = commands
        BY <1>0, <1>5, <3>2, TasksAct DEF Jam
      <3> QED
        BY <3>1, <3>2, <3>3
    <2>2. CASE ~ TrySend
      <3>1. /\ task["net"].pc # "idle"
            /\ task'["net"].pkg.id = task["net"].pkg.id /\ task'["net"].pkg.cmd = task["net"].pkg.cmd
        BY <1>0, <1>5, <2>2, TasksAct
      <3>2. ~ McuRestart
        BY <1>0, <1>5, RestartDoes
      <3> QED
        BY <3>1, <3>2, CommandActs DEF Labels
    <2> QED
      BY <2>1, <2>2
  <1>6. task'["radio"].pc # "idle" =>
          task'["radio"].pkg.cmd = "values" /\ task'["radio"].pkg.id = 0
    BY <1>0, TasksAct DEF Labels
  <1>7. command' # "none" => commands' > 0
    BY <1>0, CommandActs DEF Labels
  <1> QED
    BY <1>3, <1>4, <1>5, <1>6, <1>7 DEF Labels, Labelled

-----------------------------------------------------------------------------
(* The commands that were carried out.                                     *)
LEMMA CarriedStep ==
  ASSUME Types, Carried, [Next]_vars
  PROVE  Carried' /\ executed \subseteq executed' /\ (last' # last => last'.id \in executed' \cup {0})
  <1>1. CASE Execute
    BY <1>1 DEF Execute, Carried
  <1>2. CASE ~ Execute
    <2>1. last' = last /\ executed' = executed
      BY Zenon, <1>2 DEF Next, Frame, Stamp, Upload, Transmitted, Call, TrySend, Return, FlushTX, Jam,
         McuRestart, Lose, Deliver, Refuse, DimmerBoots, DimmerPowerLoss, Tick, vars, seen, history
    <2> QED
      BY <2>1 DEF Carried
  <1> QED
    BY <1>1, <1>2

(* A command that is gone stays so.                                        *)
LEMMA GoneStays ==
  ASSUME Types, Labels, [Next]_vars, NEW c \in 1 .. MaxCommands, c <= commands, Gone(c)
  PROVE  Gone(c)'
  <1>0. c \in Nat \ {0} /\ commands \in Nat
    BY DimmerLinkAssumption DEF Types
  <1>1. ASSUME NEW t \in Stamped
        PROVE  task[t].pkg.id # c
    BY <1>0, <1>1 DEF Labels, Gone, Stamped, Tasks
  <1>2. \A i \in InTx' : txfifo'[i].id # c
    BY <1>1, Sources DEF Gone
  <1>3. \A i \in InRx' : rxfifo'[i].id # c
    BY Sources DEF Gone
  <1>4. command' # "none" => commands' # c
    BY <1>0, CommandActs DEF Gone
  <1> QED
    BY <1>2, <1>3, <1>4 DEF Gone

LEMMA ResetsStep ==
  ASSUME Types, Labels, Resets, [Next]_vars
  PROVE  Resets'
  <1>0. /\ commands \in Nat /\ commands' \in Nat /\ commands <= commands' /\ resets \in [1 .. MaxCommands -> Nat]
        /\ MaxCommands \in Nat
    <2>1. commands \in Nat /\ resets \in [1 .. MaxCommands -> Nat]
      BY DEF Types
    <2>2. commands' = commands + 1 \/ commands' = commands
      BY CommandActs
    <2> QED
      BY <2>1, <2>2, DimmerLinkAssumption
  <1>1. CASE Execute
    <2> DEFINE p == rxfifo[1]
    <2>1. /\ running /\ 1 \in InRx /\ p = Head(rxfifo) /\ p \in Packet /\ last' = p
          /\ running' = (p.cmd # "reset")
          /\ resets' = IF p.cmd = "reset" THEN [resets EXCEPT ![p.id] = @ + 1] ELSE resets
          /\ commands' = commands
      <3>1. rxfifo # <<>> /\ rxfifo \in Seq(Packet)
        BY <1>1 DEF Execute, CanExecute, Types
      <3>2. 1 \in InRx /\ p = Head(rxfifo) /\ p \in Packet
        BY <3>1 DEF InRx
      <3> QED
        BY <1>1, <3>2 DEF Execute, CanExecute
    <2> HIDE DEF p
    <2>2. \A c \in 1 .. MaxCommands : resets[c] = 1 => c <= commands /\ Gone(c)
      BY <2>1 DEF Resets
    <2>3. CASE p.cmd = "reset"
      <3>1. p.id # 0 /\ p.id <= commands
        BY <2>1, <2>3 DEF Labels, Labelled, p
      <3>2. p.id \in 1 .. MaxCommands
        BY <1>0, <2>1, <3>1 DEF Packet
      <3>3. ~ Gone(p.id)
        BY <2>1 DEF Gone, p
      <3>4. resets[p.id] = 0
        BY <1>0, <2>2, <3>2, <3>3 DEF Resets
      <3>5. resets'[p.id] = 1 /\ \A c \in (1 .. MaxCommands) \ {p.id} : resets'[c] = resets[c]
        BY <1>0, <2>1, <2>3, <3>2, <3>4
      <3>6. ~ running' /\ last'.id = p.id
        BY <2>1, <2>3
      <3> QED
        BY <1>0, <2>1, <2>2, <3>1, <3>5, <3>6, GoneStays DEF Resets
    <2>4. CASE p.cmd # "reset"
      BY <2>1, <2>2, <2>4, GoneStays DEF Resets
    <2> QED
      BY <2>3, <2>4
  <1>2. CASE DimmerBoots
    <2>1. /\ resets' = resets /\ commands' = commands /\ command' = command /\ txfifo' = txfifo
          /\ rxfifo' = <<>> /\ (command = "none" \/ last.id # commands)
          /\ \A i \in InTx : txfifo[i].id # last.id
      BY <1>2 DEF DimmerBoots, FifoAtBoot, mcu, chip, seen, InTx
    <2>2. ASSUME NEW c \in 1 .. MaxCommands, last.id = c
          PROVE  Gone(c)'
      <3>1. \A i \in InTx' : txfifo'[i].id # c
        BY <2>1, <2>2 DEF InTx
      <3>2. InRx' = {}
        BY <2>1 DEF InRx
      <3>3. command' # "none" => commands' # c
        BY <2>1, <2>2
      <3> QED
        BY <3>1, <3>2, <3>3 DEF Gone
    <2>3. ASSUME NEW c \in 1 .. MaxCommands, resets[c] = 1
          PROVE  c <= commands' /\ Gone(c)'
      <3>1. c <= commands /\ (Gone(c) \/ last.id = c)
        BY <2>3 DEF Resets
      <3> QED
        BY <2>1, <2>2, <3>1, GoneStays
    <2> QED
      BY <2>1, <2>3 DEF Resets
  <1>3. CASE ~ Execute /\ ~ DimmerBoots
    <2>1. resets' = resets /\ last' = last /\ (~ running => ~ running')
      <3>1. CASE DimmerPowerLoss
        <4>1. resets' = resets /\ last' = last /\ running' = FALSE
          BY <3>1 DEF DimmerPowerLoss, seen, history
        <4> QED
          BY <4>1
      <3>2. CASE ~ DimmerPowerLoss
        <4>1. resets' = resets /\ last' = last /\ running' = running
          BY Zenon, <1>3, <3>2 DEF Next, Frame, Stamp, Upload, Transmitted, Call, TrySend, Return,
             FlushTX, Jam, McuRestart, Lose, Deliver, Refuse, Tick, vars, seen, history, dimmer
        <4> QED
          BY <4>1
      <3> QED
        BY <3>1, <3>2
    <2>2. ASSUME NEW c \in 1 .. MaxCommands, resets[c] = 1
          PROVE  c <= commands' /\ (Gone(c)' \/ (~ running' /\ last'.id = c))
      <3>1. c <= commands /\ (Gone(c) \/ (~ running /\ last.id = c))
        BY <2>2 DEF Resets
      <3>2. c <= commands'
        BY <1>0, <3>1
      <3>3. Gone(c) => Gone(c)'
        BY <3>1, GoneStays
      <3>4. ~ running /\ last.id = c => ~ running' /\ last'.id = c
        BY <2>1
      <3> QED
        BY <3>1, <3>2, <3>3, <3>4
    <2> QED
      BY <2>1, <2>2 DEF Resets
  <1> QED
    BY <1>1, <1>2, <1>3

-----------------------------------------------------------------------------
(* The order of the current command's packets and the others: what each    *)
(* change of the FIFOs does to it.                                         *)
LEMMA OrderKept ==
  ASSUME NEW rx \in Seq(Packet), NEW tx \in Seq(Packet), NEW l \in Packet, NEW c \in Nat,
         InOrder(rx, tx, l, c)
  PROVE  /\ InOrder(rx, <<>>, l, c)
         /\ InOrder(<<>>, tx, l, c)
         /\ tx # <<>> => InOrder(rx, Tail(tx), l, c)
         /\ tx # <<>> => InOrder(Append(rx, Head(tx)), Tail(tx), l, c)
         /\ rx # <<>> => InOrder(Tail(rx), tx, l, c)
         /\ rx # <<>> => InOrder(Tail(rx), tx, Head(rx), c)
  <1>1. InOrder(rx, <<>>, l, c) /\ InOrder(<<>>, tx, l, c)
    BY DEF InOrder
  <1>2. ASSUME tx # <<>>
        PROVE  InOrder(rx, Tail(tx), l, c)
    BY <1>2, TailOf DEF InOrder
  <1>3. ASSUME tx # <<>>
        PROVE  InOrder(Append(rx, Head(tx)), Tail(tx), l, c)
    <2> DEFINE n == Len(rx)
               R == Append(rx, Head(tx))
    <2>1. /\ n \in Nat /\ Len(R) = n + 1 /\ R[n + 1] = tx[1]
          /\ \A i \in 1 .. n : R[i] = rx[i]
      BY <1>3, AppendOf, TailOf
    <2>2. /\ Len(Tail(tx)) = Len(tx) - 1 /\ Len(tx) \in Nat \ {0} /\ 1 \in 1 .. Len(tx)
          /\ \A i \in 1 .. Len(Tail(tx)) : i + 1 \in 1 .. Len(tx) /\ Tail(tx)[i] = tx[i + 1]
      BY <1>3, TailOf
    <2> HIDE DEF R, n
    <2>3. \A j \in 1 .. Len(R) : j = n + 1 \/ j \in 1 .. n
      BY <2>1
    <2>4. ASSUME NEW i \in 1 .. Len(Tail(tx)), Tail(tx)[i].id = c
          PROVE  /\ \A j \in 1 .. Len(Tail(tx)) :
                      j < i /\ Tail(tx)[j].id # c => Tail(tx)[j].born < Tail(tx)[i].born
                 /\ \A j \in 1 .. Len(R) : R[j].id # c => R[j].born < Tail(tx)[i].born
                 /\ l.id # c => l.born < Tail(tx)[i].born
      <3>1. i + 1 \in 1 .. Len(tx) /\ tx[i + 1].id = c /\ Tail(tx)[i] = tx[i + 1] /\ i \in Nat \ {0}
        BY <2>2, <2>4
      <3>2. /\ \A j \in 1 .. Len(tx) : j < i + 1 /\ tx[j].id # c => tx[j].born < tx[i + 1].born
            /\ \A j \in 1 .. n : rx[j].id # c => rx[j].born < tx[i + 1].born
            /\ l.id # c => l.born < tx[i + 1].born
        BY <3>1 DEF InOrder, n
      <3>3. \A j \in 1 .. Len(Tail(tx)) :
                      j < i /\ Tail(tx)[j].id # c => Tail(tx)[j].born < Tail(tx)[i].born
        BY <2>2, <3>1, <3>2
      <3>4. ASSUME NEW j \in 1 .. Len(R), R[j].id # c
            PROVE  R[j].born < Tail(tx)[i].born
        <4>1. CASE j = n + 1
          BY <2>1, <2>2, <3>1, <3>2, <3>4, <4>1
        <4>2. CASE j \in 1 .. n
          BY <2>1, <3>1, <3>2, <3>4, <4>2
        <4> QED
          BY <2>3, <4>1, <4>2
      <3> QED
        BY <3>1, <3>2, <3>3, <3>4
    <2>5. ASSUME NEW i \in 1 .. Len(R), R[i].id = c
          PROVE  /\ \A j \in 1 .. Len(R) : j < i /\ R[j].id # c => R[j].born < R[i].born
                 /\ l.id # c => l.born < R[i].born
      <3>1. CASE i = n + 1
        <4>1. tx[1].id = c /\ R[i] = tx[1]
          BY <2>1, <2>5, <3>1
        <4>2. /\ \A j \in 1 .. n : rx[j].id # c => rx[j].born < tx[1].born
              /\ l.id # c => l.born < tx[1].born
          BY <2>2, <4>1 DEF InOrder, n
        <4>3. \A j \in 1 .. Len(R) : j < i => j \in 1 .. n
          BY <2>1, <3>1
        <4> QED
          BY <2>1, <4>1, <4>2, <4>3
      <3>2. CASE i \in 1 .. n
        <4>1. rx[i].id = c /\ R[i] = rx[i]
          BY <2>1, <2>5, <3>2
        <4>2. /\ \A j \in 1 .. n : j < i /\ rx[j].id # c => rx[j].born < rx[i].born
              /\ l.id # c => l.born < rx[i].born
          BY <3>2, <4>1 DEF InOrder, n
        <4>3. \A j \in 1 .. Len(R) : j < i => j \in 1 .. n
          BY <2>1, <3>2
        <4> QED
          BY <2>1, <4>1, <4>2, <4>3
      <3> QED
        BY <2>3, <3>1, <3>2
    <2>6. InOrder(R, Tail(tx), l, c)
      BY <2>4, <2>5 DEF InOrder
    <2> QED
      BY <2>6 DEF R
  <1>4. ASSUME rx # <<>>
        PROVE  InOrder(Tail(rx), tx, l, c)
    BY <1>4, TailOf DEF InOrder
  <1>5. ASSUME rx # <<>>
        PROVE  InOrder(Tail(rx), tx, Head(rx), c)
    <2>1. 1 \in 1 .. Len(rx)
      BY <1>5, TailOf
    <2> QED
      BY <1>5, <2>1, TailOf DEF InOrder
  <1> QED
    BY <1>1, <1>2, <1>3, <1>4, <1>5

LEMMA OrderAppend ==
  ASSUME NEW rx \in Seq(Packet), NEW tx \in Seq(Packet), NEW l \in Packet, NEW c \in Nat,
         InOrder(rx, tx, l, c), NEW p \in Packet,
         p.id = c => /\ \A j \in 1 .. Len(tx) : tx[j].id # c => tx[j].born < p.born
                     /\ \A j \in 1 .. Len(rx) : rx[j].id # c => rx[j].born < p.born
                     /\ l.id # c => l.born < p.born
  PROVE  InOrder(rx, Append(tx, p), l, c)
  <1> DEFINE n == Len(tx)
             T == Append(tx, p)
  <1>1. n \in Nat /\ Len(T) = n + 1 /\ T[n + 1] = p /\ \A i \in 1 .. n : T[i] = tx[i]
    BY AppendOf
  <1> HIDE DEF T
  <1>2. ASSUME NEW i \in 1 .. Len(T), T[i].id = c
        PROVE  /\ \A j \in 1 .. Len(T) : j < i /\ T[j].id # c => T[j].born < T[i].born
               /\ \A j \in 1 .. Len(rx) : rx[j].id # c => rx[j].born < T[i].born
               /\ l.id # c => l.born < T[i].born
    <2>1. \A j \in 1 .. Len(T) : j < i => j \in 1 .. n
      BY <1>1
    <2>2. CASE i = n + 1
      BY <1>1, <1>2, <2>1, <2>2
    <2>3. CASE i \in 1 .. n
      <3>1. T[i] = tx[i] /\ tx[i].id = c
        BY <1>1, <1>2, <2>3
      <3>2. /\ \A j \in 1 .. n : j < i /\ tx[j].id # c => tx[j].born < tx[i].born
            /\ \A j \in 1 .. Len(rx) : rx[j].id # c => rx[j].born < tx[i].born
            /\ l.id # c => l.born < tx[i].born
        BY <2>3, <3>1 DEF InOrder
      <3> QED
        BY <1>1, <2>1, <3>1, <3>2
    <2> QED
      BY <1>1, <2>2, <2>3
  <1>3. InOrder(rx, T, l, c)
    BY <1>2 DEF InOrder
  <1> QED
    BY <1>3 DEF T

LEMMA NotCollided ==
  ASSUME Types, [Next]_vars, ~ \E c \in Command : Call(c), ~ collided'
  PROVE  /\ ~ collided /\ commands' = commands
         /\ TrySend /\ task'["net"].pc # "idle" => task["radio"].pc = "idle"
         /\ Jam => task["net"].pc = "idle"
  <1>0. ASSUME Jam
        PROVE  collided' = (collided \/ task["net"].pc # "idle") /\ commands' = commands
    <2> DEFINE p == [NoPacket EXCEPT !.cmd = "values"]
    <2>1. Enter("radio", p) /\ commands' = commands
      BY <1>0 DEF Jam
    <2> HIDE DEF p
    <2> QED
      BY <2>1, OtherTask DEF Enter
  <1>1. CASE TrySend
    <2>1. commands' = commands
      BY <1>1 DEF TrySend
    <2>2. Jam => collided' = (collided \/ task["net"].pc # "idle")
      BY <1>0
    <2>3. CASE collided' = collided /\ task' = task /\ task["net"].pc = "idle"
      BY <2>1, <2>2, <2>3
    <2>4. CASE collided' = (collided \/ task["radio"].pc # "idle")
      BY <2>1, <2>2, <2>4
    <2> QED
      BY <1>1, <2>3, <2>4, TryDoes
  <1>2. CASE Jam /\ ~ TrySend
    BY <1>0, <1>2
  <1>3. CASE ~ TrySend /\ ~ Jam
    <2>1. CASE \E t \in Tasks : Stamp(t) \/ Upload(t) \/ Transmitted(t)
      BY <1>3, <2>1 DEF Stamp, Upload, Transmitted, history
    <2>2. CASE ~ \E t \in Tasks : Stamp(t) \/ Upload(t) \/ Transmitted(t)
      BY <1>3, <2>2 DEF Next, Frame, Return, FlushTX, McuRestart, Lose,
         Deliver, Refuse, Execute, DimmerBoots, DimmerPowerLoss, Tick, vars, history
    <2> QED
      BY <2>1, <2>2
  <1> QED
    BY <1>1, <1>2, <1>3

LEMMA ApartStep ==
  ASSUME Types, [Next]_vars, ~ \E c \in Command : Call(c), ~ collided',
         task["net"].pc = "idle" \/ task["radio"].pc = "idle"
  PROVE  task'["net"].pc = "idle" \/ task'["radio"].pc = "idle"
  <1>0. "net" \in Tasks /\ "radio" \in Tasks
    BY DEF Tasks
  <1>1. CASE TrySend
    <2>1. task'["radio"] = task["radio"]
      BY <1>0, <1>1, TryDoes DEF OnlyTask
    <2> QED
      BY <1>1, <2>1, NotCollided
  <1>2. CASE Jam
    <2>1. task'["net"] = task["net"]
      BY <1>0, <1>2, JamDoes DEF OnlyTask
    <2> QED
      BY <1>2, <2>1, NotCollided
  <1>3. CASE ~ TrySend /\ ~ Jam
    BY <1>0, <1>3, TasksAct
  <1> QED
    BY <1>1, <1>2, <1>3

LEMMA InOrderStep ==
  ASSUME Types, Order, [Next]_vars, commands > 0, ~ collided, Labels
  PROVE  InOrder(rxfifo', txfifo', last', commands)
  <1>0. /\ rxfifo \in Seq(Packet) /\ txfifo \in Seq(Packet) /\ last \in Packet /\ commands \in Nat
        /\ InOrder(rxfifo, txfifo, last, commands)
        /\ "net" \in Tasks /\ "radio" \in Tasks /\ Tasks = {"net", "radio"}
    BY DimmerLinkAssumption DEF Types, Order, Tasks
  <1>1. CASE Lose
    BY <1>0, <1>1, OrderKept DEF Lose, OnAir, dimmer, seen
  <1>2. CASE Deliver
    BY <1>0, <1>2, OrderKept DEF Deliver, OnAir, history, seen
  <1>3. CASE FlushTX \/ McuRestart
    BY <1>0, <1>3, OrderKept DEF FlushTX, McuRestart, dimmer, seen
  <1>4. CASE \E t \in Tasks : Upload(t)
    <2>1. PICK t \in Tasks : Upload(t)
      BY <1>4
    <2> DEFINE p == task[t].pkg
    <2>2. rxfifo' = rxfifo /\ last' = last
      BY <2>1 DEF Upload, dimmer, seen
    <2>3. p \in Packet /\ task[t].pc = "stamped" /\ (txfifo' = txfifo \/ txfifo' = Append(txfifo, p))
      BY <2>1, UploadDoes
    <2>4. p.id = commands => t = "net"
      BY <1>0, <2>3 DEF Labels
    <2>5. p.id = commands => OthersBornBefore(p.born)
      BY <2>3, <2>4 DEF Order
    <2> HIDE DEF p
    <2>6. InOrder(rxfifo, Append(txfifo, p), last, commands)
      BY <1>0, <2>3, <2>5, OrderAppend DEF OthersBornBefore, InTx, InRx
    <2> QED
      BY <1>0, <2>2, <2>3, <2>6
  <1>5. CASE Refuse
    BY <1>0, <1>5, OrderKept DEF Refuse, CanRefuse, chip, seen
  <1>6. CASE Execute
    BY <1>0, <1>6, OrderKept DEF Execute, CanExecute, chip
  <1>7. CASE DimmerBoots
    BY <1>0, <1>7, OrderKept DEF DimmerBoots, FifoAtBoot, chip, seen
  <1>8. CASE ~ Lose /\ ~ Deliver /\ ~ FlushTX /\ ~ McuRestart /\ ~ (\E t \in Tasks : Upload(t))
             /\ ~ Refuse /\ ~ Execute /\ ~ DimmerBoots
    <2>1. rxfifo' = rxfifo /\ txfifo' = txfifo /\ last' = last
      BY Zenon, <1>8 DEF Next, Frame, Stamp, Transmitted, Call, TrySend, Return, Jam, DimmerPowerLoss,
         Tick, vars, chip, dimmer, seen, history
    <2> QED
      BY <1>0, <2>1
  <1> QED
    BY <1>1, <1>2, <1>3, <1>4, <1>5, <1>6, <1>7, <1>8

LEMMA WaitStep ==
  ASSUME Types, Order, Delays, [Next]_vars, commands > 0, ~ collided, task'["net"].pc = "wait"
  PROVE  /\ \A j \in InTx' : txfifo'[j].born <= task'["net"].since
         /\ \A j \in InRx' : rxfifo'[j].born <= task'["net"].since
         /\ last'.born <= task'["net"].since
  <1>0. "net" \in Tasks /\ "radio" \in Tasks /\ Tasks = {"net", "radio"}
    BY DEF Tasks
  <1>1. CASE TrySend /\ task'["net"].since = now
    <2>1. txfifo' = txfifo /\ rxfifo' = rxfifo /\ last' = last
      BY <1>1 DEF TrySend, dimmer, seen
    <2>2. /\ \A j \in InTx : txfifo[j].born <= now
          /\ \A j \in InRx : rxfifo[j].born <= now
          /\ last.born <= now
      BY DEF Delays, InTime
    <2> QED
      BY <1>1, <2>1, <2>2 DEF InTx, InRx
  <1>2. CASE task["net"].pc = "wait" /\ task'["net"].since = task["net"].since
    <2>1. AllBornBy(task["net"].since) /\ task["radio"].pc = "idle"
      BY <1>2 DEF Order
    <2>2. Stamped = {}
      BY <1>0, <1>2, <2>1 DEF Stamped
    <2>3. \A j \in InTx' : txfifo'[j].born <= task["net"].since
      BY <2>1, <2>2, Sources DEF AllBornBy
    <2>4. \A j \in InRx' : rxfifo'[j].born <= task["net"].since
      BY <2>1, Sources DEF AllBornBy
    <2>5. last'.born <= task["net"].since
      BY <2>1, LastIs DEF AllBornBy
    <2> QED
      BY <1>2, <2>3, <2>4, <2>5
  <1>3. (TrySend /\ task'["net"].since = now)
          \/ (task["net"].pc = "wait" /\ task'["net"].since = task["net"].since)
    <2>1. CASE \E u \in Tasks : Stamp(u) \/ Upload(u) \/ Transmitted(u)
      <3>1. PICK u \in Tasks : Stamp(u) \/ Upload(u) \/ Transmitted(u)
        BY <2>1
      <3>2. u # "net"
        BY <3>1, StampDoes, UploadDoes, TransmittedDoes
      <3>3. task'["net"] = task["net"]
        BY <1>0, <3>1, <3>2, StampDoes, UploadDoes, TransmittedDoes DEF OnlyTask
      <3> QED
        BY <3>3
    <2>2. CASE TrySend
      BY <2>2, TryDoes
    <2>3. CASE Jam
      BY <1>0, <2>3, JamDoes DEF OnlyTask
    <2>4. CASE McuRestart
      BY <1>0, <2>4, RestartDoes
    <2>5. CASE ~ (\E u \in Tasks : Stamp(u) \/ Upload(u) \/ Transmitted(u))
               /\ ~ TrySend /\ ~ Jam /\ ~ McuRestart
      <3>1. task' = task
        BY <2>5 DEF Next, Frame, Call, Return, FlushTX, Lose, Deliver, Refuse, Execute, DimmerBoots,
           DimmerPowerLoss, Tick, vars, mcu
      <3> QED
        BY <3>1
    <2> QED
      BY <2>1, <2>2, <2>3, <2>4, <2>5
  <1> QED
    BY <1>1, <1>2, <1>3

LEMMA StampedStep ==
  ASSUME Types, Order, [Next]_vars, commands > 0, ~ collided, task'["net"].pc = "stamped"
  PROVE  /\ \A j \in InTx' : txfifo'[j].id # commands => txfifo'[j].born < task'["net"].pkg.born
         /\ \A j \in InRx' : rxfifo'[j].id # commands => rxfifo'[j].born < task'["net"].pkg.born
         /\ last'.id # commands => last'.born < task'["net"].pkg.born
  <1>0. "net" \in Tasks /\ "radio" \in Tasks /\ Tasks = {"net", "radio"}
    BY DEF Tasks
  <1>1. CASE Stamp("net")
    <2>1. /\ txfifo' = txfifo /\ rxfifo' = rxfifo /\ last' = last
          /\ task["net"].pc = "wait" /\ now > task["net"].since /\ task'["net"].pkg.born = now
      BY <1>0, <1>1, StampDoes DEF Stamp, dimmer, history, seen
    <2>2. AllBornBy(task["net"].since)
      BY <2>1 DEF Order
    <2> QED
      BY <1>0, <2>1, <2>2, BornTypes, SMTT(30) DEF AllBornBy, InTx, InRx
  <1>2. CASE task["net"].pc = "stamped" /\ task'["net"].pkg = task["net"].pkg
    <2>1. OthersBornBefore(task["net"].pkg.born) /\ task["radio"].pc = "idle"
      BY <1>2 DEF Order
    <2>2. ~ \E t \in Stamped : Upload(t)
      BY <1>0, <1>2, <2>1, UploadDoes DEF Stamped
    <2>3. \A j \in InTx' : txfifo'[j].id # commands => txfifo'[j].born < task["net"].pkg.born
      BY <2>1, <2>2, Sources DEF OthersBornBefore
    <2>4. \A j \in InRx' : rxfifo'[j].id # commands => rxfifo'[j].born < task["net"].pkg.born
      BY <2>1, Sources DEF OthersBornBefore
    <2>5. last'.id # commands => last'.born < task["net"].pkg.born
      BY <2>1, LastIs DEF OthersBornBefore
    <2> QED
      BY <1>2, <2>3, <2>4, <2>5
  <1> QED
    BY <1>0, <1>1, <1>2, StampedBefore

LEMMA OrderStep ==
  ASSUME Types, Delays, Labels, Order, [Next]_vars
  PROVE  Order'
  <1>1. CASE \E c \in Command : Call(c)
    <2>1. /\ commands' = commands + 1 /\ commands \in Nat /\ task' = task /\ command = "none"
          /\ txfifo' = txfifo /\ rxfifo' = rxfifo /\ last' = last
      BY <1>1, DimmerLinkAssumption DEF Call, Types, chip, dimmer, seen
    <2>2. task'["net"].pc = "idle"
      BY <2>1 DEF Labels
    <2>3. /\ \A i \in InTx : txfifo[i].id # commands'
          /\ \A i \in InRx : rxfifo[i].id # commands'
      <3>1. /\ \A i \in InTx : txfifo[i].id \in Nat
            /\ \A i \in InRx : rxfifo[i].id \in Nat
        BY BornTypes DEF Packet
      <3> QED
        BY <2>1, <3>1 DEF Labels, Labelled
    <2>4. InOrder(rxfifo', txfifo', last', commands')
      BY <2>1, <2>3 DEF InOrder, InTx, InRx
    <2> QED
      BY <2>2, <2>4 DEF Order
  <1>2. CASE ~ \E c \in Command : Call(c)
    <2> SUFFICES ASSUME commands' > 0, ~ collided'
                 PROVE  /\ task'["net"].pc = "idle" \/ task'["radio"].pc = "idle"
                        /\ InOrder(rxfifo', txfifo', last', commands')
                        /\ task'["net"].pc = "wait" => AllBornBy(task["net"].since)'
                        /\ task'["net"].pc = "stamped" => OthersBornBefore(task["net"].pkg.born)'
      BY DEF Order
    <2>1. ~ collided /\ commands' = commands /\ commands > 0
      BY <1>2, NotCollided
    <2>2. task'["net"].pc = "idle" \/ task'["radio"].pc = "idle"
      BY <1>2, <2>1, ApartStep DEF Order
    <2>3. InOrder(rxfifo', txfifo', last', commands')
      BY <2>1, InOrderStep
    <2>4. task'["net"].pc = "wait" => AllBornBy(task["net"].since)'
      BY <2>1, WaitStep DEF AllBornBy
    <2>5. task'["net"].pc = "stamped" => OthersBornBefore(task["net"].pkg.born)'
      BY <2>1, StampedStep DEF OthersBornBefore
    <2> QED
      BY <2>2, <2>3, <2>4, <2>5
  <1> QED
    BY <1>1, <1>2

-----------------------------------------------------------------------------
(* The sequence numbers against the times of birth.                        *)
LEMMA HeadIs ==
  ASSUME Types, Clocks, Delays, rxfifo # <<>>
  PROVE  /\ Head(rxfifo) = rxfifo[1] /\ 1 \in InRx /\ Head(rxfifo) \in Packet
         /\ OnClock(Head(rxfifo)) /\ last.born - Head(rxfifo).born <= MaxDelay
  <1>1. rxfifo \in Seq(Packet)
    BY DEF Types
  <1>2. Head(rxfifo) = rxfifo[1] /\ 1 \in InRx /\ Head(rxfifo) \in Packet
    BY <1>1 DEF InRx
  <1> QED
    BY <1>2 DEF Clocks, Delays

LEMMA Difference ==
  ASSUME NEW h \in Nat, NEW a \in Nat, NEW b \in Nat, NEW k \in Int, NEW l \in Int,
         NEW m \in Nat
  PROVE  (h + a + k * m) - (h + b + l * m) = (a - b) + (k - l) * m
  <1> DEFINE x == k * m
             y == l * m
  <1>1. x \in Int /\ y \in Int /\ (k - l) * m = x - y
    OBVIOUS
  <1> HIDE DEF x, y
  <1>2. (h + a + x) - (h + b + y) = (a - b) + (x - y)
    BY <1>1
  <1> QED
    BY <1>1, <1>2 DEF x, y

LEMMA NumbersAndBirths ==
  ASSUME Types, Clocks, Delays, rxfifo # <<>>, last_sequence # 0,
         Head(rxfifo).host = last.host, Head(rxfifo).born - last.born < WINDOW
  PROVE  /\ Signed(Head(rxfifo).seq - last_sequence) = Head(rxfifo).born - last.born
         /\ Head(rxfifo).born \in Nat /\ last.born \in Nat
  <1> DEFINE p == Head(rxfifo)
             d == p.born - last.born
  <1>1. /\ p \in Packet /\ last \in Packet /\ OnClock(p) /\ OnClock(last)
        /\ last_sequence = last.seq /\ last.born - p.born <= MaxDelay
    BY HeadIs DEF Clocks, Types
  <1>2. /\ p.born \in Nat /\ last.born \in Nat /\ p.host \in Nat /\ last.host \in Nat
        /\ p.seq \in Nat /\ last.seq \in Nat
    BY <1>1 DEF Packet
  <1>3. MOD \in Nat \ {0} /\ WINDOW \in Nat /\ MaxDelay \in Nat /\ MaxDelay <= WINDOW
    BY DimmerLinkAssumption
  <1>4. PICK k \in Int : p.seq = p.host + p.born + k * MOD
    BY <1>1 DEF OnClock
  <1>5. PICK l \in Int : last.seq = last.host + last.born + l * MOD
    BY <1>1 DEF OnClock
  <1>6. p.seq - last.seq = d + (k - l) * MOD /\ k - l \in Int
    <2>1. p.seq - last.seq
            = (last.host + p.born + k * MOD) - (last.host + last.born + l * MOD)
      BY <1>4, <1>5
    <2> QED
      BY <1>2, <1>3, <2>1, Difference, SMTT(30)
  <1>7. d \in Int /\ - WINDOW <= d /\ d < WINDOW /\ p.seq - last.seq \in Int
    BY SMTT(30), <1>1, <1>2, <1>3
  <1> HIDE DEF d
  <1>8. Signed(p.seq - last.seq) = d
    BY <1>6, <1>7, SignedDifference
  <1> QED
    BY <1>1, <1>2, <1>8 DEF d

LEMMA InOrderOfBirth ==
  ASSUME Types, Clocks, Delays
  PROVE  ExecutedInOrder
  <1> SUFFICES ASSUME CanExecute, last_sequence # 0, Head(rxfifo).host = last.host
               PROVE  Head(rxfifo).born > last.born
    BY DEF ExecutedInOrder
  <1>1. rxfifo # <<>> /\ Signed(Head(rxfifo).seq - last_sequence) > 0
    BY DEF CanExecute, Accepts, InWindow
  <1>2. Head(rxfifo).born \in Nat /\ last.born \in Nat /\ WINDOW \in Nat \ {0}
    BY <1>1, HeadIs, BornTypes, DimmerLinkAssumption DEF Packet
  <1>3. CASE Head(rxfifo).born - last.born < WINDOW
    BY <1>1, <1>2, <1>3, NumbersAndBirths
  <1>4. CASE ~ (Head(rxfifo).born - last.born < WINDOW)
    BY <1>2, <1>4
  <1> QED
    BY <1>3, <1>4

LEMMA RefusedOutOfReach ==
  ASSUME Types, Clocks, Delays
  PROVE  NewerRefusedOutOfReach
  <1> SUFFICES ASSUME CanRefuse, Addressed(Head(rxfifo)), ~ OutOfReach(Head(rxfifo)),
                      ~ (Head(rxfifo).born <= last.born)
               PROVE  FALSE
    BY DEF NewerRefusedOutOfReach
  <1>1. /\ rxfifo # <<>> /\ last_sequence # 0
        /\ ~ (Signed(Head(rxfifo).seq - last_sequence) > 0
              /\ Signed(Head(rxfifo).seq - last_sequence) < WINDOW)
    BY DEF CanRefuse, Accepts, InWindow
  <1>2. Head(rxfifo).born \in Nat /\ last.born \in Nat /\ WINDOW \in Nat \ {0}
    BY <1>1, HeadIs, BornTypes, DimmerLinkAssumption DEF Packet
  <1>3. Head(rxfifo).host = last.host /\ Head(rxfifo).born - last.born < WINDOW
    BY <1>2 DEF OutOfReach
  <1> QED
    BY <1>1, <1>2, <1>3, NumbersAndBirths

-----------------------------------------------------------------------------
(* The count of the tries.                                                 *)
LEMMA BegunStep ==
  ASSUME Types, Labels, [Next]_vars, ~ \E c \in Command : Call(c)
  PROVE  /\ Begun \in Nat
         /\ \/ Begun' = Begun
            \/ McuRestart /\ Begun' = TX_COMMAND_RETRIES /\ missed' = TX_COMMAND_RETRIES
            \/ Upload("net") /\ Begun' = Begun + 1
            \/ TrySend /\ missed' = missed + 1 /\ Begun' = Begun + 1
  <1>0. /\ "net" \in Tasks /\ "radio" \in Tasks /\ Tasks = {"net", "radio"}
        /\ try \in Nat /\ TX_COMMAND_RETRIES \in Nat
        /\ task["net"].pc # "idle" => command # "none"
    BY DimmerLinkAssumption DEF Tasks, Types, Labels
  <1>1. CASE \E t \in Tasks : Stamp(t)
    <2>1. PICK t \in Tasks : Stamp(t)
      BY <1>1
    <2>2. try' = try /\ command' = command
      BY <2>1 DEF Stamp
    <2>3. task["net"].pc = "sent" <=> task'["net"].pc = "sent"
      BY <1>0, <2>1, StampDoes DEF OnlyTask
    <2> QED
      BY <1>0, <2>2, <2>3 DEF Begun
  <1>2. CASE Upload("net")
    <2>1. try' = try /\ command' = command
      BY <1>2 DEF Upload
    <2>2. task["net"].pc = "stamped" /\ task'["net"].pc = "sent"
      BY <1>0, <1>2, UploadDoes
    <2> QED
      BY <1>0, <1>2, <2>1, <2>2 DEF Begun
  <1>3. CASE Upload("radio")
    <2>1. try' = try /\ command' = command
      BY <1>3 DEF Upload
    <2>2. task'["net"] = task["net"]
      BY <1>0, <1>3, UploadDoes DEF OnlyTask
    <2> QED
      BY <1>0, <2>1, <2>2 DEF Begun
  <1>4. CASE Transmitted("net")
    <2>1. try' = try + 1 /\ command' = command
      BY <1>4 DEF Transmitted
    <2>2. task["net"].pc = "sent" /\ task'["net"].pc = "idle"
      BY <1>0, <1>4, TransmittedDoes
    <2> QED
      BY <1>0, <2>1, <2>2 DEF Begun
  <1>5. CASE Transmitted("radio")
    <2>1. try' = try /\ command' = command
      BY <1>5 DEF Transmitted
    <2>2. task'["net"] = task["net"]
      BY <1>0, <1>5, TransmittedDoes DEF OnlyTask
    <2> QED
      BY <1>0, <2>1, <2>2 DEF Begun
  <1>6. CASE TrySend
    <2>1. command' = command /\ command # "none" /\ task["net"].pc = "idle"
      BY <1>6 DEF TrySend
    <2>2. \/ task' = task /\ try' = try + 1 /\ missed' = missed + 1
          \/ task'["net"].pc = "wait" /\ try' = try
      BY <1>6, TryDoes
    <2> QED
      BY <1>0, <1>6, <2>1, <2>2 DEF Begun
  <1>7. CASE Jam
    <2>1. try' = try /\ command' = command
      BY <1>7 DEF Jam
    <2>2. task'["net"] = task["net"]
      BY <1>0, <1>7, JamDoes DEF OnlyTask
    <2> QED
      BY <1>0, <2>1, <2>2 DEF Begun
  <1>8. CASE Return
    BY <1>0, <1>8 DEF Return, Begun
  <1>9. CASE McuRestart
    BY <1>0, <1>9 DEF McuRestart, Begun
  <1>10. CASE /\ ~ \E t \in Tasks : Stamp(t) \/ Upload(t) \/ Transmitted(t)
              /\ ~ TrySend /\ ~ Jam /\ ~ Return /\ ~ McuRestart
    <2>1. try' = try /\ command' = command /\ task' = task
      BY <1>10 DEF Next, Frame, FlushTX, Lose, Deliver, Refuse, Execute, DimmerBoots,
         DimmerPowerLoss, Tick, vars, mcu
    <2> QED
      BY <1>0, <2>1 DEF Begun
  <1> QED
    BY <1>0, <1>1, <1>2, <1>3, <1>4, <1>5, <1>6, <1>7, <1>8, <1>9, <1>10

(* A packet of the current command that the dimmer refuses, before it has  *)
(* carried the command out, is missed.                                     *)
LEMMA RefusedIsMissed ==
  ASSUME Types, Clocks, Delays, Carried, Order, Refuse, commands > 0, ~ collided,
         commands \notin executed, Head(rxfifo).id = commands
  PROVE  missed' = missed + Tries(<<Head(rxfifo)>>)
  <1>1. rxfifo # <<>> /\ CanRefuse
    BY DEF Refuse, CanRefuse
  <1>2. /\ Head(rxfifo) = rxfifo[1] /\ 1 \in 1 .. Len(rxfifo) /\ Head(rxfifo) \in Packet
        /\ commands \in Nat
    BY <1>1, HeadIs, DimmerLinkAssumption DEF InRx, Types
  <1>3. Head(rxfifo).cmd # "garbage"
    BY <1>2 DEF Packet, Command
  <1>4. last.id # commands
    BY <1>2 DEF Carried
  <1>5. last.born < Head(rxfifo).born
    BY <1>2, <1>4 DEF Order, InOrder
  <1>6. ~ (Head(rxfifo).born <= last.born)
    BY <1>2, <1>5, BornTypes DEF Packet
  <1>7. ~ Addressed(Head(rxfifo)) \/ OutOfReach(Head(rxfifo))
    BY <1>1, <1>6, RefusedOutOfReach DEF NewerRefusedOutOfReach
  <1> QED
    BY <1>3, <1>7 DEF Refuse

LEMMA FlowStep ==
  ASSUME Types, Clocks, Delays, Labels, Carried, Order, [Next]_vars, commands > 0, ~ collided,
         commands \notin executed', commands \notin executed,
         ~ \E c \in Command : Call(c), ~ McuRestart,
         NEW m, m = missed + Count(txfifo, commands) + Count(rxfifo, commands),
         NEW n, n = missed' + Count(txfifo', commands) + Count(rxfifo', commands)
  PROVE  /\ n >= m
         /\ Upload("net") => n >= m + 1
         /\ missed' = missed + 1 /\ TrySend => n >= m + 1
  <1> DEFINE tx  == Count(txfifo, commands)
             rx  == Count(rxfifo, commands)
             tx1 == Count(txfifo', commands)
             rx1 == Count(rxfifo', commands)
             One(p) == IF p.id = commands THEN 1 ELSE 0
  <1>1. /\ txfifo \in Seq(Packet) /\ rxfifo \in Seq(Packet)
        /\ txfifo' \in Seq(Packet) /\ rxfifo' \in Seq(Packet)
        /\ missed \in Nat /\ missed' \in Nat
    BY FifoTypes DEF Types
  <1>2. /\ m = missed + tx + rx /\ n = missed' + tx1 + rx1
        /\ missed \in Nat /\ missed' \in Nat
    BY <1>1
  <1>3. tx \in Nat /\ rx \in Nat /\ tx1 \in Nat /\ rx1 \in Nat
    BY <1>1, CountType
  <1>4. Tries(txfifo) = tx /\ Tries(rxfifo) = rx
    BY TriesCount
  <1>5. \A s \in Seq(Packet) : s = <<>> => Count(s, commands) = 0
    <2>1. Tries(<<>>) = 0 /\ Tries(<<>>) = Count(<<>>, commands)
      BY PacketsTypes, TriesCount
    <2> QED
      BY <2>1, Zenon
  <1>6. \A p \in Packet : Tries(<<p>>) = One(p)
    BY TriesCount, CountOne
  <1>7. \A s \in Seq(Packet) : s # <<>> => Count(Tail(s), commands) = Count(s, commands) - One(Head(s))
    BY CountTail
  <1>8. \A s \in Seq(Packet), p \in Packet : Count(Append(s, p), commands) = Count(s, commands) + One(p)
    BY CountAppend
  <1>9. \A p : One(p) \in {0, 1}
    OBVIOUS
  <1>10. ASSUME NEW t \in Tasks, Upload(t)
         PROVE  n = m + One(task[t].pkg)
    <2> DEFINE p == task[t].pkg
    <2>1. p \in Packet /\ rx1 = rx
      BY <1>10, UploadDoes DEF Upload, dimmer
    <2>2. \/ tx1 = tx /\ missed' = missed + One(p)
          \/ tx1 = tx + One(p) /\ missed' = missed
      BY ZenonT(40), <1>1, <1>6, <1>8, <1>10, <2>1, UploadDoes
    <2> HIDE DEF tx, rx, tx1, rx1, One
    <2>3. One(p) \in {0, 1}
      BY <1>9
    <2>4. CASE tx1 = tx /\ missed' = missed + One(p)
      BY <1>2, <1>3, <2>1, <2>3, <2>4
    <2>5. CASE tx1 = tx + One(p) /\ missed' = missed
      BY <1>2, <1>3, <2>1, <2>3, <2>5
    <2> QED
      BY <2>2, <2>4, <2>5
  <1>11. ASSUME Upload("net")
         PROVE  n >= m + 1
    <2>1. "net" \in Tasks
      BY DEF Tasks
    <2>2. task["net"].pc # "idle"
      BY <1>11, <2>1, UploadDoes
    <2>3. One(task["net"].pkg) = 1
      BY <2>2 DEF Labels
    <2>4. n = m + 1
      BY <1>10, <1>11, <2>1, <2>3
    <2> HIDE DEF tx, rx, tx1, rx1, One
    <2> QED
      BY <1>2, <1>3, <2>4
  <1>12. ASSUME TrySend
         PROVE  n >= m /\ (missed' = missed + 1 => n >= m + 1)
    <2>1. tx1 = tx /\ rx1 = rx
      BY <1>12 DEF TrySend, dimmer
    <2>2. missed' = missed + 1 \/ missed' = missed
      BY <1>12, TryDoes
    <2> HIDE DEF tx, rx, tx1, rx1
    <2>3. CASE missed' = missed + 1
      BY <1>2, <1>3, <2>1, <2>3
    <2>4. CASE missed' = missed
      BY <1>2, <1>3, <2>1, <2>4
    <2> QED
      BY <2>2, <2>3, <2>4
  <1>13. ASSUME NEW t \in Tasks, Upload(t)
         PROVE  n >= m
    <2>1. n = m + One(task[t].pkg)
      BY <1>10, <1>13
    <2>2. One(task[t].pkg) \in {0, 1}
      BY <1>9
    <2> HIDE DEF tx, rx, tx1, rx1, One
    <2> QED
      BY <1>2, <1>3, <2>1, <2>2
  <1>14. ASSUME Lose
         PROVE  n >= m
    <2> DEFINE p == Head(txfifo)
    <2>1. txfifo # <<>> /\ txfifo' = Tail(txfifo) /\ missed' = missed + Tries(<<p>>)
          /\ rxfifo' = rxfifo /\ p \in Packet
      BY <1>14, PacketsTypes DEF Lose, OnAir, dimmer
    <2>2. missed' = missed + One(p) /\ tx1 = tx - One(p) /\ rx1 = rx
      BY <1>1, <1>6, <1>7, <2>1
    <2>3. One(p) \in {0, 1}
      BY <1>9
    <2> HIDE DEF tx, rx, tx1, rx1, One, p
    <2> QED
      BY <1>2, <1>3, <2>2, <2>3
  <1>15. ASSUME Deliver
         PROVE  n >= m
    <2> DEFINE p == Head(txfifo)
    <2>1. txfifo # <<>> /\ txfifo' = Tail(txfifo) /\ missed' = missed
          /\ rxfifo' = Append(rxfifo, p) /\ p \in Packet
      BY <1>15, PacketsTypes DEF Deliver, OnAir, history
    <2>2. missed' = missed /\ tx1 = tx - One(p) /\ rx1 = rx + One(p)
      BY <1>1, <1>7, <1>8, <2>1
    <2>3. One(p) \in {0, 1}
      BY <1>9
    <2> HIDE DEF tx, rx, tx1, rx1, One, p
    <2> QED
      BY <1>2, <1>3, <2>2, <2>3
  <1>16. ASSUME FlushTX
         PROVE  n >= m
    <2>1. txfifo' = <<>> /\ missed' = missed + Tries(txfifo) /\ rxfifo' = rxfifo
      BY <1>16 DEF FlushTX, dimmer
    <2>2. missed' = missed + tx /\ tx1 = 0 /\ rx1 = rx
      BY <1>1, <1>4, <1>5, <2>1
    <2> HIDE DEF tx, rx, tx1, rx1
    <2> QED
      BY <1>2, <1>3, <2>2
  <1>17. ASSUME Refuse
         PROVE  n >= m
    <2> DEFINE p == Head(rxfifo)
    <2>1. rxfifo # <<>> /\ rxfifo' = Tail(rxfifo) /\ txfifo' = txfifo /\ p \in Packet
      BY <1>17, PacketsTypes DEF Refuse, CanRefuse, chip
    <2>2. tx1 = tx /\ rx1 = rx - One(p)
      BY <1>1, <1>7, <2>1
    <2>3. CASE p.id = commands
      <3>1. missed' = missed + Tries(<<p>>)
        BY <1>17, <2>3, RefusedIsMissed
      <3>2. missed' = missed + 1 /\ One(p) = 1
        BY <1>6, <2>1, <2>3, <3>1
      <3> HIDE DEF tx, rx, tx1, rx1, One, p
      <3> QED
        BY <1>2, <1>3, <2>2, <3>2
    <2>4. CASE p.id # commands
      <3>1. missed' = missed + IF p.cmd # "garbage" /\ (~ Addressed(p) \/ OutOfReach(p))
                               THEN Tries(<<p>>) ELSE 0
        BY <1>17 DEF Refuse
      <3>2. Tries(<<p>>) = 0 /\ One(p) = 0
        BY <1>6, <2>1, <2>4
      <3>3. missed' = missed
        BY <1>2, <3>1, <3>2
      <3> HIDE DEF tx, rx, tx1, rx1, One, p
      <3> QED
        BY <1>2, <1>3, <2>2, <3>2, <3>3
    <2> QED
      BY <2>3, <2>4
  <1>18. ASSUME Execute
         PROVE  n >= m
    <2> DEFINE p == Head(rxfifo)
    <2>1. /\ rxfifo # <<>> /\ rxfifo' = Tail(rxfifo) /\ txfifo' = txfifo /\ p \in Packet
          /\ missed' = missed /\ executed' = executed \cup ({p.id} \ {0})
      BY <1>18, PacketsTypes DEF Execute, CanExecute, chip
    <2>2. commands # 0
      BY DimmerLinkAssumption DEF Types
    <2>3. One(p) = 0
      BY <2>1, <2>2
    <2>4. missed' = missed /\ tx1 = tx /\ rx1 = rx - One(p)
      BY <1>1, <1>7, <2>1
    <2> HIDE DEF tx, rx, tx1, rx1, One, p
    <2> QED
      BY <1>2, <1>3, <2>3, <2>4
  <1>19. ASSUME DimmerBoots
         PROVE  n >= m
    <2>1. rxfifo' = <<>> /\ missed' = missed + Tries(rxfifo) - Tries(<<>>) /\ txfifo' = txfifo
      BY <1>19 DEF DimmerBoots, Forgotten, FifoAtBoot, chip
    <2>2. tx1 = tx /\ rx1 = 0
      BY <1>1, <1>5, <2>1
    <2>3. missed' = missed + rx
      BY <1>2, <1>3, <1>4, <2>1, PacketsTypes
    <2> HIDE DEF tx, rx, tx1, rx1
    <2> QED
      BY <1>2, <1>3, <2>2, <2>3
  <1>20. ASSUME ~ \E t \in Tasks : Upload(t), ~ TrySend, ~ Lose, ~ Deliver, ~ FlushTX, ~ Refuse,
                ~ Execute, ~ DimmerBoots
         PROVE  n >= m
    <2>1. txfifo' = txfifo /\ rxfifo' = rxfifo /\ missed' = missed
      <3>1. CASE \E t \in Tasks : Stamp(t) \/ Upload(t) \/ Transmitted(t)
        BY <1>20, <3>1 DEF Stamp, Transmitted, chip, dimmer, history
      <3>2. CASE ~ \E t \in Tasks : Stamp(t) \/ Upload(t) \/ Transmitted(t)
        BY <1>20, <3>2 DEF Next, Frame, Return, Jam, DimmerPowerLoss, Tick, vars, chip, dimmer,
           history
      <3> QED
        BY <3>1, <3>2
    <2>2. tx1 = tx /\ rx1 = rx
      BY <2>1
    <2> HIDE DEF tx, rx, tx1, rx1
    <2> QED
      BY <1>2, <1>3, <2>1, <2>2
  <1>21. n >= m
    BY <1>12, <1>13, <1>14, <1>15, <1>16, <1>17, <1>18, <1>19, <1>20
  <1> QED
    BY <1>11, <1>12, <1>21

LEMMA CountedStep ==
  ASSUME Types, Clocks, Delays, Labels, Carried, Order, Counted, [Next]_vars
  PROVE  Counted'
  <1>0. /\ Types' /\ commands \in Nat /\ missed' \in Nat /\ TX_COMMAND_RETRIES \in Nat
        /\ txfifo \in Seq(Packet) /\ rxfifo \in Seq(Packet) /\ missed \in Nat
        /\ txfifo' \in Seq(Packet) /\ rxfifo' \in Seq(Packet)
    BY SMTT(30), TypesStep, DimmerLinkAssumption DEF Types
  <1>1. /\ Tries(txfifo)' = Count(txfifo', commands') /\ Tries(rxfifo)' = Count(rxfifo', commands')
        /\ Count(txfifo', commands') \in Nat /\ Count(rxfifo', commands') \in Nat
    BY <1>0, CountType DEF Tries, Count, Of
  <1>2. CASE \E c \in Command : Call(c)
    <2>1. missed' = 0 /\ try' = 0 /\ command' # "none" /\ task' = task /\ command = "none"
      BY <1>2 DEF Call, Command
    <2>2. Begun' = 0
      BY <2>1 DEF Begun, Labels
    <2> QED
      BY <1>1, <2>1, <2>2 DEF Counted
  <1>3. CASE ~ \E c \in Command : Call(c)
    <2> SUFFICES ASSUME commands' > 0, ~ collided', commands' \notin executed'
                 PROVE  missed' + Tries(txfifo)' + Tries(rxfifo)' >= Begun'
      BY DEF Counted
    <2>1. ~ collided /\ commands' = commands /\ commands > 0 /\ commands \notin executed
      BY <1>3, NotCollided, CarriedStep
    <2> DEFINE m == missed + Count(txfifo, commands) + Count(rxfifo, commands)
               n == missed' + Count(txfifo', commands) + Count(rxfifo', commands)
    <2>2. m \in Nat /\ n \in Nat /\ m >= Begun /\ Begun \in Nat
      <3>1. /\ Count(txfifo, commands) \in Nat /\ Count(rxfifo, commands) \in Nat
            /\ Count(txfifo', commands) \in Nat /\ Count(rxfifo', commands) \in Nat
        BY <1>0, CountType
      <3>2. /\ m = missed + Tries(txfifo) + Tries(rxfifo)
            /\ \A a, b, c \in Nat : a + b + c \in Nat
        BY TriesCount
      <3>3. m >= Begun
        BY <2>1, <3>2 DEF Counted
      <3>4. Begun \in Nat
        BY <1>3, BegunStep
      <3>5. m \in Nat /\ n \in Nat
        BY <1>0, <3>1, <3>2, Zenon
      <3> QED
        BY <3>3, <3>4, <3>5
    <2>3. n = missed' + Tries(txfifo)' + Tries(rxfifo)'
      BY <1>1, <2>1
    <2>4. CASE McuRestart
      <3>1. missed' = TX_COMMAND_RETRIES /\ Begun' = TX_COMMAND_RETRIES
        BY <2>4 DEF McuRestart, Begun
      <3> QED
        BY <1>0, <1>1, <3>1
    <2>5. CASE ~ McuRestart
      <3>1. /\ n >= m
            /\ Upload("net") => n >= m + 1
            /\ missed' = missed + 1 /\ TrySend => n >= m + 1
        BY <1>3, <2>1, <2>5, FlowStep
      <3>2. \/ Begun' = Begun
            \/ Upload("net") /\ Begun' = Begun + 1
            \/ TrySend /\ missed' = missed + 1 /\ Begun' = Begun + 1
        BY <1>3, <2>5, BegunStep
      <3> HIDE DEF m, n
      <3>3. n >= Begun'
        BY <2>2, <3>1, <3>2
      <3> QED
        BY <2>3, <3>3
    <2> QED
      BY <2>4, <2>5
  <1> QED
    BY <1>2, <1>3

-----------------------------------------------------------------------------
LEMMA IInvInit ==
  ASSUME Init
  PROVE  IInv
  <1>0. /\ MaxCommands \in Nat /\ HostClock \subseteq Nat /\ "net" \in Tasks /\ "radio" \in Tasks
        /\ now = 0 /\ txfifo = <<>> /\ rxfifo = <<>> /\ last = NoPacket /\ commands = 0
        /\ sequence_seed = 0 /\ last_sequence = 0 /\ command = "none"
        /\ InTx = {} /\ InRx = {} /\ NoPacket \in Packet /\ NoPacket.id = 0 /\ NoPacket.born = 0
    BY DimmerLinkAssumption, NoPacketType DEF Init, InTx, InRx, NoPacket, Tasks
  <1>1. task \in [Tasks -> TaskState] /\ \A t \in Tasks : task[t].pc = "idle"
    BY <1>0 DEF Init, TaskState
  <1>2. Types
    BY <1>0, <1>1 DEF Init, Types
  <1>3. Clocks
    BY <1>0, <1>1 DEF Clocks, Stamped
  <1>4. Delays
    BY <1>0, <1>1 DEF Delays, Stamped
  <1>5. Labels
    BY <1>0, <1>1 DEF Labels
  <1>6. Resets
    BY <1>0 DEF Init, Resets
  <1>7. Carried /\ Order /\ Counted
    BY <1>0 DEF Carried, Order, Counted
  <1> QED
    BY <1>2, <1>3, <1>4, <1>5, <1>6, <1>7 DEF IInv

LEMMA IInvStep ==
  ASSUME IInv, [Next]_vars
  PROVE  IInv'
  BY TypesStep, ClocksStep, DelaysStep, LabelsStep, ResetsStep, CarriedStep, OrderStep, CountedStep
  DEF IInv

LEMMA IInvArrives ==
  ASSUME IInv
  PROVE  CommandArrives
  <1> SUFFICES ASSUME commands > 0, command = "none", txfifo = <<>>, rxfifo = <<>>, ~ collided,
                      commands \notin executed
               PROVE  missed >= TX_COMMAND_RETRIES
    BY DEF CommandArrives
  <1>1. missed + Tries(txfifo) + Tries(rxfifo) >= Begun /\ Begun = TX_COMMAND_RETRIES
    BY DEF IInv, Counted, Begun
  <1>2. Tries(txfifo) = 0 /\ Tries(rxfifo) = 0 /\ missed \in Nat
    BY PacketsTypes DEF IInv, Types
  <1> QED
    BY <1>1, <1>2

(* The inductive invariant: what is known of the numbers, of the times a   *)
(* packet may wait, of the packets' commands, of their order and of where  *)
(* the tries of a command have got to, in every state that can be reached. *)
THEOREM InvariantHolds ==
  Spec => []IInv
  <1>1. Init => IInv
    BY IInvInit
  <1>2. IInv /\ [Next]_vars => IInv'
    BY IInvStep
  <1> QED
    BY <1>1, <1>2, PTL DEF Spec

(* bParsePacket() 248-262 takes packets in the order in which the two      *)
(* tasks of the MCU stamped them, PtInternalTransmit() 140-154, even where *)
(* they were sent in another one: whatever the range of the numbers and    *)
(* the window, if no stamped packet waits longer than a window.            *)
THEOREM OrderOfStamps ==
  Spec => []ExecutedInOrder
  <1>1. IInv => ExecutedInOrder
    BY InOrderOfBirth DEF IInv
  <1> QED
    BY <1>1, InvariantHolds, PTL

(* A packet that was stamped later than the one carried out last is        *)
(* refused, bParsePacket() 258, only after a silence of a window or with   *)
(* another host's clock.                                                   *)
THEOREM RefusedOnlyOutOfReach ==
  Spec => []NewerRefusedOutOfReach
  <1>1. IInv => NewerRefusedOutOfReach
    BY RefusedOutOfReach DEF IInv
  <1> QED
    BY <1>1, InvariantHolds, PTL

(* However often PtTransmit() 186-191 sends a RESET command, the dimmer is *)
(* reset once: when its number is forgotten, no try is left to be taken.   *)
THEOREM OneResetPerCommand ==
  Spec => []ResetOnce
  <1>1. IInv => ResetOnce
    BY DEF IInv, Resets, ResetOnce
  <1> QED
    BY <1>1, InvariantHolds, PTL

(* A command of PtTransmit() that never met the radio task's transmission  *)
(* is carried out, or each of its tries was missed.                        *)
THEOREM CommandCarriedOut ==
  Spec => []CommandArrives
  <1>1. IInv => CommandArrives
    BY IInvArrives
  <1> QED
    BY <1>1, InvariantHolds, PTL
=============================================================================
