---------------------------- MODULE BeaconRating ----------------------------
(***************************************************************************)
(* The proximity estimator, openbeacon-proxestimator/application: the      *)
(* cache of received beacons, the rating of the tags made from it and the  *)
(* commands for other readers (proto.c, cmd.c).                            *)
(*                                                                         *)
(* The radio task enters each beacon into a ring, sends a command that the *)
(* command task has left in reader_command, and rates the tags now and     *)
(* then: by strength, the weakest transmission first, and by number of     *)
(* packets.  The rating task, of the same priority, prints a copy of the   *)
(* rating.  The command task is of lower priority and runs while the radio *)
(* task waits.  Beacons and commands are abstracted to what is rated and   *)
(* to their number; a word of the rating is a record of its three fields.  *)
(***************************************************************************)
EXTENDS Integers, Sequences, FiniteSets, FiniteSetsExt

CONSTANTS
  Oid, Strength,          \* tag ids and strengths of received beacons
  FIFO_DEPTH,             \* 256
  COUNT_MAX,              \* 0xFF
  LIFETIME,               \* g_BeaconFifoLifeTime
  UPDATE_INTERVAL_MS,
  SORT_PRINT_DEPTH,       \* 8
  NopCommand,             \* the commands that have READER_CMD_NOP as opcode
  MaxNow, MaxLoad         \* bounds: ticks; beacons and commands together

ASSUME BeaconRatingAssumption ==
  /\ Oid \subseteq Nat /\ Strength \subseteq Nat
  /\ FIFO_DEPTH \in Nat \ {0} /\ COUNT_MAX \in Nat \ {0}
  /\ LIFETIME \in Nat \ {0} /\ UPDATE_INTERVAL_MS \in Nat
  /\ SORT_PRINT_DEPTH \in Nat \ {0}
  /\ NopCommand \subseteq Nat \ {0}

VARIABLES
  now,        \* xTaskGetTickCount()
  cache,      \* g_BeaconCache; an entry without BCFLAGS_VALIDENTRY is NoBeacon
  head,       \* g_BeaconCacheHead
  radio,      \* vnRFtaskRxTx(): where, LastUpdateTicks, words left to publish
  semaphore,  \* PtSemaphore: "free" or the task that has taken it
  sorted,     \* g_BeaconSort, its first g_BeaconSortSize entries
  rating,     \* vnRFtaskRating(): where, number to copy, g_BeaconSortPrint
  slot,       \* last_reader_id, opcode and data: number of the command each is from
  cmd,        \* wifi_tx_reader_command(): where, number of the command
  heard,      \* history: beacons received
  rated,      \* history: the rating as it was to be, at the last update
  copied,     \* history: rated when the rating task began to copy
  air,        \* history: the commands sent, as the fields of slot
  met         \* history: commands that met a transmission or the next command

beacons == <<cache, head, heard>>
table   == <<semaphore, sorted, rated>>
report  == <<rating, copied>>
command == <<slot, cmd, air, met>>
vars    == <<now, beacons, radio, table, report, command>>

Load     == Len(heard) + cmd.number
Slot     == 1 .. FIFO_DEPTH
NoBeacon == <<>>

Init ==
  /\ now = 0
  /\ cache = [s \in Slot |-> NoBeacon] /\ head = 1 /\ heard = <<>>
  /\ radio = [pc |-> "receive", last |-> 0, words |-> <<>>]
  /\ semaphore = "free" /\ sorted = <<>> /\ rated = <<>>
  /\ rating = [pc |-> "idle", items |-> 0, printed |-> <<>>] /\ copied = <<>>
  /\ slot = [reader |-> 0, opcode |-> 0, data |-> 0]
  /\ cmd = [pc |-> "idle", number |-> 0]
  /\ air = <<>> /\ met = {}

-----------------------------------------------------------------------------
(* vnRFUpdateRating(): the passes over g_BeaconSortTmp.  A word is         *)
(* (strength << 24) | (rest << 16) | oid, where rest is COUNT_MAX - count. *)
Word(strength, rest, oid) == [strength |-> strength, rest |-> rest, oid |-> oid]
ZeroWord == Word(0, 0, 0)

Below(v, w) ==
  \/ v.strength < w.strength
  \/ v.strength = w.strength /\ v.rest < w.rest
  \/ v.strength = w.strength /\ v.rest = w.rest /\ v.oid < w.oid

(* The members of a set, in the order given by before.                     *)
Ordered(S, before(_, _)) ==
  CHOOSE s \in [1 .. Cardinality(S) -> S] : \A i, j \in DOMAIN s : i < j => before(s[i], s[j])

(* sort() *)
Ascending(words) ==
  LET order == Ordered(DOMAIN words,
                 LAMBDA i, j : Below(words[i], words[j]) \/ (words[i] = words[j] /\ i < j))
  IN  [k \in DOMAIN words |-> words[order[k]]]

(* 152-169: a run of equal words grows, or becomes one word with its count.*)
Start(words) == [word |-> words[1], count |-> 1, out |-> <<>>]

Grown(a) == [a EXCEPT !.count = @ + 1]

Closed(words, a, i) ==
  [word  |-> words[Min({i + 1, Len(words)})],
   count |-> 1,
   out   |-> Append(a.out, [a.word EXCEPT !.rest = COUNT_MAX - Min({a.count, COUNT_MAX})])]

(* Bug variant: the last run is closed by a change only.                   *)
CountStepByChange(words, a, i) ==
  IF i < Len(words) /\ words[i + 1] # a.word THEN Closed(words, a, i) ELSE Grown(a)

CountStep(words, a, i) ==
  IF i = Len(words) \/ words[i + 1] # a.word THEN Closed(words, a, i) ELSE Grown(a)

Counted(words) ==
  LET at[i \in 0 .. Len(words)] ==
        IF i = 0 THEN Start(words) ELSE CountStep(words, at[i - 1], i)
  IN  at[Len(words)].out

(* 174-188: of the words of a tag the first one is kept.                   *)
Cleared(words, i) ==
  IF words[i].oid = 0 THEN words
  ELSE [k \in DOMAIN words |->
          IF k > i /\ words[k].oid = words[i].oid THEN ZeroWord ELSE words[k]]

WithoutDuplicates(words) ==
  LET at[i \in 0 .. Len(words)] == IF i = 0 THEN words ELSE Cleared(at[i - 1], i)
  IN  at[Len(words)]

(* 147-189: a single word is left as it is, without a count.               *)
Rated(words) ==
  IF Len(words) > 1 THEN WithoutDuplicates(Ascending(Counted(Ascending(words)))) ELSE words

(* 202-204: an entry of the rating.                                        *)
Entry(word) == [strength |-> word.strength, packets |-> COUNT_MAX - word.rest, oid |-> word.oid]

-----------------------------------------------------------------------------
(* The rating as it is meant: the live ones of the last FIFO_DEPTH beacons *)
(* count, each tag with its lowest strength and the packets of that        *)
(* strength.  Three peculiarities: a beacon that is the only one counts as *)
(* COUNT_MAX, tag 0 has an entry for each strength, and one whose word is  *)
(* zero has none.                                                          *)
LiveOnes(t) ==
  {k \in 1 .. Len(heard) : k > Len(heard) - FIFO_DEPTH /\ t - heard[k].time < LIFETIME}

Packets(t, o, s) ==
  IF Cardinality(LiveOnes(t)) = 1 THEN COUNT_MAX
  ELSE Min({Cardinality({k \in LiveOnes(t) : heard[k].oid = o /\ heard[k].strength = s}), COUNT_MAX})

Listed(t) ==
  {k \in LiveOnes(t) :
     \/ heard[k].oid = 0
     \/ \A j \in LiveOnes(t) : heard[j].oid = heard[k].oid => heard[k].strength <= heard[j].strength}

Entries(t) ==
  {[strength |-> heard[k].strength,
    packets  |-> Packets(t, heard[k].oid, heard[k].strength),
    oid      |-> heard[k].oid] : k \in Listed(t)}

(* By strength, then the most packets first, then by tag.                  *)
EntryBefore(d, e) ==
  Below(Word(d.strength, - d.packets, d.oid), Word(e.strength, - e.packets, e.oid))

Rating(t) == Ordered(Entries(t) \ {Entry(ZeroWord)}, EntryBefore)

-----------------------------------------------------------------------------
(* vnRFtaskRxTx() *)

(* 347-436: a beacon is entered into the cache.                            *)
Receive ==
  /\ radio.pc = "receive" /\ Load < MaxLoad
  /\ \E o \in Oid, s \in Strength :
       LET b == [oid |-> o, strength |-> s, time |-> now]
       IN  cache' = [cache EXCEPT ![head] = b] /\ heard' = Append(heard, b)
  /\ head' = (head % FIFO_DEPTH) + 1
  /\ UNCHANGED <<now, radio, table, report, command>>

(* 442-449: a command is copied and its transmission begins.               *)
SendCommand ==
  /\ radio.pc = "receive" /\ slot.opcode # 0
  /\ radio' = [radio EXCEPT !.pc = "send"]
  /\ air' = Append(air, slot)
  /\ met' = IF cmd.pc = "data" THEN met \cup {cmd.number} ELSE met
  /\ UNCHANGED <<now, beacons, table, report, slot, cmd>>

(* Bug variant: the command stays where it is.                             *)
SentStays == slot

(* 450: some milliseconds later.                                           *)
Sent == [slot EXCEPT !.opcode = 0]

CommandSent ==
  /\ radio.pc = "send"
  /\ radio' = [radio EXCEPT !.pc = "update"]
  /\ slot' = Sent
  /\ UNCHANGED <<now, beacons, table, report, cmd, air, met>>

NoCommand ==
  /\ radio.pc = "receive" /\ slot.opcode = 0
  /\ radio' = [radio EXCEPT !.pc = "update"]
  /\ UNCHANGED <<now, beacons, table, report, command>>

(* 137: a beacon counts for the lifetime.                                  *)
Fresh(b) == now - b.time < LIFETIME

(* 133-145: old entries are cleared, the others have a word each.          *)
Kept ==
  [s \in Slot |-> IF cache[s] # NoBeacon /\ ~ Fresh(cache[s]) THEN NoBeacon ELSE cache[s]]

LiveWords ==
  LET kept == Kept
      list == Ordered({s \in Slot : kept[s] # NoBeacon}, LAMBDA i, j : i < j)
  IN  [k \in DOMAIN list |-> Word(kept[list[k]].strength, 0, kept[list[k]].oid)]

UpdateRating ==
  /\ radio.pc = "update" /\ now - radio.last > UPDATE_INTERVAL_MS
  /\ cache' = Kept
  /\ radio' = [pc |-> "take", last |-> now, words |-> Rated(LiveWords)]
  /\ UNCHANGED <<now, head, heard, table, report, command>>

NotYet ==
  /\ radio.pc = "update" /\ now - radio.last <= UPDATE_INTERVAL_MS
  /\ radio' = [radio EXCEPT !.pc = "receive"]
  /\ UNCHANGED <<now, beacons, table, report, command>>

(* Bug variant: the rating is published without the semaphore.             *)
Available == TRUE

Free == semaphore = "free"

(* 191-196 *)
BeginPublish ==
  /\ radio.pc = "take" /\ Free
  /\ semaphore' = "radio" /\ sorted' = <<>> /\ rated' = Rating(radio.last)
  /\ radio' = [radio EXCEPT !.pc = "publish"]
  /\ UNCHANGED <<now, beacons, report, command>>

(* A second without the semaphore: the old rating stays.                   *)
GiveUpPublish ==
  /\ radio.pc = "take" /\ ~ Free
  /\ radio' = [radio EXCEPT !.pc = "receive", !.words = <<>>]
  /\ UNCHANGED <<now, beacons, table, report, command>>

(* 197-208: one word at a time.                                            *)
PublishWord ==
  /\ radio.pc = "publish" /\ radio.words # <<>>
  /\ sorted' = IF Head(radio.words) = ZeroWord THEN sorted
               ELSE Append(sorted, Entry(Head(radio.words)))
  /\ radio' = [radio EXCEPT !.words = Tail(@)]
  /\ UNCHANGED <<now, beacons, semaphore, rated, report, command>>

EndPublish ==
  /\ radio.pc = "publish" /\ radio.words = <<>>
  /\ semaphore' = "free"
  /\ radio' = [radio EXCEPT !.pc = "receive"]
  /\ UNCHANGED <<now, beacons, sorted, rated, report, command>>

RadioTask ==
  \/ Receive \/ SendCommand \/ CommandSent \/ NoCommand
  \/ UpdateRating \/ NotYet \/ BeginPublish \/ GiveUpPublish \/ PublishWord \/ EndPublish

-----------------------------------------------------------------------------
(* vnRFtaskRating() and vnRFCopyRating() *)

BeginCopy ==
  /\ rating.pc = "idle" /\ semaphore = "free"
  /\ semaphore' = "rating"
  /\ rating' = [pc |-> "copy", items |-> Min({SORT_PRINT_DEPTH, Len(sorted)}), printed |-> <<>>]
  /\ copied' = rated
  /\ UNCHANGED <<now, beacons, radio, sorted, rated, command>>

CopyEntry ==
  /\ rating.pc = "copy" /\ Len(rating.printed) < rating.items
  /\ rating' = [rating EXCEPT !.printed = Append(@, sorted[Len(@) + 1])]
  /\ UNCHANGED <<now, beacons, radio, table, copied, command>>

EndCopy ==
  /\ rating.pc = "copy" /\ Len(rating.printed) = rating.items
  /\ semaphore' = "free"
  /\ rating' = [rating EXCEPT !.pc = "print"]
  /\ UNCHANGED <<now, beacons, radio, sorted, rated, copied, command>>

(* A second without the semaphore: nothing is printed.                     *)
GiveUpCopy ==
  /\ rating.pc = "idle" /\ semaphore = "radio"
  /\ rating' = [rating EXCEPT !.pc = "print"]
  /\ UNCHANGED <<now, beacons, radio, table, copied, command>>

Printed ==
  /\ rating.pc = "print"
  /\ rating' = [pc |-> "idle", items |-> 0, printed |-> <<>>]
  /\ copied' = <<>>
  /\ UNCHANGED <<now, beacons, radio, table, command>>

RatingTask == BeginCopy \/ CopyEntry \/ EndCopy \/ GiveUpCopy \/ Printed

-----------------------------------------------------------------------------
(* The command task and wifi_tx_reader_command() *)

(* Tasks of higher priority wait: for beacons, for the transmitter, or for *)
(* the time of the next report.                                            *)
Lowest == radio.pc \in {"receive", "send"} /\ rating.pc \in {"idle", "print"}

(* 311: the reader that the next command is for.                           *)
EnterReader ==
  /\ Lowest /\ cmd.pc = "idle" /\ Load < MaxLoad
  /\ cmd' = [pc |-> "opcode", number |-> cmd.number + 1]
  /\ slot' = [slot EXCEPT !.reader = cmd.number + 1]
  /\ met' = IF radio.pc # "send" THEN met \cup ({slot.opcode} \ {0}) ELSE met
  /\ UNCHANGED <<now, beacons, radio, table, report, air>>

(* 312 *)
EnterOpcode ==
  /\ Lowest /\ cmd.pc = "opcode"
  /\ cmd' = [cmd EXCEPT !.pc = "data"]
  /\ slot' = [slot EXCEPT !.opcode = IF cmd.number \in NopCommand THEN 0 ELSE cmd.number]
  /\ met' = IF radio.pc = "send" THEN met \cup {cmd.number} ELSE met
  /\ UNCHANGED <<now, beacons, radio, table, report, air>>

(* 313-314 *)
EnterData ==
  /\ Lowest /\ cmd.pc = "data"
  /\ cmd' = [cmd EXCEPT !.pc = "idle"]
  /\ slot' = [slot EXCEPT !.data = cmd.number]
  /\ UNCHANGED <<now, beacons, radio, table, report, air, met>>

CommandTask == EnterReader \/ EnterOpcode \/ EnterData

Tick ==
  /\ now < MaxNow
  /\ now' = now + 1
  /\ UNCHANGED <<beacons, radio, table, report, command>>

Next == RadioTask \/ RatingTask \/ CommandTask \/ Tick

Spec == Init /\ [][Next]_vars

-----------------------------------------------------------------------------
(* What is published is the rating of the beacons as of the last update,   *)
(* and what is printed is the head of one rating, never of two: the passes *)
(* over words sorted twice, the ring, its ageing and the semaphore give    *)
(* together what Rating() says.                                            *)
RatingExact ==
  /\ semaphore = "free" => sorted = rated
  /\ rating.pc = "print" =>
       rating.printed = SubSeq(copied, 1, Min({SORT_PRINT_DEPTH, Len(copied)}))

(* A command is sent whole and once, unless the radio task came in while   *)
(* it was entered, was still sending the one before, or had not come to it *)
(* when the next one was entered.  No command is ever sent twice.          *)
CommandFate ==
  \A k \in (1 .. cmd.number) \ NopCommand :
    LET sent == {i \in DOMAIN air : air[i].opcode = k}
    IN  /\ Cardinality(sent) <= 1
        /\ cmd.pc = "idle" /\ slot.opcode = 0 /\ k \notin met =>
             \E i \in sent : air[i] = [reader |-> k, opcode |-> k, data |-> k]
=============================================================================
