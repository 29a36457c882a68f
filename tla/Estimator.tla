------------------------------ MODULE Estimator ------------------------------
(***************************************************************************)
(* The position estimator service, host/services/estimator/src: main.cpp   *)
(* and bmMapHandleToItem.cpp.                                              *)
(*                                                                         *)
(* The main thread takes datagrams of several envelopes from the readers,  *)
(* and enters each sighting under (reader, tag) and under the tag in two   *)
(* open-addressed maps with a mutex per slot.  It holds the mutex of the   *)
(* item all the time, that of the tag for a moment only.  The estimation   *)
(* thread walks over the maps once a second, one mutex at a time: it       *)
(* clears the forces on each tag, lets each item pull at its tag, and      *)
(* moves the tags.  Positions, forces, tag ids and the database are        *)
(* abstracted to which item has pulled how often.                          *)
(***************************************************************************)
EXTENDS Integers, Sequences, FiniteSets, FiniteSetsExt

CONSTANTS
  KnownReader,              \* readers of g_ReaderList; reader 0 is none
  Datagram,                 \* what arrives: [reader, envelopes]
  READER_SLOTS, TAG_SLOTS,  \* slots of g_map_reader and g_map_tag (2^20 each)
  HashMap(_, _),            \* slot of a handle among a number of slots
  STRENGTH_LEVELS_COUNT,    \* 4
  MIN_AGGREGATION_SECONDS,  \* 5
  MAX_AGGREGATION_SECONDS,  \* 16, also the entries of levels[]
  TAGSIGHTING_BUTTON_TIME,  \* 5
  MaxNow, MaxDatagrams      \* bounds: seconds, datagrams

ReaderSlot == 1 .. READER_SLOTS
TagSlot    == 1 .. TAG_SLOTS
Strength   == 0 .. STRENGTH_LEVELS_COUNT - 1
Pos        == 0 .. MAX_AGGREGATION_SECONDS - 1

(* A sighting, one that is answered to with nothing (announcements), or    *)
(* one with a CRC error.                                                   *)
Envelope == [kind : {"sighting", "other", "invalid"}, tag : Nat, strength : Strength,
             button : BOOLEAN]

ASSUME EstimatorAssumption ==
  /\ READER_SLOTS \in Nat \ {0} /\ TAG_SLOTS \in Nat \ {0}
  /\ STRENGTH_LEVELS_COUNT \in Nat \ {0, 1}
  /\ MAX_AGGREGATION_SECONDS \in Nat \ {0}
  /\ MIN_AGGREGATION_SECONDS \in 0 .. MAX_AGGREGATION_SECONDS
  /\ TAGSIGHTING_BUTTON_TIME \in Nat \ {0}
  /\ KnownReader \subseteq Nat \ {0}
  /\ \A d \in Datagram : d.reader \in Nat \ {0} /\ d.envelopes \in Seq(Envelope)

(* A handle that can occur hashes to a slot.                               *)
ASSUME HashMapAssumption ==
  \A d \in Datagram : \A i \in 1 .. Len(d.envelopes) :
    LET u == d.envelopes[i].tag
    IN  /\ HashMap(u, TAG_SLOTS) \in TagSlot
        /\ \A r \in {0, d.reader} : HashMap(<<r, u>>, READER_SLOTS) \in ReaderSlot

VARIABLES
  now,        \* time()
  readers,    \* g_map_reader: handle <<reader, tag>>, mutex and item of each slot
  tags,       \* g_map_tag: handle, mutex and item of each slot
  main,       \* main(): where, the datagram and the locals of the loop over it
  est,        \* ThreadEstimation(): where, slot, button read
  datagrams,  \* bound: datagrams received
  heard,      \* history: sightings of each item since it was wiped
  since,      \* history: estimates of each tag since its button was pressed
  raced       \* history: tags whose press met the countdown of the other thread

history == <<heard, since, raced>>
vars    == <<now, readers, tags, main, est, datagrams, history>>

NoItem  == <<0, 0>>
NoLevel == [time |-> 0, strength |-> [j \in Strength |-> 0]]

EmptyItem ==
  [handle |-> NoItem, mutex |-> "free", tag_id |-> 0, reader |-> FALSE, tag |-> 0,
   last_seen |-> 0, fifo_pos |-> 0, levels |-> [p \in Pos |-> NoLevel],
   strength |-> [j \in Strength |-> 0]]

EmptyTag ==
  [handle |-> 0, mutex |-> "free", button |-> 0, force |-> [s \in ReaderSlot |-> 0]]

Init ==
  /\ now = MAX_AGGREGATION_SECONDS
  /\ readers = [s \in ReaderSlot |-> EmptyItem]
  /\ tags = [s \in TagSlot |-> EmptyTag]
  /\ main = [pc |-> "recv", envelopes |-> <<>>, pkt |-> 1, items |-> 0, decoded |-> 0,
             reader_id |-> 0, timestamp |-> 0, item |-> 1, tag |-> 1, filed |-> {}]
  /\ est = [pass |-> "sleep", slot |-> 1, button |-> 0]
  /\ datagrams = 0
  /\ heard = [s \in ReaderSlot |-> <<>>]
  /\ since = [s \in TagSlot |-> TAGSIGHTING_BUTTON_TIME]
  /\ raced = {}

-----------------------------------------------------------------------------
(* bmMapHandleToItem::Add(): the first slot from that of the hash on that  *)
(* holds the handle or nothing, 0 if there is none or the handle is zero.  *)
Probe(map, n, handle, zero) ==
  LET at(i) == ((HashMap(handle, n) + i - 1) % n) + 1
      hits  == {i \in 0 .. n - 1 : map[at(i)].handle \in {handle, zero}}
  IN  IF handle = zero \/ hits = {} THEN 0 ELSE at(Min(hits))

Envl == main.envelopes[main.pkt]

(* recvfrom(): the next datagram.                                          *)
Receive ==
  /\ main.pc = "recv" /\ datagrams < MaxDatagrams
  /\ \E d \in Datagram :
       main' = [main EXCEPT !.pc = "packet", !.envelopes = d.envelopes, !.pkt = 1,
                  !.items = Len(d.envelopes), !.decoded = 0, !.reader_id = d.reader,
                  !.filed = {}]
  /\ datagrams' = datagrams + 1
  /\ UNCHANGED <<now, readers, tags, est, history>>

EndDatagram ==
  /\ main.pc = "packet" /\ main.items = 0
  /\ main' = [main EXCEPT !.pc = "recv", !.envelopes = <<>>, !.pkt = 1, !.decoded = 0]
  /\ UNCHANGED <<now, readers, tags, est, datagrams, history>>

(* An envelope is decrypted in place, so that one that was decrypted       *)
(* before is garbage (a CRC of 16 bits is taken never to match by chance). *)
Valid == Envl.kind # "invalid" /\ main.decoded = 0

(* A CRC error: the loop goes on, but not to the next envelope.            *)
Invalid ==
  /\ main.pc = "packet" /\ main.items > 0 /\ ~ Valid
  /\ main' = [main EXCEPT !.items = @ - 1, !.decoded = 1]
  /\ UNCHANGED <<now, readers, tags, est, datagrams, history>>

(* Bug variant: what is not a sighting is not stepped over.                *)
NextPacketOfSighting(m) ==
  IF m.envelopes[m.pkt].kind = "other" THEN [m EXCEPT !.pc = "packet"]
  ELSE [m EXCEPT !.pc = "packet", !.pkt = @ + 1, !.decoded = 0]

NextPacket(m) == [m EXCEPT !.pc = "packet", !.pkt = @ + 1, !.decoded = 0]

Decode ==
  /\ main.pc = "packet" /\ main.items > 0 /\ Valid
  /\ LET m == [main EXCEPT !.items = @ - 1, !.decoded = 1]
     IN  main' = IF Envl.kind = "other" THEN NextPacket(m) ELSE [m EXCEPT !.pc = "item"]
  /\ UNCHANGED <<now, readers, tags, est, datagrams, history>>

(* The item of the sighting, new or not, is locked.                        *)
ItemSlot == Probe(readers, READER_SLOTS, <<main.reader_id, Envl.tag>>, NoItem)

AddItem ==
  /\ main.pc = "item" /\ ItemSlot # 0
  /\ readers[ItemSlot].mutex = "free"
  /\ readers' = [readers EXCEPT ![ItemSlot].mutex = "main",
                                ![ItemSlot].handle = <<main.reader_id, Envl.tag>>]
  /\ main' = [main EXCEPT !.pc = "fill", !.item = ItemSlot]
  /\ UNCHANGED <<now, tags, est, datagrams, history>>

(* No slot is left: the sighting is ignored.                               *)
NoSlot ==
  /\ main.pc = "item" /\ ItemSlot = 0
  /\ main' = NextPacket(main)
  /\ UNCHANGED <<now, readers, tags, est, datagrams, history>>

(* Bug variant: a new item is unlocked before it has its tag.              *)
FilledUnlocked(item) ==
  [item EXCEPT !.tag_id = Envl.tag, !.reader = main.reader_id \in KnownReader, !.mutex = "free"]

(* 484-507: an item seen for the first time gets its reader.  The address  *)
(* of an unknown reader is forgotten, for the rest of the datagram too.    *)
Filled(item) == [item EXCEPT !.tag_id = Envl.tag, !.reader = main.reader_id \in KnownReader]

FillItem ==
  LET first == readers[main.item].tag_id = 0
  IN  /\ main.pc = "fill"
      /\ readers' = IF first THEN [readers EXCEPT ![main.item] = Filled(@)] ELSE readers
      /\ main' = [main EXCEPT !.pc = "tag", !.timestamp = now,
                    !.reader_id = IF first /\ @ \notin KnownReader THEN 0 ELSE @]
      /\ UNCHANGED <<now, tags, est, datagrams, history>>

TagOf == Probe(tags, TAG_SLOTS, Envl.tag, 0)

(* 509-531: under the mutex of the tag, the item is tied to it.            *)
AddTag ==
  /\ main.pc = "tag" /\ TagOf # 0
  /\ tags[TagOf].mutex = "free"
  /\ tags' = [tags EXCEPT ![TagOf].handle = Envl.tag]
  /\ readers' = [readers EXCEPT ![main.item].tag = TagOf]
  /\ main' = [main EXCEPT !.pc = "aggregate", !.tag = TagOf]
  /\ UNCHANGED <<now, est, datagrams, history>>

(* No slot, or tag 0: diep() ends the process.                             *)
CantAddTag ==
  /\ main.pc = "tag" /\ TagOf = 0
  /\ main' = [main EXCEPT !.pc = "exit"]
  /\ UNCHANGED <<now, readers, tags, est, datagrams, history>>

AGGREGATION_TIMEOUT(j) ==
  MIN_AGGREGATION_SECONDS
    + ((MAX_AGGREGATION_SECONDS - MIN_AGGREGATION_SECONDS) \div (STRENGTH_LEVELS_COUNT - 1)) * j

(* Strength j as of time t: the recent ones of the ring are added up, by   *)
(* counting from 1 to strength[j] in each of them.                         *)
Recent(levels, t, j) ==
  LET recent == {p \in Pos : t - levels[p].time <= AGGREGATION_TIMEOUT(j)}
  IN  Cardinality(UNION {{p} \X (1 .. levels[p].strength[j]) : p \in recent})

(* Bug variant: the entry that the ring comes to again is not cleared.     *)
LevelKept(level, t) == [level EXCEPT !.time = t]

LevelAt(level, t) == [NoLevel EXCEPT !.time = t]

(* 533-575: a sighting goes to the next entry of the ring, or to the same  *)
(* one in the second of the wipe; an item wiped MAX_AGGREGATION_SECONDS    *)
(* ago is wiped again.                                                     *)
Aggregated(item, t, j) ==
  LET delta_t == t - item.last_seen
      pos     == IF delta_t = 0 THEN item.fifo_pos
                 ELSE (item.fifo_pos + 1) % MAX_AGGREGATION_SECONDS
      level   == IF delta_t = 0 THEN item.levels[pos] ELSE LevelAt(item.levels[pos], t)
      levels  == [item.levels EXCEPT ![pos] = [level EXCEPT !.strength[j] = @ + 1]]
  IN  IF delta_t >= MAX_AGGREGATION_SECONDS
      THEN [item EXCEPT !.levels = EmptyItem.levels, !.strength = EmptyItem.strength,
                        !.fifo_pos = 0, !.last_seen = t]
      ELSE [item EXCEPT !.levels = levels, !.fifo_pos = pos,
              !.strength = IF delta_t = 0 THEN @
                           ELSE [k \in Strength |-> Recent(levels, t, k)]]

Aggregate ==
  LET s     == main.item
      t     == main.timestamp
      delta == t - readers[s].last_seen
  IN  /\ main.pc = "aggregate"
      /\ readers' = [readers EXCEPT ![s] = Aggregated(@, t, Envl.strength)]
      /\ heard' = [heard EXCEPT ![s] =
           IF delta >= MAX_AGGREGATION_SECONDS THEN <<>>
           ELSE IF delta = 0 THEN @
           ELSE Append(@, [time |-> t, strength |-> Envl.strength])]
      /\ main' = [main EXCEPT !.pc = "button"]
      /\ UNCHANGED <<now, tags, est, datagrams, since, raced>>

(* The estimation thread has read the button of slot s to count it down.   *)
CountingDown(s) == est.pass = "query" /\ est.slot = s

(* Bug variant: a press is ignored while an earlier one counts.            *)
PressedOnce(tag) == IF tag.button = 0 THEN [tag EXCEPT !.button = TAGSIGHTING_BUTTON_TIME]
                    ELSE tag

Pressed(tag) == [tag EXCEPT !.button = TAGSIGHTING_BUTTON_TIME]

(* Bug variant: the mutex of the item is left locked on a press.           *)
UnlockedUnlessPressed(item) == IF Envl.button THEN item ELSE [item EXCEPT !.mutex = "free"]

Unlocked(item) == [item EXCEPT !.mutex = "free"]

(* 577-594: a press is entered without the mutex of the tag; then the item *)
(* is unlocked.                                                            *)
Press ==
  LET t == main.tag
  IN  /\ main.pc = "button"
      /\ readers' = [readers EXCEPT ![main.item] = Unlocked(@)]
      /\ main' = [NextPacket(main) EXCEPT !.filed = @ \cup {main.pkt}]
      /\ IF Envl.button
         THEN /\ tags' = [tags EXCEPT ![t] = Pressed(@)]
              /\ since' = [since EXCEPT ![t] = 0]
              /\ raced' = IF CountingDown(t) /\ est.button > 0 THEN raced \cup {t}
                          ELSE raced \ {t}
         ELSE UNCHANGED <<tags, since, raced>>
      /\ UNCHANGED <<now, est, datagrams, heard>>

MainThread ==
  \/ EndDatagram \/ Invalid \/ Decode \/ AddItem \/ NoSlot
  \/ FillItem \/ AddTag \/ CantAddTag \/ Aggregate \/ Press

-----------------------------------------------------------------------------
(* ThreadEstimation().  IterateLocked() passes over the slots in order,    *)
(* waiting for the mutex of each one that has a handle.                    *)

NextSlot == [est EXCEPT !.slot = @ + 1]
NextPass(pass) == [est EXCEPT !.pass = pass, !.slot = 1]

Wake ==
  /\ est.pass = "sleep"
  /\ est' = NextPass("reset")
  /\ UNCHANGED <<now, readers, tags, main, datagrams, history>>

(* Bug variant: a tag without a button press is passed over.               *)
ForceResetIfPressed(tag) == IF tag.button > 0 THEN [tag EXCEPT !.force = EmptyTag.force] ELSE tag

(* ThreadIterateForceReset() *)
ForceReset(tag) == [tag EXCEPT !.force = EmptyTag.force]

Reset ==
  /\ est.pass = "reset"
  /\ IF est.slot > TAG_SLOTS
     THEN est' = NextPass("force") /\ UNCHANGED tags
     ELSE /\ est' = NextSlot
          /\ tags[est.slot].handle # 0 => tags[est.slot].mutex = "free"
          /\ tags' = IF tags[est.slot].handle = 0 THEN tags
                     ELSE [tags EXCEPT ![est.slot] = ForceReset(@)]
  /\ UNCHANGED <<now, readers, main, datagrams, history>>

(* ThreadIterateLocked(): an item with a known reader pulls at its tag     *)
(* until MAX_AGGREGATION_SECONDS after it was wiped.                       *)
Pulls(item) == item.reader /\ now - item.last_seen < MAX_AGGREGATION_SECONDS

Pull ==
  /\ est.pass = "force"
  /\ IF est.slot > READER_SLOTS
     THEN est' = NextPass("calc") /\ UNCHANGED tags
     ELSE LET item == readers[est.slot]
          IN  /\ est' = NextSlot
              /\ item.handle # NoItem => item.mutex = "free"
              /\ tags' = IF item.handle # NoItem /\ Pulls(item)
                         THEN [tags EXCEPT ![item.tag].force[est.slot] = @ + 1]
                         ELSE tags
  /\ UNCHANGED <<now, readers, main, datagrams, history>>

(* ThreadIterateForceCalculate() 286: the tag is locked, its button read.  *)
CalcLock ==
  /\ est.pass = "calc"
  /\ IF est.slot > TAG_SLOTS
     THEN est' = NextPass("sleep") /\ UNCHANGED <<tags, since>>
     ELSE IF tags[est.slot].handle = 0
     THEN est' = NextSlot /\ UNCHANGED <<tags, since>>
     ELSE /\ tags[est.slot].mutex = "free"
          /\ tags' = [tags EXCEPT ![est.slot].mutex = "est"]
          /\ est' = [est EXCEPT !.pass = "query", !.button = tags[est.slot].button]
          /\ since' = [since EXCEPT ![est.slot] = Min({@ + 1, TAGSIGHTING_BUTTON_TIME})]
  /\ UNCHANGED <<now, readers, main, datagrams, heard, raced>>

(* Its button is counted down, its position stored in the database.        *)
CalcStore ==
  /\ est.pass = "query"
  /\ tags' = [tags EXCEPT ![est.slot].button = IF est.button > 0 THEN est.button - 1 ELSE @,
                          ![est.slot].mutex = "free"]
  /\ est' = [NextSlot EXCEPT !.pass = "calc", !.button = 0]
  /\ UNCHANGED <<now, readers, main, datagrams, history>>

(* The database refuses the query: diep() ends the process.                *)
QueryFails ==
  /\ est.pass = "query"
  /\ main' = [main EXCEPT !.pc = "exit"]
  /\ UNCHANGED <<now, readers, tags, est, datagrams, history>>

EstimationThread == Wake \/ Reset \/ Pull \/ CalcLock \/ CalcStore

-----------------------------------------------------------------------------
Tick ==
  /\ now < MaxNow
  /\ now' = now + 1
  /\ UNCHANGED <<readers, tags, main, est, datagrams, history>>

Next ==
  main.pc # "exit" /\ (Receive \/ MainThread \/ EstimationThread \/ QueryFails \/ Tick)

Spec == Init /\ [][Next]_vars

(* Both threads go on, and the main thread gets a mutex that is free again *)
(* and again: the other one sleeps a second between two rounds.            *)
FairSpec ==
  Spec /\ SF_vars(main.pc # "exit" /\ MainThread) /\ SF_vars(main.pc # "exit" /\ EstimationThread)

-----------------------------------------------------------------------------
(* An item or tag that the estimation thread can get hold of is complete:  *)
(* it has a tag, and it is the tag of its own handle.                      *)
ItemsComplete ==
  \A s \in ReaderSlot :
    readers[s].handle # NoItem /\ readers[s].mutex = "free" =>
      /\ readers[s].tag \in TagSlot
      /\ tags[readers[s].tag].handle = readers[s].handle[2]

(* strength[] counts exactly the sightings since the last wipe that are    *)
(* recent as of the last of them, and among the last MAX ones: an item     *)
(* heard twice in a second holds half as many seconds.  The sightings in   *)
(* the second of the wipe itself are never counted.                        *)
StrengthExact ==
  \A s \in ReaderSlot : \A j \in Strength :
    LET h == heard[s]
        n == Len(h)
        recent == {k \in 1 .. n : /\ k > n - MAX_AGGREGATION_SECONDS
                                  /\ h[k].strength = j
                                  /\ h[n].time - h[k].time <= AGGREGATION_TIMEOUT(j)}
    IN  readers[s].strength[j] = Cardinality(recent)

(* In a round each item pulls at most once, and only at its own tag, with  *)
(* all tags cleared before, although tags and items are added meanwhile.   *)
PullsOnce ==
  \A t \in TagSlot : \A s \in ReaderSlot :
    /\ tags[t].force[s] <= 1
    /\ tags[t].force[s] = 1 => /\ readers[s].handle[1] \in KnownReader
                               /\ readers[s].handle[2] = tags[t].handle

(* A press shows for TAGSIGHTING_BUTTON_TIME estimates, and each estimate  *)
(* counts once, unless the press came while the other thread counted an    *)
(* earlier one down: that press is lost.                                   *)
ButtonCountsDown ==
  \A t \in TagSlot :
    ~ CountingDown(t) /\ t \notin raced => tags[t].button = TAGSIGHTING_BUTTON_TIME - since[t]

(* At the end of a datagram each valid sighting in it has been entered,    *)
(* unless one before it was invalid, there was no slot for it, or it is of *)
(* tag 0 behind one of the same unknown reader, and so has handle 0.       *)
LostBehindInvalid ==
  main.pc = "packet" /\ main.items = 0 =>
    \A i \in 1 .. Len(main.envelopes) :
      main.envelopes[i].kind = "sighting" /\ i \notin main.filed =>
        \/ \E k \in 1 .. i - 1 : main.envelopes[k].kind = "invalid"
        \/ \A s \in ReaderSlot : readers[s].handle # NoItem
        \/ main.envelopes[i].tag = 0 /\ main.reader_id = 0

(* Neither thread holds the other up for good: every datagram is dealt    *)
(* with, or the process has ended.                                         *)
DatagramDone == main.pc # "recv" ~> main.pc \in {"recv", "exit"}
=============================================================================
