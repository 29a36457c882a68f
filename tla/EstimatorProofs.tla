--------------------------- MODULE EstimatorProofs ---------------------------
(***************************************************************************)
(* Proofs about Estimator, for maps of every size, every hash, any number  *)
(* of datagrams and rounds: what the estimation thread gets hold of is     *)
(* complete, its strengths are those of its sightings, it pulls once in a  *)
(* round, a press of a button is counted down, and a sighting is lost for  *)
(* one of three reasons only.                                              *)
(***************************************************************************)
EXTENDS Estimator, TLAPS, FiniteSetTheorems, WellFoundedInduction

(* Where the main thread holds the mutex of an item, and where it has a    *)
(* sighting in hand.                                                       *)
Holding  == {"fill", "tag", "aggregate", "button"}
Sighted  == Holding \cup {"item"}
Handling == Sighted \cup {"packet"}

ItemFields == {"handle", "mutex", "tag_id", "reader", "tag", "last_seen", "fifo_pos", "levels",
               "strength"}

(* What the ring and strength[] hold is said by Rings.                     *)
ReadersTyped ==
  /\ DOMAIN readers = ReaderSlot
  /\ \A s \in ReaderSlot :
       /\ DOMAIN readers[s] = ItemFields
       /\ readers[s].handle \in Nat \X Nat
       /\ readers[s].mutex \in {"free", "main"}
       /\ readers[s].reader \in BOOLEAN

TagsTyped ==
  tags \in [TagSlot -> [handle : Nat, mutex : {"free", "est"},
                        button : 0 .. TAGSIGHTING_BUTTON_TIME, force : [ReaderSlot -> {0, 1}]]]

MainFields == {"pc", "envelopes", "pkt", "items", "decoded", "reader_id", "timestamp", "item",
               "tag", "filed"}

MainTyped ==
  /\ DOMAIN main = MainFields
  /\ main.pc \in Handling \cup {"recv", "exit"}
  /\ main.envelopes \in Seq(Envelope)
  /\ main.pkt \in Nat \ {0} /\ main.items \in Nat /\ main.decoded \in {0, 1}
  /\ main.reader_id \in Nat /\ main.timestamp \in Nat
  /\ main.item \in ReaderSlot /\ main.tag \in TagSlot
  /\ main.filed \subseteq Nat

EstTyped ==
  /\ DOMAIN est = {"pass", "slot", "button"}
  /\ est.pass \in {"sleep", "reset", "force", "calc", "query"}
  /\ est.slot \in Nat \ {0} /\ est.button \in 0 .. TAGSIGHTING_BUTTON_TIME
  /\ est.pass = "query" => est.slot \in TagSlot

Types ==
  /\ now \in Nat
  /\ ReadersTyped /\ TagsTyped /\ MainTyped /\ EstTyped
  /\ since \in [TagSlot -> 0 .. TAGSIGHTING_BUTTON_TIME]

(* The datagram in hand, how far the loop has come in it, and what became  *)
(* of the envelopes behind it.                                             *)
InDatagram ==
  main.pc \in Handling =>
    \E d \in Datagram : main.envelopes = d.envelopes /\ main.reader_id \in {0, d.reader}

Position ==
  /\ main.pc = "packet" =>
       IF main.decoded = 0 THEN main.pkt - 1 + main.items = Len(main.envelopes)
       ELSE main.pkt <= Len(main.envelopes) /\ Envl.kind = "invalid"
  /\ main.pc \in Sighted => main.pkt + main.items = Len(main.envelopes)

MapFull == \A s \in ReaderSlot : readers[s].handle # NoItem

Dealt(i) ==
  main.envelopes[i].kind = "sighting" /\ i \notin main.filed =>
    \/ \E k \in 1 .. i - 1 : main.envelopes[k].kind = "invalid"
    \/ MapFull
    \/ main.envelopes[i].tag = 0 /\ main.reader_id = 0

DealtWith == main.pc \in Handling => \A i \in 1 .. main.pkt - 1 : Dealt(i)

(* The item in hand and no other one is locked by the main thread.         *)
OneLocked ==
  \A s \in ReaderSlot :
    readers[s].mutex = "main" => s = main.item /\ main.pc \in Holding \cup {"exit"}

InHand ==
  LET item == readers[main.item]
  IN  /\ main.pc \in Holding =>
           item.mutex = "main" /\ item.handle # NoItem /\ item.handle[2] = Envl.tag
      /\ main.pc = "fill" => item.handle[1] = main.reader_id
      /\ main.pc \in {"aggregate", "button"} =>
           item.tag \in TagSlot /\ tags[item.tag].handle = Envl.tag /\ Envl.tag # 0

Complete ==
  \A s \in ReaderSlot :
    readers[s].handle # NoItem /\ readers[s].mutex = "free" =>
      /\ readers[s].tag \in TagSlot
      /\ tags[readers[s].tag].handle = readers[s].handle[2]
      /\ readers[s].handle[2] # 0

OfKnownReader ==
  \A s \in ReaderSlot : readers[s].reader => readers[s].handle[1] \in KnownReader

(* The forces, as far as the round has come.                               *)
Forces ==
  \A t \in TagSlot : \A s \in ReaderSlot :
    /\ tags[t].force[s] = 1 => /\ readers[s].handle[1] \in KnownReader
                               /\ readers[s].handle[2] = tags[t].handle
                               /\ tags[t].handle # 0
    /\ est.pass = "reset" /\ t < est.slot => tags[t].force[s] = 0
    /\ est.pass = "force" /\ s >= est.slot => tags[t].force[s] = 0

(* A button that is not being counted down, and one that is.               *)
Buttons ==
  \A t \in TagSlot : t \notin raced =>
    IF CountingDown(t) /\ est.button > 0
    THEN tags[t].button = est.button /\ est.button - 1 = TAGSIGHTING_BUTTON_TIME - since[t]
    ELSE tags[t].button = TAGSIGHTING_BUTTON_TIME - since[t]

(* What is remembered of a sighting.                                       *)
Past == [time : Nat, strength : Strength]

(* The ring of an item, i entries back from where it stands.               *)
Back(pos, i) == IF i <= pos THEN pos - i ELSE pos - i + MAX_AGGREGATION_SECONDS

EntryOf(sighting) ==
  [time |-> sighting.time,
   strength |-> [j \in Strength |-> IF j = sighting.strength THEN 1 ELSE 0]]

(* It holds the last sightings, and where there were none yet, entries     *)
(* with a time before all of them.                                         *)
Laid(levels, pos, h) ==
  \A i \in Pos :
    /\ DOMAIN levels[Back(pos, i)] = {"time", "strength"}
    /\ IF i < Len(h) THEN levels[Back(pos, i)] = EntryOf(h[Len(h) - i])
       ELSE levels[Back(pos, i)].time = 0

RecentOnes(h, j) ==
  {k \in 1 .. Len(h) : /\ k > Len(h) - MAX_AGGREGATION_SECONDS
                       /\ h[k].strength = j
                       /\ h[Len(h)].time - h[k].time <= AGGREGATION_TIMEOUT(j)}

RingOf(item, h, timestamp) ==
  /\ h \in Seq(Past)
  /\ item.last_seen \in Nat /\ item.last_seen <= timestamp
  /\ item.last_seen = 0 => h = <<>>
  /\ item.last_seen # 0 => item.last_seen >= MAX_AGGREGATION_SECONDS
  /\ \A k \in 1 .. Len(h) : item.last_seen < h[k].time /\ h[k].time <= timestamp
  /\ item.fifo_pos \in Pos
  /\ DOMAIN item.levels = Pos /\ Laid(item.levels, item.fifo_pos, h)
  /\ DOMAIN item.strength = Strength
  /\ \A j \in Strength : item.strength[j] = Cardinality(RecentOnes(h, j))

Rings ==
  /\ DOMAIN heard = ReaderSlot
  /\ \A s \in ReaderSlot : RingOf(readers[s], heard[s], main.timestamp)

(* The clock is past MAX_AGGREGATION_SECONDS, and a sighting in hand has   *)
(* the latest time.                                                        *)
Clock ==
  /\ MAX_AGGREGATION_SECONDS <= now /\ main.timestamp <= now
  /\ main.pc \in {"tag", "aggregate"} => MAX_AGGREGATION_SECONDS <= main.timestamp

IInv ==
  /\ Types /\ InDatagram /\ Position /\ DealtWith
  /\ OneLocked /\ InHand /\ Complete /\ OfKnownReader
  /\ Forces /\ Buttons
  /\ Clock /\ Rings

-----------------------------------------------------------------------------
(* A set of numbers that is not empty has a least one.                     *)
LEMMA LeastNumber ==
  ASSUME NEW T, T \subseteq Nat, T # {}
  PROVE  \E x \in T : \A y \in T : x <= y
  <1> DEFINE Segment == {0 .. n : n \in T}
             Shorter == StrictSubsetOrdering(Nat)
  <1>1. Segment \subseteq FiniteSubsetsOf(Nat)
    <2> SUFFICES ASSUME NEW n \in T PROVE 0 .. n \in FiniteSubsetsOf(Nat)
      OBVIOUS
    <2>1. IsFiniteSet(0 .. n)
      BY FS_Interval
    <2> QED
      BY <2>1 DEF FiniteSubsetsOf
  <1>2. IsWellFoundedOn(Shorter, FiniteSubsetsOf(Nat))
    BY FS_StrictSubsetOrderingWellFounded
  <1>3. Segment # {}
    OBVIOUS
  <1>4. PICK s \in Segment : \A u \in Segment : ~ (<<u, s>> \in Shorter)
    <2> HIDE DEF Segment, Shorter
    <2> QED
      BY <1>1, <1>2, <1>3, WFMin
  <1>5. PICK x \in T : s = 0 .. x
    OBVIOUS
  <1>6. ASSUME NEW y \in T, y < x
        PROVE  FALSE
    <2>1. 0 .. y \subseteq 0 .. x /\ 0 .. y # 0 .. x
      BY <1>6
    <2>2. <<0 .. y, 0 .. x>> \in Shorter
      BY <2>1 DEF StrictSubsetOrdering
    <2> QED
      BY <2>2, <1>4, <1>5
  <1> QED
    BY <1>6

LEMMA MinInSet ==
  ASSUME NEW T, T \subseteq Nat, T # {}
  PROVE  Min(T) \in T
  BY LeastNumber DEF Min

LEMMA MinOfTwo ==
  ASSUME NEW a \in Nat, NEW b \in Nat
  PROVE  Min({a, b}) = IF a <= b THEN a ELSE b
  <1>1. Min({a, b}) \in {a, b} /\ \A y \in {a, b} : Min({a, b}) <= y
    BY LeastNumber, {a, b} \subseteq Nat, {a, b} # {} DEF Min
  <1> QED
    BY <1>1

(* The i-th slot behind that of the hash, around the end of the map.       *)
Behind(h, i, n) == ((h + i - 1) % n) + 1

LEMMA BehindInMap ==
  ASSUME NEW n \in Nat \ {0}, NEW h \in 1 .. n, NEW i \in 0 .. n - 1
  PROVE  /\ Behind(h, i, n) = IF h + i <= n THEN h + i ELSE h + i - n
         /\ Behind(h, i, n) \in 1 .. n
  <1>1. (h + i - 1) % n = IF h + i <= n THEN h + i - 1 ELSE h + i - 1 - n
    OBVIOUS
  <1> QED
    BY <1>1 DEF Behind

(* A search of the whole map comes by every slot.                          *)
LEMMA EverySlotProbed ==
  ASSUME NEW n \in Nat \ {0}, NEW h \in 1 .. n, NEW s \in 1 .. n
  PROVE  \E i \in 0 .. n - 1 : Behind(h, i, n) = s
  <1> DEFINE i == IF h <= s THEN s - h ELSE s - h + n
  <1>1. i \in 0 .. n - 1
    OBVIOUS
  <1>2. Behind(h, i, n) = s
    BY <1>1, BehindInMap
  <1> QED
    BY <1>1, <1>2

(* bmMapHandleToItem::Add() finds a slot that is free or has the handle,   *)
(* and finds none only if the handle is zero or the map is full.           *)
LEMMA ProbeFinds ==
  ASSUME NEW map, NEW n \in Nat \ {0}, NEW handle, NEW zero, HashMap(handle, n) \in 1 .. n
  PROVE  LET s == Probe(map, n, handle, zero)
         IN  /\ s # 0 => handle # zero /\ s \in 1 .. n /\ map[s].handle \in {handle, zero}
             /\ s = 0 => handle = zero \/ \A t \in 1 .. n : map[t].handle # zero
  <1> DEFINE h == HashMap(handle, n)
             hits == {i \in 0 .. n - 1 : map[Behind(h, i, n)].handle \in {handle, zero}}
  <1>1. Probe(map, n, handle, zero)
          = IF handle = zero \/ hits = {} THEN 0 ELSE Behind(h, Min(hits), n)
    BY DEF Probe, Behind
  <1>2. CASE handle = zero
    BY <1>1, <1>2
  <1>3. CASE handle # zero /\ hits = {}
    <2>1. \A t \in 1 .. n : map[t].handle # zero
      BY SMTT(30), <1>3, EverySlotProbed
    <2> QED
      BY <1>1, <1>3, <2>1
  <1>4. CASE handle # zero /\ hits # {}
    <2>1. Min(hits) \in hits
      BY <1>4, MinInSet
    <2>2. Behind(h, Min(hits), n) \in 1 .. n
      BY <2>1, BehindInMap
    <2> QED
      BY <1>1, <1>4, <2>1, <2>2
  <1> QED
    BY <1>2, <1>3, <1>4

-----------------------------------------------------------------------------
(* What the main thread knows of the envelope in hand.                     *)
LEMMA EnvelopeInHand ==
  ASSUME Types, InDatagram, Position, main.pc \in Sighted
  PROVE  /\ main.pkt \in 1 .. Len(main.envelopes)
         /\ Envl \in Envelope
         /\ HashMap(Envl.tag, TAG_SLOTS) \in TagSlot
         /\ HashMap(<<main.reader_id, Envl.tag>>, READER_SLOTS) \in ReaderSlot
  <1>1. main.pkt \in Nat \ {0} /\ main.items \in Nat /\ main.envelopes \in Seq(Envelope)
    BY DEF Types, MainTyped
  <1>2. main.pkt + main.items = Len(main.envelopes)
    BY DEF Position
  <1>3. main.pkt \in 1 .. Len(main.envelopes)
    BY <1>1, <1>2
  <1>4. Envl \in Envelope
    BY <1>1, <1>3 DEF Envl
  <1>5. PICK d \in Datagram : main.envelopes = d.envelopes /\ main.reader_id \in {0, d.reader}
    BY DEF InDatagram, Handling
  <1> QED
    BY <1>3, <1>4, <1>5, HashMapAssumption DEF Envl

LEMMA ItemFound ==
  ASSUME Types, InDatagram, Position, main.pc \in Sighted
  PROVE  /\ ItemSlot # 0 => /\ ItemSlot \in ReaderSlot
                            /\ <<main.reader_id, Envl.tag>> # NoItem
                            /\ readers[ItemSlot].handle \in {<<main.reader_id, Envl.tag>>, NoItem}
         /\ ItemSlot = 0 => MapFull \/ (main.reader_id = 0 /\ Envl.tag = 0)
  <1>1. HashMap(<<main.reader_id, Envl.tag>>, READER_SLOTS) \in 1 .. READER_SLOTS
    BY EnvelopeInHand DEF ReaderSlot
  <1>2. READER_SLOTS \in Nat \ {0}
    BY EstimatorAssumption
  <1> DEFINE handle == <<main.reader_id, Envl.tag>>
  <1>3. /\ ItemSlot # 0 => /\ handle # NoItem /\ ItemSlot \in 1 .. READER_SLOTS
                            /\ readers[ItemSlot].handle \in {handle, NoItem}
        /\ ItemSlot = 0 =>
             handle = NoItem \/ \A t \in 1 .. READER_SLOTS : readers[t].handle # NoItem
    <2>1. ItemSlot = Probe(readers, READER_SLOTS, handle, NoItem)
      BY DEF ItemSlot
    <2>2. HashMap(handle, READER_SLOTS) \in 1 .. READER_SLOTS
      BY <1>1
    <2> HIDE DEF handle
    <2> QED
      BY <1>2, <2>1, <2>2, ProbeFinds
  <1>4. handle = NoItem <=> main.reader_id = 0 /\ Envl.tag = 0
    BY DEF NoItem
  <1>5. 1 .. READER_SLOTS = ReaderSlot
    BY DEF ReaderSlot
  <1>6. (\A t \in ReaderSlot : readers[t].handle # NoItem) <=> MapFull
    BY DEF MapFull
  <1> HIDE DEF handle
  <1> QED
    BY <1>3, <1>4, <1>5, <1>6 DEF handle

LEMMA TagFound ==
  ASSUME Types, InDatagram, Position, main.pc \in Sighted, TagOf # 0
  PROVE  TagOf \in TagSlot /\ Envl.tag # 0 /\ tags[TagOf].handle \in {Envl.tag, 0}
  <1>1. HashMap(Envl.tag, TAG_SLOTS) \in 1 .. TAG_SLOTS
    BY EnvelopeInHand DEF TagSlot
  <1>2. TAG_SLOTS \in Nat \ {0}
    BY EstimatorAssumption
  <1> QED
    BY <1>1, <1>2, ProbeFinds DEF TagOf, TagSlot

-----------------------------------------------------------------------------
(* Types.                                                                  *)
LEMMA TypesInit == Init => Types
  <1> SUFFICES ASSUME Init PROVE Types
    OBVIOUS
  <1>1. /\ MAX_AGGREGATION_SECONDS \in Nat \ {0} /\ TAGSIGHTING_BUTTON_TIME \in Nat \ {0}
        /\ 1 \in ReaderSlot /\ 1 \in TagSlot
    BY EstimatorAssumption DEF ReaderSlot, TagSlot
  <1>2. ReadersTyped
    BY DEF Init, ReadersTyped, EmptyItem, ItemFields, NoItem
  <1>3. TagsTyped
    BY <1>1 DEF Init, TagsTyped, EmptyTag
  <1>4. MainTyped
    BY <1>1 DEF Init, MainTyped, MainFields, Handling, Sighted, Holding
  <1> QED
    BY <1>1, <1>2, <1>3, <1>4 DEF Init, Types, EstTyped

LEMMA OthersLeaveMain ==
  ASSUME EstimationThread \/ Tick \/ UNCHANGED vars
  PROVE  main' = main /\ readers' = readers
  <1>1. CASE Wake
    BY <1>1 DEF Wake
  <1>2. CASE Reset
    BY <1>2 DEF Reset
  <1>3. CASE Pull
    <2>1. UNCHANGED <<now, readers, main, datagrams, history>>
      BY <1>3 DEF Pull
    <2> QED
      BY <2>1
  <1>4. CASE CalcLock
    BY <1>4 DEF CalcLock
  <1>5. CASE CalcStore
    BY <1>5 DEF CalcStore
  <1>6. CASE Tick
    BY <1>6 DEF Tick
  <1>7. CASE UNCHANGED vars
    BY <1>7 DEF vars
  <1> QED
    BY <1>1, <1>2, <1>3, <1>4, <1>5, <1>6, <1>7 DEF EstimationThread

LEMMA MainTypes ==
  ASSUME Types, InDatagram, Position, [Next]_vars
  PROVE  MainTyped'
  <1> USE DEF MainTyped, MainFields, Handling, Sighted, Holding
  <1>0. MainTyped /\ now \in Nat
    BY DEF Types
  <1>1. CASE Receive
    <2>1. PICK d \in Datagram :
            main' = [main EXCEPT !.pc = "packet", !.envelopes = d.envelopes, !.pkt = 1,
                       !.items = Len(d.envelopes), !.decoded = 0, !.reader_id = d.reader,
                       !.filed = {}]
      BY Zenon, <1>1 DEF Receive
    <2>2. d.envelopes \in Seq(Envelope) /\ d.reader \in Nat
      BY EstimatorAssumption
    <2>3. Len(d.envelopes) \in Nat
      BY <2>2
    <2> QED
      BY <1>0, <2>1, <2>2, <2>3
  <1>2. CASE EndDatagram
    BY <1>0, <1>2 DEF EndDatagram
  <1>3. CASE Invalid
    BY <1>0, <1>3 DEF Invalid
  <1>4. CASE Decode
    BY <1>0, <1>4 DEF Decode, NextPacket
  <1>5. CASE AddItem
    <2>1. ItemSlot \in ReaderSlot
      BY <1>5, ItemFound DEF AddItem
    <2> QED
      BY <1>0, <1>5, <2>1 DEF AddItem
  <1>6. CASE NoSlot
    BY <1>0, <1>6 DEF NoSlot, NextPacket
  <1>7. CASE FillItem
    BY <1>0, <1>7 DEF FillItem
  <1>8. CASE AddTag
    <2>1. TagOf \in TagSlot
      BY <1>8, TagFound DEF AddTag
    <2> QED
      BY <1>0, <1>8, <2>1 DEF AddTag
  <1>9. CASE CantAddTag
    BY <1>0, <1>9 DEF CantAddTag
  <1>10. CASE Aggregate
    BY <1>0, <1>10 DEF Aggregate
  <1>11. CASE Press
    BY <1>0, <1>11 DEF Press, NextPacket
  <1>12. CASE QueryFails
    BY <1>0, <1>12 DEF QueryFails
  <1>13. CASE EstimationThread \/ Tick \/ UNCHANGED vars
    BY <1>0, <1>13, OthersLeaveMain
  <1> QED
    BY <1>1, <1>2, <1>3, <1>4, <1>5, <1>6, <1>7, <1>8, <1>9, <1>10, <1>11, <1>12, <1>13
       DEF Next, MainThread

-----------------------------------------------------------------------------
(* What the main thread's steps do to the items.                           *)
OnlyTouched(s) ==
  /\ DOMAIN readers' = ReaderSlot
  /\ \A x \in ReaderSlot \ {s} : readers'[x] = readers[x]

Alike(item, other) ==
  /\ DOMAIN other = DOMAIN item
  /\ other.handle = item.handle /\ other.reader = item.reader

LEMMA AddItemDoes ==
  ASSUME Types, InDatagram, Position, AddItem
  PROVE  LET s == ItemSlot IN
         /\ s \in ReaderSlot /\ OnlyTouched(s)
         /\ readers[s].mutex = "free"
         /\ DOMAIN readers'[s] = ItemFields
         /\ readers'[s].mutex = "main"
         /\ readers'[s].handle = <<main.reader_id, Envl.tag>>
         /\ <<main.reader_id, Envl.tag>> # NoItem
         /\ readers[s].handle \in {<<main.reader_id, Envl.tag>>, NoItem}
         /\ readers'[s].reader = readers[s].reader
  <1> DEFINE s == ItemSlot
             h == <<main.reader_id, Envl.tag>>
  <1>1. /\ s \in ReaderSlot /\ h # NoItem /\ readers[s].handle \in {h, NoItem}
        /\ readers[s].mutex = "free"
    BY ItemFound DEF AddItem, Sighted
  <1>2. readers' = [readers EXCEPT ![s].mutex = "main", ![s].handle = h]
    BY DEF AddItem
  <1>3. DOMAIN readers = ReaderSlot /\ DOMAIN readers[s] = ItemFields
    BY <1>1 DEF Types, ReadersTyped
  <1> HIDE DEF s, h
  <1>4. /\ OnlyTouched(s) /\ DOMAIN readers'[s] = ItemFields
        /\ readers'[s].mutex = "main" /\ readers'[s].handle = h
        /\ readers'[s].reader = readers[s].reader
    BY <1>1, <1>2, <1>3 DEF OnlyTouched, ItemFields
  <1> QED
    BY <1>1, <1>4 DEF s, h

LEMMA FillItemDoes ==
  ASSUME Types, FillItem
  PROVE  LET s == main.item IN
         /\ s \in ReaderSlot /\ OnlyTouched(s)
         /\ DOMAIN readers'[s] = ItemFields
         /\ readers'[s].mutex = readers[s].mutex
         /\ readers'[s].handle = readers[s].handle
         /\ readers'[s].reader \in BOOLEAN
         /\ readers'[s].reader => readers[s].reader \/ main.reader_id \in KnownReader
  <1> DEFINE s == main.item
  <1>1. /\ s \in ReaderSlot /\ DOMAIN readers = ReaderSlot /\ DOMAIN readers[s] = ItemFields
        /\ readers[s].reader \in BOOLEAN
    BY DEF Types, ReadersTyped, MainTyped
  <1>2. CASE readers[s].tag_id = 0
    <2>1. readers' = [readers EXCEPT ![s] = Filled(@)]
      BY <1>2 DEF FillItem
    <2>2. DOMAIN readers' = ReaderSlot /\ readers'[s] = Filled(readers[s])
      BY <1>1, <2>1
    <2>3. \A x \in ReaderSlot \ {s} : readers'[x] = readers[x]
      BY <1>1, <2>1
    <2>4. /\ DOMAIN Filled(readers[s]) = ItemFields
          /\ Filled(readers[s]).mutex = readers[s].mutex
          /\ Filled(readers[s]).handle = readers[s].handle
          /\ Filled(readers[s]).reader = (main.reader_id \in KnownReader)
      BY <1>1 DEF Filled, ItemFields
    <2> QED
      BY <1>1, <2>2, <2>3, <2>4 DEF OnlyTouched
  <1>3. CASE readers[s].tag_id # 0
    <2>1. readers' = readers
      BY <1>3 DEF FillItem
    <2> QED
      BY <1>1, <2>1 DEF OnlyTouched
  <1> QED
    BY <1>2, <1>3

LEMMA AddTagDoes ==
  ASSUME Types, InDatagram, Position, AddTag
  PROVE  LET s == main.item IN
         /\ s \in ReaderSlot /\ OnlyTouched(s)
         /\ Alike(readers[s], readers'[s])
         /\ readers'[s].mutex = readers[s].mutex
         /\ TagOf \in TagSlot /\ Envl.tag # 0
         /\ readers'[s].tag = TagOf
         /\ tags[TagOf].handle \in {Envl.tag, 0}
         /\ tags' = [tags EXCEPT ![TagOf].handle = Envl.tag]
  <1> DEFINE s == main.item
             t == TagOf
  <1>1. /\ s \in ReaderSlot /\ DOMAIN readers = ReaderSlot /\ DOMAIN readers[s] = ItemFields
    BY DEF Types, ReadersTyped, MainTyped
  <1>2. t \in TagSlot /\ Envl.tag # 0 /\ tags[t].handle \in {Envl.tag, 0}
    BY TagFound DEF AddTag, Sighted, Holding
  <1>3. readers' = [readers EXCEPT ![s].tag = t] /\ tags' = [tags EXCEPT ![t].handle = Envl.tag]
    BY DEF AddTag
  <1> HIDE DEF t
  <1>4. /\ OnlyTouched(s) /\ Alike(readers[s], readers'[s])
        /\ readers'[s].mutex = readers[s].mutex
        /\ readers'[s].tag = t
    BY <1>1, <1>3 DEF OnlyTouched, Alike, ItemFields
  <1> QED
    BY <1>1, <1>2, <1>3, <1>4 DEF t

LEMMA AggregatedKeeps ==
  ASSUME NEW item, DOMAIN item = ItemFields, NEW t, NEW j
  PROVE  /\ Alike(item, Aggregated(item, t, j))
         /\ Aggregated(item, t, j).mutex = item.mutex
         /\ Aggregated(item, t, j).tag = item.tag
  <1> DEFINE delta_t == t - item.last_seen
             pos     == IF delta_t = 0 THEN item.fifo_pos
                        ELSE (item.fifo_pos + 1) % MAX_AGGREGATION_SECONDS
             level   == IF delta_t = 0 THEN item.levels[pos] ELSE LevelAt(item.levels[pos], t)
             levels  == [item.levels EXCEPT ![pos] = [level EXCEPT !.strength[j] = @ + 1]]
             sums    == IF delta_t = 0 THEN item.strength
                        ELSE [k \in Strength |-> Recent(levels, t, k)]
             wiped   == [item EXCEPT !.levels = EmptyItem.levels, !.strength = EmptyItem.strength,
                                     !.fifo_pos = 0, !.last_seen = t]
             counted == [item EXCEPT !.levels = levels, !.fifo_pos = pos, !.strength = sums]
  <1>1. Aggregated(item, t, j)
          = IF delta_t >= MAX_AGGREGATION_SECONDS THEN wiped ELSE counted
    BY Zenon DEF Aggregated
  <1>2. /\ Alike(item, wiped) /\ wiped.mutex = item.mutex /\ wiped.tag = item.tag
        /\ Alike(item, counted) /\ counted.mutex = item.mutex /\ counted.tag = item.tag
    <2> HIDE DEF levels, pos, sums
    <2> QED
      BY DEF Alike, ItemFields
  <1> HIDE DEF wiped, counted
  <1> QED
    BY <1>1, <1>2

LEMMA AggregateDoes ==
  ASSUME Types, Aggregate
  PROVE  LET s == main.item IN
         /\ s \in ReaderSlot /\ OnlyTouched(s)
         /\ Alike(readers[s], readers'[s])
         /\ readers'[s].mutex = readers[s].mutex
         /\ readers'[s].tag = readers[s].tag
  <1> DEFINE s == main.item
  <1>1. /\ s \in ReaderSlot /\ DOMAIN readers = ReaderSlot /\ DOMAIN readers[s] = ItemFields
    BY DEF Types, ReadersTyped, MainTyped
  <1> DEFINE new == Aggregated(readers[s], main.timestamp, Envl.strength)
  <1>2. readers' = [readers EXCEPT ![s] = new]
    BY DEF Aggregate
  <1>3. /\ Alike(readers[s], new)
        /\ new.mutex = readers[s].mutex /\ new.tag = readers[s].tag
    BY <1>1, AggregatedKeeps
  <1> HIDE DEF new
  <1> QED
    BY <1>1, <1>2, <1>3 DEF OnlyTouched

LEMMA PressDoes ==
  ASSUME Types, Press
  PROVE  LET s == main.item IN
         /\ s \in ReaderSlot /\ OnlyTouched(s)
         /\ Alike(readers[s], readers'[s])
         /\ readers'[s].mutex = "free"
         /\ readers'[s].tag = readers[s].tag
  <1> DEFINE s == main.item
  <1>1. /\ s \in ReaderSlot /\ DOMAIN readers = ReaderSlot /\ DOMAIN readers[s] = ItemFields
    BY DEF Types, ReadersTyped, MainTyped
  <1>2. readers' = [readers EXCEPT ![s] = [readers[s] EXCEPT !.mutex = "free"]]
    BY DEF Press, Unlocked
  <1> QED
    BY <1>1, <1>2 DEF OnlyTouched, Alike, ItemFields

(* The other steps leave the items alone.                                  *)
LEMMA ItemsStay ==
  ASSUME Next, ~ AddItem, ~ FillItem, ~ AddTag, ~ Aggregate, ~ Press
  PROVE  readers' = readers
  BY Zenon, OthersLeaveMain DEF Next, MainThread, Receive, EndDatagram, Invalid, Decode, NoSlot, CantAddTag,
     QueryFails

(* A slot that has a handle keeps it.                                      *)
LEMMA HandlesStay ==
  ASSUME Types, InDatagram, Position, [Next]_vars, NEW s \in ReaderSlot,
         readers[s].handle # NoItem
  PROVE  readers'[s].handle = readers[s].handle
  <1>1. CASE AddItem
    BY <1>1, AddItemDoes DEF OnlyTouched
  <1>2. CASE FillItem
    BY <1>2, FillItemDoes DEF OnlyTouched
  <1>3. CASE AddTag
    BY <1>3, AddTagDoes DEF OnlyTouched, Alike
  <1>4. CASE Aggregate
    BY <1>4, AggregateDoes DEF OnlyTouched, Alike
  <1>5. CASE Press
    BY <1>5, PressDoes DEF OnlyTouched, Alike
  <1>6. CASE UNCHANGED vars
    BY <1>6 DEF vars
  <1> QED
    BY <1>1, <1>2, <1>3, <1>4, <1>5, <1>6, ItemsStay

LEMMA ReadersTypes ==
  ASSUME Types, InDatagram, Position, [Next]_vars
  PROVE  ReadersTyped'
  <1>0. ReadersTyped /\ KnownReader \subseteq Nat
    BY EstimatorAssumption DEF Types
  <1>1. CASE AddItem
    <2>1. <<main.reader_id, Envl.tag>> \in Nat \X Nat
      <3>1. main.reader_id \in Nat /\ Envl \in Envelope
        BY <1>1, EnvelopeInHand DEF AddItem, Sighted, Types, MainTyped
      <3> QED
        BY <3>1 DEF Envelope
    <2> HIDE DEF ReadersTyped
    <2>2. ASSUME NEW s \in ReaderSlot
          PROVE  /\ DOMAIN readers'[s] = ItemFields
                 /\ readers'[s].handle \in Nat \X Nat
                 /\ readers'[s].mutex \in {"free", "main"}
                 /\ readers'[s].reader \in BOOLEAN
      BY <1>0, <1>1, <2>1, AddItemDoes DEF OnlyTouched, ReadersTyped
    <2> QED
      BY <1>1, <2>2, AddItemDoes DEF OnlyTouched, ReadersTyped
  <1>2. CASE FillItem
    BY <1>0, <1>2, FillItemDoes DEF OnlyTouched, ReadersTyped
  <1>3. CASE AddTag
    BY <1>0, <1>3, AddTagDoes DEF OnlyTouched, Alike, ReadersTyped
  <1>4. CASE Aggregate
    BY <1>0, <1>4, AggregateDoes DEF OnlyTouched, Alike, ReadersTyped
  <1>5. CASE Press
    BY <1>0, <1>5, PressDoes DEF OnlyTouched, Alike, ReadersTyped
  <1>6. CASE readers' = readers
    BY <1>0, <1>6 DEF ReadersTyped
  <1> QED
    BY <1>1, <1>2, <1>3, <1>4, <1>5, <1>6, ItemsStay DEF vars

-----------------------------------------------------------------------------
(* The envelopes: none of the steps of the estimation thread touches them. *)
LEMMA DatagramStep ==
  ASSUME Types, InDatagram, Position, [Next]_vars
  PROVE  InDatagram'
  <1> USE DEF InDatagram, Handling, Sighted, Holding
  <1>0. DOMAIN main = MainFields
    BY DEF Types, MainTyped
  <1>1. CASE Receive
    <2>1. PICK d \in Datagram :
            main' = [main EXCEPT !.pc = "packet", !.envelopes = d.envelopes, !.pkt = 1,
                       !.items = Len(d.envelopes), !.decoded = 0, !.reader_id = d.reader,
                       !.filed = {}]
      BY Zenon, <1>1 DEF Receive
    <2>2. main'.envelopes = d.envelopes /\ main'.reader_id = d.reader
      BY <1>0, <2>1 DEF MainFields
    <2> QED
      BY <2>2
  <1>2. CASE EndDatagram \/ CantAddTag \/ QueryFails
    <2>1. main'.pc \in {"recv", "exit"}
      BY <1>0, <1>2 DEF EndDatagram, CantAddTag, QueryFails, MainFields
    <2> QED
      BY <2>1
  <1>3. CASE FillItem
    <2>1. /\ main.pc \in Handling /\ main'.envelopes = main.envelopes
          /\ main'.reader_id \in {main.reader_id, 0}
      BY <1>0, <1>3 DEF FillItem, MainFields
    <2> QED
      BY <2>1
  <1>4. CASE Invalid \/ Decode \/ AddItem \/ NoSlot \/ AddTag \/ Aggregate \/ Press
    <2>1. /\ main.pc \in Handling /\ main'.envelopes = main.envelopes
          /\ main'.reader_id = main.reader_id
      BY <1>0, <1>4 DEF Invalid, Decode, AddItem, NoSlot, AddTag, Aggregate, Press, NextPacket,
                        MainFields
    <2> QED
      BY <2>1
  <1>5. CASE EstimationThread \/ Tick \/ UNCHANGED vars
    BY <1>5, OthersLeaveMain
  <1> QED
    BY <1>1, <1>2, <1>3, <1>4, <1>5 DEF Next, MainThread

LEMMA PositionStep ==
  ASSUME Types, Position, [Next]_vars
  PROVE  Position'
  <1> USE DEF Position, Sighted, Holding, Envl
  <1>0. /\ DOMAIN main = MainFields /\ main.pkt \in Nat \ {0} /\ main.items \in Nat
        /\ main.decoded \in {0, 1} /\ main.envelopes \in Seq(Envelope)
        /\ Len(main.envelopes) \in Nat
    BY DEF Types, MainTyped
  <1>1. CASE Receive
    <2>1. PICK d \in Datagram :
            main' = [main EXCEPT !.pc = "packet", !.envelopes = d.envelopes, !.pkt = 1,
                       !.items = Len(d.envelopes), !.decoded = 0, !.reader_id = d.reader,
                       !.filed = {}]
      BY Zenon, <1>1 DEF Receive
    <2>2. /\ main'.pc = "packet" /\ main'.envelopes = d.envelopes /\ main'.pkt = 1
          /\ main'.items = Len(d.envelopes) /\ main'.decoded = 0
      BY <1>0, <2>1 DEF MainFields
    <2>3. Len(d.envelopes) \in Nat
      BY EstimatorAssumption
    <2> QED
      BY <2>2, <2>3
  <1>2. CASE EndDatagram \/ CantAddTag \/ QueryFails
    <2>1. main'.pc \in {"recv", "exit"}
      BY <1>0, <1>2 DEF EndDatagram, CantAddTag, QueryFails, MainFields
    <2> QED
      BY <2>1
  <1>3. CASE Invalid
    <2>1. /\ main.pc = "packet" /\ main.items > 0 /\ ~ Valid
          /\ main'.pc = "packet" /\ main'.pkt = main.pkt /\ main'.decoded = 1
          /\ main'.envelopes = main.envelopes
      BY <1>0, <1>3 DEF Invalid, MainFields
    <2>2. /\ main.decoded = 0 => main.pkt - 1 + main.items = Len(main.envelopes)
          /\ main.decoded = 1 => main.pkt <= Len(main.envelopes) /\ Envl.kind = "invalid"
      BY <2>1
    <2>3. main.pkt <= Len(main.envelopes)
      BY <1>0, <2>1, <2>2
    <2>4. Envl.kind = "invalid"
      BY <1>0, <2>1, <2>2, Zenon DEF Valid
    <2> QED
      BY <2>1, <2>3, <2>4
  <1>4. CASE Decode
    <2>1. /\ main.pc = "packet" /\ main.items > 0 /\ main.decoded = 0
          /\ main'.envelopes = main.envelopes /\ main'.items = main.items - 1
          /\ \/ main'.pc = "packet" /\ main'.pkt = main.pkt + 1 /\ main'.decoded = 0
             \/ main'.pc = "item" /\ main'.pkt = main.pkt
      BY <1>0, <1>4 DEF Decode, NextPacket, Valid, MainFields
    <2>2. main.pkt - 1 + main.items = Len(main.envelopes)
      BY <2>1
    <2> QED
      BY SMTT(30), <1>0, <2>1, <2>2
  <1>5. CASE NoSlot \/ Press
    <2>1. /\ main.pc \in Sighted
          /\ main'.envelopes = main.envelopes /\ main'.items = main.items
          /\ main'.pc = "packet" /\ main'.pkt = main.pkt + 1 /\ main'.decoded = 0
      BY ZenonT(40), <1>0, <1>5 DEF NoSlot, Press, NextPacket, MainFields
    <2> QED
      BY <1>0, <2>1
  <1>6. CASE AddItem \/ FillItem \/ AddTag \/ Aggregate
    <2>1. /\ main.pc \in Sighted /\ main'.pc \in Sighted
          /\ main'.envelopes = main.envelopes /\ main'.items = main.items
          /\ main'.pkt = main.pkt
      BY <1>0, <1>6 DEF AddItem, FillItem, AddTag, Aggregate, MainFields
    <2> QED
      BY <1>0, <2>1
  <1>7. CASE EstimationThread \/ Tick \/ UNCHANGED vars
    BY <1>7, OthersLeaveMain
  <1> QED
    BY <1>1, <1>2, <1>3, <1>4, <1>5, <1>6, <1>7 DEF Next, MainThread

(* A reason why a sighting was not entered stays one.                      *)
LEMMA DealtStays ==
  ASSUME Types, InDatagram, Position, [Next]_vars, NEW i, Dealt(i),
         main'.envelopes = main.envelopes, main.filed \subseteq main'.filed,
         main'.reader_id \in {main.reader_id, 0}
  PROVE  Dealt(i)'
  <1>1. MapFull => MapFull'
    BY HandlesStay DEF MapFull
  <1> QED
    BY <1>1 DEF Dealt

LEMMA DealtStep ==
  ASSUME Types, InDatagram, Position, DealtWith, [Next]_vars
  PROVE  DealtWith'
  <1> USE DEF Handling, Sighted, Holding
  <1>0. /\ DOMAIN main = MainFields /\ main.pkt \in Nat \ {0} /\ main.filed \subseteq Nat
    BY DEF Types, MainTyped
  <1>1. CASE Receive
    <2>1. main'.pkt = 1
      BY <1>0, <1>1 DEF Receive, MainFields
    <2> QED
      BY <2>1 DEF DealtWith
  <1>2. CASE EndDatagram \/ CantAddTag \/ QueryFails
    <2>1. main'.pc \in {"recv", "exit"}
      BY <1>0, <1>2 DEF EndDatagram, CantAddTag, QueryFails, MainFields
    <2> QED
      BY <2>1 DEF DealtWith
  <1>3. CASE Invalid \/ AddItem \/ FillItem \/ AddTag \/ Aggregate
    <2>1. /\ main.pc \in Handling /\ main'.envelopes = main.envelopes
          /\ main'.pkt = main.pkt /\ main'.filed = main.filed
          /\ main'.reader_id \in {main.reader_id, 0}
      BY <1>0, <1>3 DEF Invalid, AddItem, FillItem, AddTag, Aggregate, MainFields
    <2> QED
      BY <2>1, DealtStays DEF DealtWith
  <1>4. CASE Decode \/ NoSlot \/ Press
    <2>1. /\ main.pc \in Handling /\ main'.envelopes = main.envelopes
          /\ main'.pkt \in {main.pkt, main.pkt + 1}
          /\ main.filed \subseteq main'.filed
          /\ main'.reader_id = main.reader_id
      <3>1. CASE Decode
        BY <1>0, <3>1 DEF Decode, NextPacket, MainFields
      <3>2. CASE NoSlot
        BY <1>0, <3>2 DEF NoSlot, NextPacket, MainFields
      <3>3. CASE Press
        BY <1>0, <3>3 DEF Press, NextPacket, MainFields
      <3> QED
        BY <1>4, <3>1, <3>2, <3>3
    <2>2. \A i \in 1 .. main.pkt - 1 : Dealt(i)'
      BY <2>1, DealtStays DEF DealtWith
    <2>3. ASSUME NEW p, p = main.pkt, main'.pkt = p + 1
          PROVE  Dealt(p)'
      <3>1. CASE Decode
        <4>1. Envl.kind = "other"
          BY <1>0, <2>3, <3>1 DEF Decode, NextPacket, MainFields
        <4> QED
          BY <2>1, <2>3, <4>1 DEF Dealt, Envl
      <3>2. CASE NoSlot
        <4>1. MapFull \/ (main.reader_id = 0 /\ Envl.tag = 0)
          BY <3>2, ItemFound DEF NoSlot
        <4>2. MapFull => MapFull'
          BY HandlesStay DEF MapFull
        <4> QED
          BY <2>1, <2>3, <4>1, <4>2 DEF Dealt, Envl
      <3>3. CASE Press
        <4>1. p \in main'.filed
          BY <1>0, <2>3, <3>3 DEF Press, NextPacket, MainFields
        <4> QED
          BY <4>1 DEF Dealt
      <3> QED
        BY <1>4, <3>1, <3>2, <3>3
    <2>4. ASSUME NEW i \in 1 .. main'.pkt - 1
          PROVE  Dealt(i)'
      <3>1. i \in 1 .. main.pkt - 1 \/ (i = main.pkt /\ main'.pkt = main.pkt + 1)
        BY <1>0, <2>1
      <3> QED
        BY <2>2, <2>3, <3>1
    <2> QED
      BY <2>4 DEF DealtWith
  <1>5. CASE EstimationThread \/ Tick \/ UNCHANGED vars
    <2>1. main' = main /\ readers' = readers
      BY <1>5, OthersLeaveMain
    <2> QED
      BY <2>1 DEF DealtWith, Dealt, MapFull
  <1> QED
    BY <1>1, <1>2, <1>3, <1>4, <1>5 DEF Next, MainThread

-----------------------------------------------------------------------------
(* What the steps do to the tags.                                          *)
TagItem == [handle : Nat, mutex : {"free", "est"}, button : 0 .. TAGSIGHTING_BUTTON_TIME,
            force : [ReaderSlot -> {0, 1}]]

LEMMA TagItems == TagsTyped <=> tags \in [TagSlot -> TagItem]
  BY DEF TagsTyped, TagItem

LEMMA PullDoes ==
  ASSUME Types, OneLocked, Complete, OfKnownReader, Forces, Pull
  PROVE  /\ est.pass = "force"
         /\ \/ est.slot > READER_SLOTS /\ est' = NextPass("calc") /\ tags' = tags
            \/ /\ est.slot \in ReaderSlot /\ est' = NextSlot
               /\ \/ tags' = tags
                  \/ \E t \in TagSlot :
                       /\ readers[est.slot].handle[1] \in KnownReader
                       /\ readers[est.slot].handle[2] = tags[t].handle
                       /\ tags[t].handle # 0
                       /\ tags' = [tags EXCEPT ![t].force = [@ EXCEPT ![est.slot] = 1]]
  <1> DEFINE s == est.slot
  <1>0. /\ s \in Nat \ {0} /\ READER_SLOTS \in Nat /\ tags \in [TagSlot -> TagItem]
        /\ est.pass = "force"
    BY SMTT(30), EstimatorAssumption, TagItems DEF Types, EstTyped, Pull
  <1>1. CASE s > READER_SLOTS
    BY <1>0, <1>1 DEF Pull
  <1>2. CASE ~ (s > READER_SLOTS)
    <2>1. s \in ReaderSlot
      BY SMTT(30), <1>0, <1>2 DEF ReaderSlot
    <2>2. /\ est' = NextSlot
          /\ readers[s].handle # NoItem => readers[s].mutex = "free"
          /\ tags' = IF readers[s].handle # NoItem /\ Pulls(readers[s])
                     THEN [tags EXCEPT ![readers[s].tag].force[s] = @ + 1]
                     ELSE tags
      BY SMTT(30), <1>2 DEF Pull
    <2>3. CASE readers[s].handle # NoItem /\ Pulls(readers[s])
      <3> DEFINE t == readers[s].tag
      <3>1. t \in TagSlot /\ tags[t].handle = readers[s].handle[2] /\ tags[t].handle # 0
        BY <2>1, <2>2, <2>3 DEF Complete
      <3>2. readers[s].handle[1] \in KnownReader
        BY <2>1, <2>3 DEF OfKnownReader, Pulls
      <3>3. tags[t].force[s] = 0 /\ tags[t].force \in [ReaderSlot -> {0, 1}]
        BY <1>0, <2>1, <3>1 DEF Forces, TagItem
      <3>4. tags' = [tags EXCEPT ![t].force[s] = @ + 1]
        BY <2>2, <2>3
      <3> HIDE DEF t
      <3>5. tags' = [tags EXCEPT ![t].force = [@ EXCEPT ![s] = 1]]
        BY SMTT(30), <1>0, <2>1, <3>1, <3>3, <3>4
      <3> QED
        BY Zenon, <1>0, <2>1, <2>2, <3>1, <3>2, <3>5 DEF t
    <2>4. CASE ~ (readers[s].handle # NoItem /\ Pulls(readers[s]))
      BY Zenon, <1>0, <2>1, <2>2, <2>4
    <2> QED
      BY <2>3, <2>4
  <1> QED
    BY <1>1, <1>2

(* Types, and that a tag keeps the handle it was given.                    *)
LEMMA TagsStep ==
  ASSUME Types, InDatagram, Position, OneLocked, Complete, OfKnownReader, Forces, [Next]_vars
  PROVE  /\ TagsTyped'
         /\ \A t \in TagSlot : tags[t].handle # 0 => tags'[t].handle = tags[t].handle
  <1>0. /\ tags \in [TagSlot -> TagItem]
        /\ est.slot \in Nat \ {0} /\ est.button \in 0 .. TAGSIGHTING_BUTTON_TIME
        /\ TAGSIGHTING_BUTTON_TIME \in Nat \ {0} /\ TAG_SLOTS \in Nat
        /\ main.tag \in TagSlot
    BY EstimatorAssumption, TagItems DEF Types, EstTyped, MainTyped
  <1> SUFFICES /\ tags' \in [TagSlot -> TagItem]
               /\ \A t \in TagSlot : tags[t].handle # 0 => tags'[t].handle = tags[t].handle
    BY DEF TagsTyped, TagItem
  <1>1. CASE tags' = tags
    BY <1>0, <1>1
  <1>2. ASSUME NEW t \in TagSlot, NEW new \in TagItem, tags' = [tags EXCEPT ![t] = new],
               tags[t].handle # 0 => new.handle = tags[t].handle
        PROVE  /\ tags' \in [TagSlot -> TagItem]
               /\ \A u \in TagSlot : tags[u].handle # 0 => tags'[u].handle = tags[u].handle
    BY <1>0, <1>2
  <1>3. CASE AddTag
    <2> DEFINE t   == TagOf
               new == [tags[t] EXCEPT !.handle = Envl.tag]
    <2>1. /\ t \in TagSlot /\ tags[t].handle \in {Envl.tag, 0}
          /\ tags' = [tags EXCEPT ![t] = new]
      BY <1>3, AddTagDoes
    <2>2. Envl.tag \in Nat
      BY <1>3, EnvelopeInHand DEF AddTag, Sighted, Holding, Envelope
    <2> HIDE DEF t
    <2>3. new \in TagItem /\ new.handle = Envl.tag
      BY <1>0, <2>1, <2>2 DEF TagItem
    <2> QED
      BY <1>2, <2>1, <2>3
  <1>4. CASE Press
    <2> DEFINE new == Pressed(tags[main.tag])
    <2>1. tags' = tags \/ tags' = [tags EXCEPT ![main.tag] = new]
      BY <1>4 DEF Press
    <2>2. new \in TagItem /\ new.handle = tags[main.tag].handle
      BY <1>0 DEF Pressed, TagItem
    <2> QED
      BY <1>0, <1>1, <1>2, <2>1, <2>2
  <1>5. CASE Reset
    <2> DEFINE new == ForceReset(tags[est.slot])
    <2>1. tags' = tags \/ (est.slot \in TagSlot /\ tags' = [tags EXCEPT ![est.slot] = new])
      BY <1>0, <1>5 DEF Reset, TagSlot
    <2>2. est.slot \in TagSlot => new \in TagItem /\ new.handle = tags[est.slot].handle
      BY <1>0 DEF ForceReset, EmptyTag, TagItem
    <2> QED
      BY <1>0, <1>1, <1>2, <2>1, <2>2
  <1>6. CASE Pull
    <2>1. CASE \E t \in TagSlot : tags' = [tags EXCEPT ![t].force = [@ EXCEPT ![est.slot] = 1]]
      <3>1. PICK t \in TagSlot : tags' = [tags EXCEPT ![t].force = [@ EXCEPT ![est.slot] = 1]]
        BY <2>1
      <3> DEFINE new == [tags[t] EXCEPT !.force = [@ EXCEPT ![est.slot] = 1]]
      <3>2. new \in TagItem /\ new.handle = tags[t].handle
        BY <1>0 DEF TagItem
      <3> QED
        BY <1>2, <3>1, <3>2
    <2> QED
      BY <1>1, <1>6, <2>1, PullDoes
  <1>7. CASE CalcLock
    <2> DEFINE new == [tags[est.slot] EXCEPT !.mutex = "est"]
    <2>1. tags' = tags \/ (est.slot \in TagSlot /\ tags' = [tags EXCEPT ![est.slot] = new])
      BY <1>0, <1>7 DEF CalcLock, TagSlot
    <2>2. est.slot \in TagSlot => new \in TagItem /\ new.handle = tags[est.slot].handle
      BY <1>0 DEF TagItem
    <2> QED
      BY <1>0, <1>1, <1>2, <2>1, <2>2
  <1>8. CASE CalcStore
    <2> DEFINE b   == IF est.button > 0 THEN est.button - 1 ELSE tags[est.slot].button
               new == [tags[est.slot] EXCEPT !.button = b, !.mutex = "free"]
    <2>1. est.slot \in TagSlot /\ tags' = [tags EXCEPT ![est.slot] = new]
      BY <1>8 DEF CalcStore, Types, EstTyped
    <2>2. b \in 0 .. TAGSIGHTING_BUTTON_TIME
      BY <1>0, <2>1 DEF TagItem
    <2> HIDE DEF b
    <2>3. new \in TagItem /\ new.handle = tags[est.slot].handle
      BY <1>0, <2>1, <2>2 DEF TagItem
    <2> QED
      BY <1>2, <2>1, <2>3
  <1>9. CASE ~ AddTag /\ ~ Press /\ ~ EstimationThread
    <2>1. tags' = tags
      BY Zenon, <1>9 DEF Next, MainThread, Receive, EndDatagram, Invalid, Decode, AddItem, NoSlot, FillItem,
         CantAddTag, Aggregate, QueryFails, Tick, vars
    <2> QED
      BY <1>1, <2>1
  <1>10. CASE Wake
    BY <1>1, <1>10 DEF Wake
  <1> QED
    BY <1>3, <1>4, <1>5, <1>6, <1>7, <1>8, <1>9, <1>10 DEF EstimationThread

LEMMA NextOnes ==
  ASSUME EstTyped, NEW pass
  PROVE  /\ DOMAIN NextPass(pass) = {"pass", "slot", "button"}
         /\ NextPass(pass).pass = pass /\ NextPass(pass).slot = 1
         /\ NextPass(pass).button = est.button
         /\ DOMAIN NextSlot = {"pass", "slot", "button"}
         /\ NextSlot.pass = est.pass /\ NextSlot.slot = est.slot + 1
         /\ NextSlot.button = est.button
  BY DEF EstTyped, NextPass, NextSlot

LEMMA EstTypes ==
  ASSUME Types, [Next]_vars
  PROVE  EstTyped' /\ (now \in Nat)' /\ (since \in [TagSlot -> 0 .. TAGSIGHTING_BUTTON_TIME])'
  <1> USE DEF EstTyped
  <1>0. /\ EstTyped /\ tags \in [TagSlot -> TagItem] /\ now \in Nat
        /\ since \in [TagSlot -> 0 .. TAGSIGHTING_BUTTON_TIME]
        /\ TAGSIGHTING_BUTTON_TIME \in Nat \ {0} /\ TAG_SLOTS \in Nat /\ main.tag \in TagSlot
    BY SMTT(30), EstimatorAssumption, TagItems DEF Types, MainTyped
  <1>1. CASE Wake
    BY <1>0, <1>1, NextOnes DEF Wake, history
  <1>2. CASE Reset
    <2>1. /\ est' = NextPass("force") \/ est' = NextSlot
          /\ est.pass = "reset" /\ UNCHANGED <<now, since>>
      BY <1>2 DEF Reset, history
    <2> QED
      BY <1>0, <2>1, NextOnes
  <1>3. CASE Pull
    <2>1. /\ est' = NextPass("calc") \/ est' = NextSlot
          /\ est.pass = "force" /\ UNCHANGED <<now, since>>
      BY <1>3 DEF Pull, history
    <2> QED
      BY <1>0, <2>1, NextOnes
  <1>4. CASE CalcLock
    <2>1. CASE est.slot > TAG_SLOTS \/ tags[est.slot].handle = 0
      <3>1. /\ est' = NextPass("sleep") \/ est' = NextSlot
            /\ est.pass = "calc" /\ UNCHANGED <<now, since>>
        BY <1>4, <2>1 DEF CalcLock
      <3> QED
        BY <1>0, <3>1, NextOnes
    <2>2. CASE ~ (est.slot > TAG_SLOTS \/ tags[est.slot].handle = 0)
      <3>1. est.slot \in TagSlot
        BY <1>0, <2>2 DEF TagSlot
      <3>2. /\ est' = [est EXCEPT !.pass = "query", !.button = tags[est.slot].button]
            /\ since' = [since EXCEPT ![est.slot] = Min({@ + 1, TAGSIGHTING_BUTTON_TIME})]
            /\ now' = now
        BY <1>4, <2>2 DEF CalcLock
      <3>3. Min({since[est.slot] + 1, TAGSIGHTING_BUTTON_TIME}) \in 0 .. TAGSIGHTING_BUTTON_TIME
        BY <1>0, <3>1, MinOfTwo
      <3>4. tags[est.slot].button \in 0 .. TAGSIGHTING_BUTTON_TIME
        BY <1>0, <3>1 DEF TagItem
      <3> QED
        BY <1>0, <3>1, <3>2, <3>3, <3>4
    <2> QED
      BY <2>1, <2>2
  <1>5. CASE CalcStore
    <2>1. est.button \in 0 .. TAGSIGHTING_BUTTON_TIME
      BY <1>0
    <2> QED
      BY <1>0, <1>5 DEF CalcStore, NextSlot, history
  <1>6. CASE Tick
    BY <1>0, <1>6 DEF Tick, history
  <1>7. CASE Press
    BY <1>0, <1>7 DEF Press
  <1>8. CASE ~ EstimationThread /\ ~ Tick /\ ~ Press
    <2>1. UNCHANGED <<now, est, since>>
      BY Zenon, <1>8 DEF Next, MainThread, Receive, EndDatagram, Invalid, Decode, AddItem, NoSlot, FillItem,
         AddTag, CantAddTag, Aggregate, QueryFails, history, vars
    <2> QED
      BY SMTT(30), <1>0, <2>1
  <1> QED
    BY <1>1, <1>2, <1>3, <1>4, <1>5, <1>6, <1>7, <1>8 DEF EstimationThread

LEMMA TypesStep ==
  ASSUME Types, InDatagram, Position, OneLocked, Complete, OfKnownReader, Forces, [Next]_vars
  PROVE  Types'
  BY MainTypes, ReadersTypes, TagsStep, EstTypes DEF Types

-----------------------------------------------------------------------------
(* The items.                                                              *)
LEMMA OneLockedStep ==
  ASSUME Types, InDatagram, Position, OneLocked, [Next]_vars
  PROVE  OneLocked'
  <1> USE DEF Holding
  <1>0. DOMAIN main = MainFields
    BY DEF Types, MainTyped
  <1>1. CASE AddItem
    <2>1. main.pc = "item" /\ main'.item = ItemSlot /\ main'.pc = "fill"
      BY <1>0, <1>1 DEF AddItem, MainFields
    <2> QED
      BY <1>1, <2>1, AddItemDoes DEF OneLocked, OnlyTouched
  <1>2. CASE FillItem \/ AddTag \/ Aggregate
    <2>1. main.pc \in Holding /\ main'.item = main.item /\ main'.pc \in Holding
      BY <1>0, <1>2 DEF FillItem, AddTag, Aggregate, MainFields
    <2> QED
      BY <1>2, <2>1, FillItemDoes, AddTagDoes, AggregateDoes DEF OneLocked, OnlyTouched
  <1>3. CASE Press
    BY <1>3, PressDoes DEF OneLocked, OnlyTouched
  <1>4. CASE Receive \/ EndDatagram \/ Invalid \/ Decode \/ NoSlot
    <2>1. main.pc \notin Holding \cup {"exit"} /\ readers' = readers
      BY Zenon, <1>4 DEF Receive, EndDatagram, Invalid, Decode, NoSlot
    <2> QED
      BY <2>1 DEF OneLocked
  <1>5. CASE CantAddTag \/ QueryFails
    <2>1. main'.item = main.item /\ main'.pc = "exit" /\ readers' = readers
      BY <1>0, <1>5 DEF CantAddTag, QueryFails, MainFields
    <2> QED
      BY <2>1 DEF OneLocked
  <1>6. CASE EstimationThread \/ Tick \/ UNCHANGED vars
    BY <1>6, OthersLeaveMain DEF OneLocked
  <1> QED
    BY <1>1, <1>2, <1>3, <1>4, <1>5, <1>6 DEF Next, MainThread

LEMMA KnownReaderStep ==
  ASSUME Types, InDatagram, Position, InHand, OfKnownReader, [Next]_vars
  PROVE  OfKnownReader'
  <1>0. NoItem[1] \notin KnownReader
    BY EstimatorAssumption DEF NoItem
  <1>1. CASE AddItem
    <2>1. ASSUME NEW s \in ReaderSlot, readers'[s].reader
          PROVE  readers'[s].handle[1] \in KnownReader
      <3>1. readers[s].reader
        BY <1>1, <2>1, AddItemDoes DEF OnlyTouched
      <3>2. readers[s].handle[1] \in KnownReader
        BY <3>1 DEF OfKnownReader
      <3>3. readers[s].handle # NoItem
        BY <1>0, <3>2
      <3> QED
        BY <3>2, <3>3, HandlesStay
    <2> QED
      BY <2>1 DEF OfKnownReader
  <1>2. CASE FillItem
    <2>1. readers[main.item].handle[1] = main.reader_id
      BY <1>2 DEF InHand, FillItem
    <2> QED
      BY <1>2, <2>1, FillItemDoes DEF OfKnownReader, OnlyTouched
  <1>3. CASE AddTag \/ Aggregate \/ Press
    BY <1>3, AddTagDoes, AggregateDoes, PressDoes DEF OfKnownReader, OnlyTouched, Alike
  <1>4. CASE readers' = readers
    BY <1>4 DEF OfKnownReader
  <1> QED
    BY <1>1, <1>2, <1>3, <1>4, ItemsStay DEF vars

LEMMA InHandStep ==
  ASSUME Types, InDatagram, Position, OneLocked, InHand, Complete, OfKnownReader, Forces, [Next]_vars
  PROVE  InHand'
  <1> USE DEF Holding
  <1>0. DOMAIN main = MainFields
    BY DEF Types, MainTyped
  <1>1. CASE AddItem
    <2>1. /\ main'.item = ItemSlot /\ main'.pc = "fill" /\ main'.envelopes = main.envelopes
          /\ main'.pkt = main.pkt /\ main'.reader_id = main.reader_id
      BY <1>0, <1>1 DEF AddItem, MainFields
    <2> QED
      BY <1>1, <2>1, AddItemDoes DEF InHand, Envl
  <1>2. CASE FillItem
    <2>1. /\ main'.item = main.item /\ main.pc = "fill" /\ main'.pc = "tag"
          /\ main'.envelopes = main.envelopes /\ main'.pkt = main.pkt
      BY <1>0, <1>2 DEF FillItem, MainFields
    <2> QED
      BY <1>2, <2>1, FillItemDoes DEF InHand, Envl
  <1>3. CASE AddTag
    <2>1. /\ main'.item = main.item /\ main.pc = "tag" /\ main'.pc = "aggregate"
          /\ main'.envelopes = main.envelopes /\ main'.pkt = main.pkt
      BY <1>0, <1>3 DEF AddTag, MainFields
    <2>2. TagOf \in TagSlot /\ Envl.tag # 0 /\ tags'[TagOf].handle = Envl.tag
      <3>1. tags \in [TagSlot -> TagItem]
        BY TagItems DEF Types
      <3> QED
        BY <1>3, <3>1, AddTagDoes DEF TagItem
    <2>3. LET item == readers'[main.item]
          IN  item.mutex = "main" /\ item.handle # NoItem /\ item.handle[2] = Envl.tag
              /\ item.tag = TagOf
      BY <1>3, <2>1, AddTagDoes DEF InHand, Alike
    <2> QED
      BY <2>1, <2>2, <2>3 DEF InHand, Envl
  <1>4. CASE Aggregate
    <2>1. /\ main'.item = main.item /\ main.pc = "aggregate" /\ main'.pc = "button"
          /\ main'.envelopes = main.envelopes /\ main'.pkt = main.pkt /\ tags' = tags
      BY <1>0, <1>4 DEF Aggregate, MainFields
    <2> QED
      BY <1>4, <2>1, AggregateDoes DEF InHand, Envl, Alike
  <1>5. CASE Receive \/ EndDatagram \/ Invalid \/ Decode \/ NoSlot \/ CantAddTag \/ Press \/ QueryFails
    <2>1. main'.pc \notin Holding
      BY Zenon, <1>0, <1>5 DEF Receive, EndDatagram, Invalid, Decode, NoSlot, CantAddTag, Press, QueryFails,
                        NextPacket, MainFields
    <2> QED
      BY <2>1 DEF InHand
  <1>6. CASE EstimationThread \/ Tick \/ UNCHANGED vars
    <2>1. main' = main /\ readers' = readers
      BY <1>6, OthersLeaveMain
    <2> QED
      BY <2>1, TagsStep DEF InHand, Envl
  <1> QED
    BY <1>1, <1>2, <1>3, <1>4, <1>5, <1>6 DEF Next, MainThread

LEMMA CompleteStep ==
  ASSUME Types, InDatagram, Position, OneLocked, InHand, Complete, OfKnownReader, Forces, [Next]_vars
  PROVE  Complete'
  <1> USE DEF Holding
  <1>0. \A s \in ReaderSlot :
          readers'[s] = readers[s] /\ readers[s].handle # NoItem /\ readers[s].mutex = "free" =>
            /\ readers'[s].tag \in TagSlot
            /\ tags'[readers'[s].tag].handle = readers'[s].handle[2]
            /\ readers'[s].handle[2] # 0
    BY TagsStep DEF Complete
  <1>1. CASE AddItem
    BY <1>0, <1>1, AddItemDoes DEF Complete, OnlyTouched
  <1>2. CASE FillItem \/ AddTag \/ Aggregate
    <2>1. readers'[main.item].mutex = "main" /\ OnlyTouched(main.item)
      <3>1. CASE FillItem
        BY <3>1, FillItemDoes DEF InHand, FillItem
      <3>2. CASE AddTag
        BY <3>2, AddTagDoes DEF InHand, AddTag
      <3>3. CASE Aggregate
        BY <3>3, AggregateDoes DEF InHand, Aggregate
      <3> QED
        BY <1>2, <3>1, <3>2, <3>3
    <2> QED
      BY <1>0, <2>1 DEF Complete, OnlyTouched
  <1>3. CASE Press
    <2>1. LET item == readers[main.item]
          IN  item.tag \in TagSlot /\ tags[item.tag].handle = item.handle[2] /\ item.handle[2] # 0
      BY <1>3 DEF InHand, Press
    <2>2. LET item == readers'[main.item]
          IN  item.tag \in TagSlot /\ tags'[item.tag].handle = item.handle[2] /\ item.handle[2] # 0
      BY <1>3, <2>1, TagsStep, PressDoes DEF Alike
    <2> QED
      BY <1>0, <1>3, <2>2, PressDoes DEF Complete, OnlyTouched
  <1>4. CASE readers' = readers
    BY <1>0, <1>4 DEF Complete
  <1> QED
    BY <1>1, <1>2, <1>3, <1>4, ItemsStay DEF vars

-----------------------------------------------------------------------------
(* The forces.                                                             *)
LEMMA ForcesStep ==
  ASSUME Types, InDatagram, Position, OneLocked, InHand, Complete, OfKnownReader, Forces, [Next]_vars
  PROVE  Forces'
  <1>0. /\ tags \in [TagSlot -> TagItem] /\ NoItem[1] \notin KnownReader
        /\ EstTyped /\ est.slot \in Nat \ {0} /\ READER_SLOTS \in Nat /\ TAG_SLOTS \in Nat
        /\ TagSlot \subseteq Nat \ {0} /\ ReaderSlot \subseteq Nat \ {0}
    BY EstimatorAssumption, TagItems DEF Types, EstTyped, NoItem, ReaderSlot, TagSlot
  <1>1. ASSUME NEW t \in TagSlot, NEW s \in ReaderSlot, tags[t].force[s] = 1
        PROVE  /\ readers'[s].handle[1] \in KnownReader
               /\ readers'[s].handle[2] = tags'[t].handle
               /\ tags'[t].handle # 0
    <2>1. /\ readers[s].handle[1] \in KnownReader
          /\ readers[s].handle[2] = tags[t].handle
          /\ tags[t].handle # 0
      BY <1>1 DEF Forces
    <2>2. readers[s].handle # NoItem
      BY <1>0, <2>1
    <2>3. readers'[s].handle = readers[s].handle
      BY <2>2, HandlesStay
    <2> QED
      BY <2>1, <2>3, TagsStep
  <1>2. ASSUME \A t \in TagSlot : tags'[t].force = tags[t].force,
               est' = est \/ est' = NextPass("calc") \/ est' = NextPass("sleep")
                 \/ est'.pass \in {"calc", "query", "sleep"}
        PROVE  Forces'
    BY <1>1, <1>2, <1>0, NextOnes DEF Forces
  <1>3. CASE Wake
    <2>1. est'.pass = "reset" /\ est'.slot = 1 /\ tags' = tags
      BY <1>0, <1>3, NextOnes DEF Wake
    <2> QED
      BY <1>0, <1>1, <2>1 DEF Forces
  <1>4. CASE Reset
    <2>1. CASE est.slot > TAG_SLOTS
      <3>1. est'.pass = "force" /\ est'.slot = 1 /\ tags' = tags /\ est.pass = "reset"
        BY <1>0, <1>4, <2>1, NextOnes DEF Reset
      <3>2. \A t \in TagSlot : t < est.slot
        BY <1>0, <2>1 DEF TagSlot
      <3> QED
        BY <1>1, <3>1, <3>2 DEF Forces
    <2>2. CASE ~ (est.slot > TAG_SLOTS)
      <3> DEFINE u == est.slot
      <3>1. /\ est'.pass = "reset" /\ est'.slot = u + 1 /\ est.pass = "reset"
            /\ tags' = IF tags[u].handle = 0 THEN tags ELSE [tags EXCEPT ![u] = ForceReset(@)]
        BY <1>0, <1>4, <2>2, NextOnes DEF Reset
      <3>2. u \in TagSlot
        BY <1>0, <2>2 DEF TagSlot
      <3>3. \A s \in ReaderSlot : tags'[u].force[s] = 0
        <4>1. CASE tags[u].handle = 0
          BY <1>0, <3>1, <3>2, <4>1 DEF Forces, TagItem
        <4>2. CASE tags[u].handle # 0
          <5>1. tags'[u] = ForceReset(tags[u])
            BY <1>0, <3>1, <3>2, <4>2
          <5>2. ForceReset(tags[u]).force = [s \in ReaderSlot |-> 0]
            BY <1>0, <3>2 DEF ForceReset, EmptyTag, TagItem
          <5> QED
            BY <5>1, <5>2
        <4> QED
          BY <4>1, <4>2
      <3>4. \A t \in TagSlot \ {u} : tags'[t] = tags[t]
        BY <1>0, <3>1
      <3>5. \A t \in TagSlot : t < u + 1 => t = u \/ t < u
        BY <1>0
      <3>6. ASSUME NEW t \in TagSlot, NEW s \in ReaderSlot, t < u + 1
            PROVE  tags'[t].force[s] = 0
        BY <3>1, <3>3, <3>4, <3>5, <3>6 DEF Forces
      <3>7. ASSUME NEW t \in TagSlot, NEW s \in ReaderSlot, tags'[t].force[s] = 1
            PROVE  tags[t].force[s] = 1
        BY <3>3, <3>4, <3>7
      <3> HIDE DEF u
      <3> QED
        BY <1>1, <3>1, <3>6, <3>7 DEF Forces
    <2> QED
      BY <2>1, <2>2
  <1>5. CASE Pull
    <2>1. CASE est.slot > READER_SLOTS
      <3>1. est' = NextPass("calc") /\ tags' = tags
        BY <1>5, <2>1 DEF Pull
      <3> QED
        BY <1>2, <3>1
    <2>2. CASE ~ (est.slot > READER_SLOTS)
      <3> DEFINE r == est.slot
      <3>1. /\ est'.pass = "force" /\ est'.slot = r + 1 /\ r \in ReaderSlot /\ est.pass = "force"
            /\ \/ tags' = tags
               \/ \E t \in TagSlot :
                    /\ readers[r].handle[1] \in KnownReader
                    /\ readers[r].handle[2] = tags[t].handle
                    /\ tags[t].handle # 0
                    /\ tags' = [tags EXCEPT ![t].force = [@ EXCEPT ![r] = 1]]
        BY <1>0, <1>5, <2>2, PullDoes, NextOnes
      <3>2. readers' = readers
        BY <1>5 DEF Pull
      <3>5. \A t \in TagSlot, s \in ReaderSlot : s >= r => tags[t].force[s] = 0
        BY <3>1 DEF Forces
      <3>3. CASE tags' = tags
        BY <1>0, <1>1, <3>1, <3>3 DEF Forces
      <3>4. CASE \E t \in TagSlot :
                    /\ readers[r].handle[1] \in KnownReader
                    /\ readers[r].handle[2] = tags[t].handle
                    /\ tags[t].handle # 0
                    /\ tags' = [tags EXCEPT ![t].force = [@ EXCEPT ![r] = 1]]
        <4>1. PICK t \in TagSlot :
                    /\ readers[r].handle[1] \in KnownReader
                    /\ readers[r].handle[2] = tags[t].handle
                    /\ tags[t].handle # 0
                    /\ tags' = [tags EXCEPT ![t].force = [@ EXCEPT ![r] = 1]]
          BY <3>4
        <4> HIDE DEF r
        <4>2. /\ \A u \in TagSlot \ {t} : tags'[u] = tags[u]
              /\ tags'[t].handle = tags[t].handle
              /\ \A s \in ReaderSlot \ {r} : tags'[t].force[s] = tags[t].force[s]
          BY <1>0, <4>1 DEF TagItem
        <4>3. \A u \in TagSlot, s \in ReaderSlot : s >= r + 1 => s # r /\ s >= r
          BY <1>0, <3>1
        <4>4. ASSUME NEW u \in TagSlot, NEW s \in ReaderSlot
              PROVE  /\ tags'[u].force[s] = 1 => /\ readers'[s].handle[1] \in KnownReader
                                                 /\ readers'[s].handle[2] = tags'[u].handle
                                                 /\ tags'[u].handle # 0
                     /\ s >= r + 1 => tags'[u].force[s] = 0
          <5>1. CASE u = t /\ s = r
            BY <1>0, <3>1, <3>2, <4>1, <4>2, <4>3, <5>1
          <5>2. CASE ~ (u = t /\ s = r)
            <6>1. tags'[u].force[s] = tags[u].force[s]
              BY <4>2, <5>2
            <6> QED
              BY <1>1, <3>5, <4>3, <6>1
          <5> QED
            BY <5>1, <5>2
        <4> QED
          BY <3>1, <4>4 DEF Forces
      <3> QED
        BY <3>1, <3>3, <3>4
    <2> QED
      BY <2>1, <2>2
  <1>6. CASE CalcLock \/ CalcStore
    <2>1. /\ est'.pass \in {"calc", "query", "sleep"}
          /\ \A t \in TagSlot : tags'[t].force = tags[t].force
      <3>1. CASE CalcLock
        <4>1. est'.pass \in {"calc", "query", "sleep"}
          BY ZenonT(40), <1>0, <3>1, NextOnes DEF CalcLock, EstTyped
        <4>2. tags' = tags \/ tags' = [tags EXCEPT ![est.slot].mutex = "est"]
          BY <3>1 DEF CalcLock
        <4> QED
          BY <1>0, <4>1, <4>2 DEF TagItem
      <3>2. CASE CalcStore
        <4>1. est'.pass = "calc"
          BY <1>0, <3>2, NextOnes DEF CalcStore, EstTyped
        <4> DEFINE b == IF est.button > 0 THEN est.button - 1 ELSE tags[est.slot].button
        <4>2. tags' = [tags EXCEPT ![est.slot].button = b, ![est.slot].mutex = "free"]
          BY <3>2 DEF CalcStore
        <4> HIDE DEF b
        <4> QED
          BY <1>0, <4>1, <4>2 DEF TagItem
      <3> QED
        BY <1>6, <3>1, <3>2
    <2> QED
      BY <1>2, <2>1
  <1>7. CASE ~ EstimationThread
    <2>1. est' = est /\ \A t \in TagSlot : tags'[t].force = tags[t].force
      <3>1. CASE AddTag
        <4> DEFINE u == TagOf
        <4>1. tags' = [tags EXCEPT ![u].handle = Envl.tag] /\ est' = est
          BY <3>1 DEF AddTag
        <4> HIDE DEF u
        <4> QED
          BY <1>0, <4>1 DEF TagItem
      <3>2. CASE Press
        <4>1. est' = est /\ (tags' = tags \/ tags' = [tags EXCEPT ![main.tag] = Pressed(@)])
          BY <3>2 DEF Press
        <4> QED
          BY SMTT(30), <1>0, <4>1 DEF Pressed, TagItem
      <3>3. CASE ~ AddTag /\ ~ Press
        BY Zenon, <1>7, <3>3 DEF Next, MainThread, Receive, EndDatagram, Invalid, Decode, AddItem, NoSlot,
           FillItem, CantAddTag, Aggregate, QueryFails, Tick, vars
      <3> QED
        BY <3>1, <3>2, <3>3
    <2> QED
      BY <1>2, <2>1
  <1> QED
    BY <1>3, <1>4, <1>5, <1>6, <1>7 DEF EstimationThread

-----------------------------------------------------------------------------
(* The buttons.                                                            *)
LEMMA QuietButtons ==
  ASSUME Types, Buttons, since' = since, raced' = raced,
         \A t \in TagSlot : tags'[t].button = tags[t].button,
         est' = est \/ (est.pass # "query" /\ est'.pass # "query")
  PROVE  Buttons'
  BY DEF Buttons, CountingDown

LEMMA ButtonsStep ==
  ASSUME Types, InDatagram, Position, OneLocked, Complete, OfKnownReader, Forces, Buttons,
         [Next]_vars
  PROVE  Buttons'
  <1>0. /\ tags \in [TagSlot -> TagItem] /\ main.tag \in TagSlot /\ TAG_SLOTS \in Nat
        /\ EstTyped /\ est.slot \in Nat \ {0} /\ est.button \in 0 .. TAGSIGHTING_BUTTON_TIME
        /\ since \in [TagSlot -> 0 .. TAGSIGHTING_BUTTON_TIME]
        /\ TAGSIGHTING_BUTTON_TIME \in Nat \ {0}
    BY EstimatorAssumption, TagItems DEF Types, EstTyped, MainTyped
  <1>1. CASE Wake
    <2>1. /\ est.pass # "query" /\ est'.pass # "query" /\ tags' = tags
          /\ since' = since /\ raced' = raced
      BY <1>0, <1>1, NextOnes DEF Wake, history
    <2> QED
      BY <2>1, QuietButtons
  <1>2. CASE Reset
    <2>1. /\ est.pass # "query" /\ est'.pass # "query"
          /\ since' = since /\ raced' = raced
      BY <1>0, <1>2, NextOnes DEF Reset, history
    <2>2. tags' = tags \/ tags' = [tags EXCEPT ![est.slot] = ForceReset(@)]
      BY <1>2 DEF Reset
    <2>3. \A t \in TagSlot : tags'[t].button = tags[t].button
      BY SMTT(30), <1>0, <2>2 DEF ForceReset, TagItem
    <2> QED
      BY <2>1, <2>3, QuietButtons
  <1>3. CASE Pull
    <2>1. /\ est.pass # "query" /\ est'.pass # "query"
          /\ since' = since /\ raced' = raced
      BY <1>0, <1>3, NextOnes DEF Pull, history
    <2>2. \A t \in TagSlot : tags'[t].button = tags[t].button
      <3>1. CASE tags' = tags
        BY <3>1
      <3>2. CASE tags' # tags
        <4>1. PICK t \in TagSlot :
                    tags' = [tags EXCEPT ![t].force = [@ EXCEPT ![est.slot] = 1]]
          BY <1>3, <3>2, PullDoes
        <4> QED
          BY <1>0, <4>1 DEF TagItem
      <3> QED
        BY <3>1, <3>2
    <2> QED
      BY <2>1, <2>2, QuietButtons
  <1>4. CASE CalcLock
    <2>1. CASE est.slot > TAG_SLOTS \/ tags[est.slot].handle = 0
      <3>1. /\ est.pass # "query" /\ est'.pass # "query" /\ tags' = tags
            /\ since' = since /\ raced' = raced
        BY <1>0, <1>4, <2>1, NextOnes DEF CalcLock
      <3> QED
        BY <3>1, QuietButtons
    <2>2. CASE ~ (est.slot > TAG_SLOTS \/ tags[est.slot].handle = 0)
      <3> DEFINE u == est.slot
      <3>1. u \in TagSlot
        BY <1>0, <2>2 DEF TagSlot
      <3>2. /\ est.pass = "calc" /\ raced' = raced
            /\ tags' = [tags EXCEPT ![u].mutex = "est"]
            /\ est' = [est EXCEPT !.pass = "query", !.button = tags[u].button]
            /\ since' = [since EXCEPT ![u] = Min({@ + 1, TAGSIGHTING_BUTTON_TIME})]
        BY <1>4, <2>2 DEF CalcLock
      <3>3. /\ est'.pass = "query" /\ est'.slot = u /\ est'.button = tags[u].button
            /\ \A t \in TagSlot : tags'[t].button = tags[t].button
            /\ \A t \in TagSlot \ {u} : since'[t] = since[t]
            /\ since'[u] = Min({since[u] + 1, TAGSIGHTING_BUTTON_TIME})
        BY <1>0, <3>1, <3>2 DEF EstTyped, TagItem
      <3>4. since'[u] = IF since[u] + 1 <= TAGSIGHTING_BUTTON_TIME THEN since[u] + 1
                        ELSE TAGSIGHTING_BUTTON_TIME
        <4>1. since[u] + 1 \in Nat
          BY <1>0, <3>1
        <4> QED
          BY <1>0, <3>3, <4>1, MinOfTwo
      <3>5. \A t \in TagSlot : tags[t].button \in 0 .. TAGSIGHTING_BUTTON_TIME
        BY <1>0 DEF TagItem
      <3>6. \A t \in TagSlot : t \notin raced =>
              tags[t].button = TAGSIGHTING_BUTTON_TIME - since[t]
        BY <3>2 DEF Buttons, CountingDown
      <3> HIDE DEF u
      <3>7. ASSUME NEW t \in TagSlot, t \notin raced, t # u
            PROVE  tags'[t].button = TAGSIGHTING_BUTTON_TIME - since'[t]
        BY <3>3, <3>6, <3>7
      <3>8. ASSUME u \notin raced, tags[u].button > 0
            PROVE  /\ tags'[u].button = est'.button
                   /\ est'.button - 1 = TAGSIGHTING_BUTTON_TIME - since'[u]
        BY <1>0, <3>1, <3>3, <3>4, <3>5, <3>6, <3>8
      <3>9. ASSUME u \notin raced, ~ (tags[u].button > 0)
            PROVE  tags'[u].button = TAGSIGHTING_BUTTON_TIME - since'[u]
        BY <1>0, <3>1, <3>3, <3>4, <3>5, <3>6, <3>9
      <3> QED
        BY <3>2, <3>3, <3>7, <3>8, <3>9 DEF Buttons, CountingDown
    <2> QED
      BY <2>1, <2>2
  <1>5. CASE CalcStore
    <2> DEFINE u == est.slot
               b == IF est.button > 0 THEN est.button - 1 ELSE tags[est.slot].button
    <2>1. /\ u \in TagSlot /\ est.pass = "query" /\ since' = since /\ raced' = raced
          /\ tags' = [tags EXCEPT ![u].button = b, ![u].mutex = "free"]
      BY <1>0, <1>5 DEF CalcStore, EstTyped, history
    <2>2. est'.pass = "calc"
      BY <1>0, <1>5, NextOnes DEF CalcStore, EstTyped
    <2>3. /\ est.button > 0 => b = est.button - 1
          /\ ~ (est.button > 0) => b = tags[u].button
      OBVIOUS
    <2> HIDE DEF u, b
    <2>4. tags'[u].button = b /\ \A t \in TagSlot \ {u} : tags'[t].button = tags[t].button
      BY <1>0, <2>1 DEF TagItem
    <2>5. u = est.slot
      BY DEF u
    <2>6. ASSUME NEW t \in TagSlot, t \notin raced, t # u
          PROVE  tags'[t].button = TAGSIGHTING_BUTTON_TIME - since'[t]
      BY <2>1, <2>4, <2>5, <2>6 DEF Buttons, CountingDown
    <2>7. ASSUME u \notin raced
          PROVE  tags'[u].button = TAGSIGHTING_BUTTON_TIME - since'[u]
      BY <2>1, <2>3, <2>4, <2>5, <2>7 DEF Buttons, CountingDown
    <2> QED
      BY <2>1, <2>2, <2>6, <2>7 DEF Buttons, CountingDown
  <1>6. CASE Press
    <2>1. est' = est
      BY <1>6 DEF Press
    <2>2. CASE ~ Envl.button
      <3>1. tags' = tags /\ since' = since /\ raced' = raced
        BY <1>6, <2>2 DEF Press
      <3> QED
        BY <2>1, <3>1, QuietButtons
    <2>3. CASE Envl.button
      <3> DEFINE u == main.tag
      <3>1. /\ u \in TagSlot
            /\ tags' = [tags EXCEPT ![u] = Pressed(@)]
            /\ since' = [since EXCEPT ![u] = 0]
            /\ raced' = IF CountingDown(u) /\ est.button > 0 THEN raced \cup {u}
                        ELSE raced \ {u}
        BY <1>0, <1>6, <2>3 DEF Press
      <3> HIDE DEF u
      <3>2. /\ tags'[u].button = TAGSIGHTING_BUTTON_TIME /\ since'[u] = 0
            /\ \A t \in TagSlot \ {u} :
                 tags'[t].button = tags[t].button /\ since'[t] = since[t]
        BY <1>0, <3>1 DEF Pressed, TagItem
      <3>3. u \notin raced' => ~ (CountingDown(u) /\ est.button > 0)
        BY <3>1
      <3>4. \A t \in TagSlot \ {u} : t \notin raced' => t \notin raced
        BY <3>1
      <3>5. TAGSIGHTING_BUTTON_TIME = TAGSIGHTING_BUTTON_TIME - 0
        BY <1>0
      <3> QED
        BY <2>1, <3>2, <3>3, <3>4, <3>5 DEF Buttons, CountingDown
    <2> QED
      BY <2>2, <2>3
  <1>7. CASE AddTag
    <2> DEFINE u == TagOf
    <2>1. /\ tags' = [tags EXCEPT ![u].handle = Envl.tag]
          /\ est' = est /\ since' = since /\ raced' = raced
      BY <1>7 DEF AddTag, history
    <2> HIDE DEF u
    <2>2. \A t \in TagSlot : tags'[t].button = tags[t].button
      BY <1>0, <2>1 DEF TagItem
    <2> QED
      BY <2>1, <2>2, QuietButtons
  <1>8. CASE ~ EstimationThread /\ ~ AddTag /\ ~ Press
    <2>1. est' = est /\ tags' = tags /\ since' = since /\ raced' = raced
      BY Zenon, <1>8 DEF Next, MainThread, Receive, EndDatagram, Invalid, Decode, AddItem, NoSlot,
         FillItem, CantAddTag, Aggregate, QueryFails, Tick, vars, history
    <2> QED
      BY SMTT(30), <2>1, QuietButtons
  <1> QED
    BY <1>1, <1>2, <1>3, <1>4, <1>5, <1>6, <1>7, <1>8 DEF EstimationThread

-----------------------------------------------------------------------------
(* The rings of sightings.                                                 *)
LEMMA TimeoutInRing ==
  ASSUME NEW j \in Strength
  PROVE  AGGREGATION_TIMEOUT(j) \in Int /\ AGGREGATION_TIMEOUT(j) <= MAX_AGGREGATION_SECONDS
  <1> DEFINE a == MAX_AGGREGATION_SECONDS - MIN_AGGREGATION_SECONDS
             c == STRENGTH_LEVELS_COUNT - 1
             d == a \div c
  <1>1. /\ a \in Nat /\ c \in Nat \ {0} /\ j \in 0 .. c
        /\ MIN_AGGREGATION_SECONDS \in Nat /\ MAX_AGGREGATION_SECONDS \in Nat
        /\ MIN_AGGREGATION_SECONDS + a = MAX_AGGREGATION_SECONDS
    BY EstimatorAssumption DEF Strength
  <1>2. AGGREGATION_TIMEOUT(j) = MIN_AGGREGATION_SECONDS + d * j
    BY DEF AGGREGATION_TIMEOUT
  <1> HIDE DEF a, c
  <1>3. d \in Nat /\ c * d <= a
    BY <1>1
  <1> HIDE DEF d
  <1>4. d * j \in Nat /\ d * j <= c * d
    BY <1>1, <1>3
  <1> QED
    BY <1>1, <1>2, <1>3, <1>4

LEMMA BackInRing ==
  ASSUME NEW pos \in Pos
  PROVE  /\ \A i \in Pos : Back(pos, i) \in Pos
         /\ \A i, k \in Pos : Back(pos, i) = Back(pos, k) => i = k
         /\ \A p \in Pos : \E i \in Pos : Back(pos, i) = p
  <1>1. MAX_AGGREGATION_SECONDS \in Nat \ {0}
    BY EstimatorAssumption
  <1>2. \A i \in Pos : Back(pos, i) \in Pos
    BY <1>1 DEF Pos, Back
  <1>3. \A i, k \in Pos : Back(pos, i) = Back(pos, k) => i = k
    BY <1>1 DEF Pos, Back
  <1>4. ASSUME NEW p \in Pos
        PROVE  \E i \in Pos : Back(pos, i) = p
    <2> DEFINE i == IF p <= pos THEN pos - p ELSE pos - p + MAX_AGGREGATION_SECONDS
    <2>1. i \in Pos /\ Back(pos, i) = p
      BY <1>1 DEF Pos, Back
    <2> QED
      BY <2>1
  <1> QED
    BY <1>2, <1>3, <1>4

(* The ring moves on by one entry.                                         *)
LEMMA RingMovesOn ==
  ASSUME NEW pos \in Pos
  PROVE  LET next == (pos + 1) % MAX_AGGREGATION_SECONDS
         IN  /\ next \in Pos /\ Back(next, 0) = next
             /\ \A i \in Pos \ {0} : /\ i - 1 \in Pos
                                     /\ Back(next, i) = Back(pos, i - 1)
                                     /\ Back(next, i) # next
  <1>1. MAX_AGGREGATION_SECONDS \in Nat \ {0}
    BY EstimatorAssumption
  <1>2. (pos + 1) % MAX_AGGREGATION_SECONDS
          = IF pos + 1 = MAX_AGGREGATION_SECONDS THEN 0 ELSE pos + 1
    BY <1>1 DEF Pos
  <1> DEFINE next == (pos + 1) % MAX_AGGREGATION_SECONDS
  <1> HIDE DEF next
  <1>3. next = IF pos + 1 = MAX_AGGREGATION_SECONDS THEN 0 ELSE pos + 1
    BY <1>2 DEF next
  <1>4. next \in Pos /\ Back(next, 0) = next
    BY <1>1, <1>3 DEF Pos, Back
  <1>5. \A i \in Pos \ {0} : /\ i - 1 \in Pos
                             /\ Back(next, i) = Back(pos, i - 1)
                             /\ Back(next, i) # next
    BY <1>1, <1>3 DEF Pos, Back
  <1> QED
    BY <1>4, <1>5 DEF next

LEMMA RecentOnesFinite ==
  ASSUME NEW h \in Seq(Past), NEW j
  PROVE  IsFiniteSet(RecentOnes(h, j))
  <1>1. Len(h) \in Nat /\ RecentOnes(h, j) \subseteq 1 .. Len(h)
    BY DEF RecentOnes
  <1>2. IsFiniteSet(1 .. Len(h))
    BY <1>1, FS_Interval
  <1> QED
    BY <1>1, <1>2, FS_Subset

(* The sum over the recent entries of the ring counts each of the recent   *)
(* sightings once: they are at different places, and no other entry is     *)
(* recent.                                                                 *)
LEMMA RecentCounts ==
  ASSUME NEW h \in Seq(Past), Len(h) # 0,
         NEW levels, NEW pos \in Pos, Laid(levels, pos, h),
         h[Len(h)].time > MAX_AGGREGATION_SECONDS, NEW j \in Strength
  PROVE  Recent(levels, h[Len(h)].time, j) = Cardinality(RecentOnes(h, j))
  <1> DEFINE n == Len(h)
             t == h[n].time
             ones == RecentOnes(h, j)
             recent == {p \in Pos : t - levels[p].time <= AGGREGATION_TIMEOUT(j)}
             T == UNION {{p} \X (1 .. levels[p].strength[j]) : p \in recent}
             g == [k \in ones |-> <<Back(pos, n - k), 1>>]
  <1>1. /\ n \in Nat \ {0} /\ MAX_AGGREGATION_SECONDS \in Nat \ {0}
        /\ \A k \in 1 .. n : h[k] \in Past
        /\ AGGREGATION_TIMEOUT(j) \in Int
        /\ AGGREGATION_TIMEOUT(j) <= MAX_AGGREGATION_SECONDS
    <2>1. MAX_AGGREGATION_SECONDS \in Nat \ {0}
      BY EstimatorAssumption
    <2>2. AGGREGATION_TIMEOUT(j) \in Int /\ AGGREGATION_TIMEOUT(j) <= MAX_AGGREGATION_SECONDS
      BY TimeoutInRing
    <2>3. n \in Nat \ {0}
      OBVIOUS
    <2>4. ASSUME NEW k \in 1 .. n PROVE h[k] \in Past
      OBVIOUS
    <2> HIDE DEF n
    <2> QED
      BY <2>1, <2>2, <2>3, <2>4
  <1>2. ASSUME NEW k \in ones
        PROVE  /\ n - k \in Pos /\ n - k < n /\ n - (n - k) = k
               /\ levels[Back(pos, n - k)] = EntryOf(h[k])
               /\ g[k] \in T
    <2>1. /\ k \in 1 .. n /\ k > n - MAX_AGGREGATION_SECONDS /\ h[k].strength = j
          /\ t - h[k].time <= AGGREGATION_TIMEOUT(j)
      BY DEF RecentOnes
    <2>2. n - k \in Pos /\ n - k < n /\ n - (n - k) = k
      <3>1. k \in 1 .. n /\ k > n - MAX_AGGREGATION_SECONDS
        BY <2>1
      <3> HIDE DEF n
      <3> QED
        BY <1>1, <3>1 DEF Pos
    <2>3. levels[Back(pos, n - k)] = EntryOf(h[k])
      BY <2>2 DEF Laid
    <2>4. /\ levels[Back(pos, n - k)].time = h[k].time
          /\ levels[Back(pos, n - k)].strength[j] = 1
      BY <2>1, <2>3 DEF EntryOf
    <2>5. Back(pos, n - k) \in recent
      BY <2>1, <2>2, <2>4, BackInRing
    <2> QED
      BY <2>2, <2>3, <2>4, <2>5
  <1>3. ASSUME NEW x \in T
        PROVE  \E k \in ones : g[k] = x
    <2>1. PICK p \in recent : x \in {p} \X (1 .. levels[p].strength[j])
      OBVIOUS
    <2>2. PICK i \in Pos : Back(pos, i) = p
      BY BackInRing
    <2>3. i < n
      <3>1. CASE ~ (i < n)
        <4>1. levels[p].time = 0
          BY <2>2, <3>1 DEF Laid
        <4>2. t - 0 <= AGGREGATION_TIMEOUT(j)
          BY <4>1
        <4>3. t \in Nat
          BY <1>1 DEF Past
        <4>4. t > MAX_AGGREGATION_SECONDS
          OBVIOUS
        <4> HIDE DEF t
        <4> QED
          BY <1>1, <4>2, <4>3, <4>4
      <3> QED
        BY <3>1
    <2> DEFINE k == n - i
    <2>4. k \in 1 .. n /\ n - k = i /\ k > n - MAX_AGGREGATION_SECONDS
      BY <1>1, <2>3 DEF Pos
    <2> HIDE DEF k
    <2>5. levels[p] = EntryOf(h[k])
      BY <2>2, <2>3 DEF Laid, k
    <2>6. /\ levels[p].time = h[k].time
          /\ levels[p].strength[j] = IF j = h[k].strength THEN 1 ELSE 0
      BY <2>5 DEF EntryOf
    <2>7. h[k].strength = j /\ x = <<p, 1>>
      <3>1. levels[p].strength[j] \in {0, 1}
        BY <2>6
      <3>2. PICK q \in 1 .. levels[p].strength[j] : x = <<p, q>>
        BY <2>1
      <3>3. levels[p].strength[j] = 1 /\ q = 1
        BY <3>1
      <3> QED
        BY <2>6, <3>2, <3>3
    <2>8. k \in ones
      BY <2>4, <2>6, <2>7 DEF RecentOnes
    <2> QED
      BY <2>2, <2>4, <2>7, <2>8
  <1>4. ASSUME NEW k \in ones, NEW m \in ones, g[k] = g[m]
        PROVE  k = m
    <2>1. n - k = n - m
      BY ZenonT(40), <1>2, <1>4, BackInRing
    <2>2. k \in Int /\ m \in Int
      BY DEF RecentOnes
    <2> QED
      BY <1>1, <2>1, <2>2
  <1>5. g \in Bijection(ones, T)
    <2> HIDE DEF ones, T
    <2>1. g \in [ones -> T]
      BY <1>2
    <2> HIDE DEF g
    <2> QED
      BY <1>3, <1>4, <2>1 DEF Bijection, Injection, Surjection, IsInjective
  <1>6. Cardinality(T) = Cardinality(ones)
    <2> HIDE DEF ones, T, g
    <2>1. IsFiniteSet(ones)
      BY RecentOnesFinite DEF ones
    <2> QED
      BY <1>5, <2>1, FS_Bijection DEF ExistsBijection
  <1> QED
    BY <1>6 DEF Recent

(* An item whose ring was not touched.                                     *)
SameRing(item, other) ==
  /\ other.last_seen = item.last_seen /\ other.fifo_pos = item.fifo_pos
  /\ other.levels = item.levels /\ other.strength = item.strength

LEMMA RingStays ==
  ASSUME NEW item, NEW other, SameRing(item, other), NEW h,
         NEW t \in Nat, NEW u \in Nat, t <= u, RingOf(item, h, t)
  PROVE  RingOf(other, h, u)
  <1>1. other.last_seen \in Nat /\ other.last_seen <= u
    BY DEF RingOf, SameRing
  <1>2. ASSUME NEW k \in 1 .. Len(h)
        PROVE  other.last_seen < h[k].time /\ h[k].time <= u
    <2>1. h \in Seq(Past) /\ item.last_seen < h[k].time /\ h[k].time <= t
      BY DEF RingOf
    <2>2. h[k] \in Past
      BY <2>1
    <2>3. h[k].time \in Nat
      BY <2>2 DEF Past
    <2> QED
      BY <2>1, <2>3 DEF SameRing
  <1> QED
    BY <1>1, <1>2 DEF RingOf, SameRing

LEMMA NothingRecent ==
  ASSUME NEW j
  PROVE  Cardinality(RecentOnes(<<>>, j)) = 0
  <1>1. RecentOnes(<<>>, j) = {}
    BY DEF RecentOnes
  <1> QED
    BY <1>1, FS_EmptySet

(* A wiped item has an empty ring.                                         *)
LEMMA RingWiped ==
  ASSUME NEW item, NEW t \in Nat, MAX_AGGREGATION_SECONDS <= t,
         item.levels = EmptyItem.levels, item.strength = EmptyItem.strength,
         item.fifo_pos = 0, item.last_seen = t
  PROVE  RingOf(item, <<>>, t)
  <1>1. MAX_AGGREGATION_SECONDS \in Nat \ {0} /\ 0 \in Pos
    BY EstimatorAssumption DEF Pos
  <1>2. /\ item.levels = [p \in Pos |-> NoLevel] /\ item.strength = [j \in Strength |-> 0]
    BY DEF EmptyItem
  <1>3. ASSUME NEW i \in Pos
        PROVE  /\ DOMAIN item.levels[Back(0, i)] = {"time", "strength"}
               /\ item.levels[Back(0, i)].time = 0
               /\ ~ (i < Len(<<>>))
    <2>1. Back(0, i) \in Pos
      BY <1>1, BackInRing
    <2>2. item.levels[Back(0, i)] = NoLevel
      BY <1>2, <2>1
    <2>3. ~ (i < 0)
      BY <1>1 DEF Pos
    <2> QED
      BY <2>2, <2>3 DEF NoLevel
  <1>4. Laid(item.levels, item.fifo_pos, <<>>)
    BY <1>3 DEF Laid
  <1>5. \A j \in Strength : item.strength[j] = Cardinality(RecentOnes(<<>>, j))
    BY <1>2, NothingRecent
  <1>6. <<>> \in Seq(Past) /\ Len(<<>>) = 0 /\ item.last_seen # 0
    BY <1>1
  <1> QED
    BY <1>1, <1>2, <1>4, <1>5, <1>6 DEF RingOf

(* The ring with one more sighting in it.                                  *)
LEMMA LaidOn ==
  ASSUME NEW h \in Seq(Past), NEW new \in Past, NEW pos \in Pos,
         NEW levels, DOMAIN levels = Pos, Laid(levels, pos, h)
  PROVE  LET next == (pos + 1) % MAX_AGGREGATION_SECONDS
         IN  Laid([levels EXCEPT ![next] = EntryOf(new)], next, Append(h, new))
  <1> DEFINE next == (pos + 1) % MAX_AGGREGATION_SECONDS
             after == [levels EXCEPT ![next] = EntryOf(new)]
             n == Len(h)
             g == Append(h, new)
  <1>1. /\ next \in Pos /\ Back(next, 0) = next
        /\ \A i \in Pos \ {0} : /\ i - 1 \in Pos
                                /\ Back(next, i) = Back(pos, i - 1)
                                /\ Back(next, i) # next
        /\ \A i \in Pos : Back(pos, i) \in Pos
    BY RingMovesOn, BackInRing
  <1>2. n \in Nat /\ Len(g) = n + 1 /\ g[n + 1] = new /\ \A k \in 1 .. n : g[k] = h[k]
    OBVIOUS
  <1>3. Pos \subseteq Nat
    BY EstimatorAssumption DEF Pos
  <1> HIDE DEF next, g
  <1>4. after[next] = EntryOf(new) /\ \A p \in Pos \ {next} : after[p] = levels[p]
    BY <1>1
  <1>5. DOMAIN EntryOf(new) = {"time", "strength"}
    BY DEF EntryOf
  <1>6. ASSUME NEW i \in Pos
        PROVE  /\ DOMAIN after[Back(next, i)] = {"time", "strength"}
               /\ IF i < Len(g) THEN after[Back(next, i)] = EntryOf(g[Len(g) - i])
                  ELSE after[Back(next, i)].time = 0
    <2>1. CASE i = 0
      <3>1. 0 < Len(g) /\ Len(g) - 0 = n + 1
        BY <1>2
      <3> QED
        BY <1>1, <1>2, <1>4, <1>5, <2>1, <3>1
    <2>2. CASE i # 0
      <3>1. /\ i - 1 \in Pos /\ Back(pos, i - 1) \in Pos
            /\ after[Back(next, i)] = levels[Back(pos, i - 1)]
        BY <1>1, <1>4, <2>2
      <3>2. /\ DOMAIN levels[Back(pos, i - 1)] = {"time", "strength"}
            /\ IF i - 1 < n THEN levels[Back(pos, i - 1)] = EntryOf(h[n - (i - 1)])
               ELSE levels[Back(pos, i - 1)].time = 0
        BY <3>1 DEF Laid
      <3>3. i \in Nat /\ n \in Nat
        BY <1>2, <1>3
      <3>4. /\ i < Len(g) <=> i - 1 < n
            /\ i - 1 < n => n - (i - 1) \in 1 .. n /\ Len(g) - i = n - (i - 1)
        <4> HIDE DEF n
        <4> QED
          BY <1>2, <2>2, <3>3
      <3>5. i < Len(g) => g[Len(g) - i] = h[n - (i - 1)]
        BY <1>2, <3>4
      <3> QED
        BY <3>1, <3>2, <3>4, <3>5
    <2> QED
      BY <2>1, <2>2
  <1> QED
    BY <1>6 DEF Laid, next, g

LEMMA EntryMade ==
  ASSUME NEW level, NEW t, NEW j \in Strength
  PROVE  [LevelAt(level, t) EXCEPT !.strength[j] = @ + 1]
           = EntryOf([time |-> t, strength |-> j])
  <1>1. LevelAt(level, t) = [time |-> t, strength |-> [k \in Strength |-> 0]]
    BY DEF LevelAt, NoLevel
  <1>2. [[k \in Strength |-> 0] EXCEPT ![j] = @ + 1]
          = [k \in Strength |-> IF k = j THEN 1 ELSE 0]
    OBVIOUS
  <1> QED
    BY <1>1, <1>2 DEF EntryOf

(* What is left of the sightings of an item after one at time t.           *)
Remembered(item, h, t, j) ==
  IF t - item.last_seen >= MAX_AGGREGATION_SECONDS THEN <<>>
  ELSE IF t - item.last_seen = 0 THEN h
  ELSE Append(h, [time |-> t, strength |-> j])

LEMMA RingAggregated ==
  ASSUME NEW item, DOMAIN item = ItemFields, NEW h,
         NEW t \in Nat, MAX_AGGREGATION_SECONDS <= t, RingOf(item, h, t),
         NEW j \in Strength
  PROVE  RingOf(Aggregated(item, t, j), Remembered(item, h, t, j), t)
  <1> DEFINE delta   == t - item.last_seen
             new     == [time |-> t, strength |-> j]
             next    == (item.fifo_pos + 1) % MAX_AGGREGATION_SECONDS
             entry   == [LevelAt(item.levels[next], t) EXCEPT !.strength[j] = @ + 1]
             same    == [item.levels[item.fifo_pos] EXCEPT !.strength[j] = @ + 1]
             levels1 == [item.levels EXCEPT ![item.fifo_pos] = same]
             levels2 == [item.levels EXCEPT ![next] = entry]
             sums    == [k \in Strength |-> Recent(levels2, t, k)]
  <1>1. /\ h \in Seq(Past) /\ Len(h) \in Nat /\ item.last_seen \in Nat /\ delta \in Nat
        /\ item.fifo_pos \in Pos /\ DOMAIN item.levels = Pos
        /\ Laid(item.levels, item.fifo_pos, h)
        /\ MAX_AGGREGATION_SECONDS \in Nat \ {0}
    BY EstimatorAssumption DEF RingOf
  <1>2. CASE delta >= MAX_AGGREGATION_SECONDS
    <2>1. Aggregated(item, t, j)
            = [item EXCEPT !.levels = EmptyItem.levels, !.strength = EmptyItem.strength,
                           !.fifo_pos = 0, !.last_seen = t]
      BY Zenon, <1>2 DEF Aggregated
    <2> DEFINE wiped == Aggregated(item, t, j)
    <2>2. /\ wiped.levels = EmptyItem.levels /\ wiped.strength = EmptyItem.strength
          /\ wiped.fifo_pos = 0 /\ wiped.last_seen = t
      BY <2>1 DEF ItemFields
    <2> HIDE DEF wiped
    <2>3. RingOf(wiped, <<>>, t)
      BY <2>2, RingWiped
    <2> QED
      BY <1>2, <2>3 DEF Remembered, wiped
  <1>3. CASE delta = 0
    <2>1. Aggregated(item, t, j)
            = [item EXCEPT !.levels = levels1, !.fifo_pos = @, !.strength = @]
      <3>1. ~ (delta >= MAX_AGGREGATION_SECONDS)
        BY <1>1, <1>3
      <3> QED
        BY <1>3, <3>1 DEF Aggregated
    <2> DEFINE kept == Aggregated(item, t, j)
    <2>2. /\ kept.levels = levels1 /\ kept.strength = item.strength
          /\ kept.fifo_pos = item.fifo_pos /\ kept.last_seen = item.last_seen
      <3> HIDE DEF levels1
      <3> QED
        BY <2>1 DEF ItemFields
    <2> HIDE DEF kept
    <2>3. ASSUME NEW i \in Pos
          PROVE  /\ DOMAIN levels1[Back(item.fifo_pos, i)] = {"time", "strength"}
                 /\ levels1[Back(item.fifo_pos, i)].time = item.levels[Back(item.fifo_pos, i)].time
      <3>1. /\ Back(item.fifo_pos, i) \in Pos
            /\ DOMAIN item.levels[Back(item.fifo_pos, i)] = {"time", "strength"}
        BY <1>1, BackInRing DEF Laid
      <3>2. CASE Back(item.fifo_pos, i) = item.fifo_pos
        <4>1. levels1[Back(item.fifo_pos, i)] = same
          BY <1>1, <3>2
        <4> QED
          BY <3>1, <3>2, <4>1
      <3>3. CASE Back(item.fifo_pos, i) # item.fifo_pos
        BY <1>1, <3>1, <3>3
      <3> QED
        BY <3>2, <3>3
    <2>4. Len(h) = 0
      <3>1. ASSUME Len(h) # 0
            PROVE  FALSE
        <4>1. 1 \in 1 .. Len(h)
          BY <1>1, <3>1
        <4>2. item.last_seen < h[1].time /\ h[1].time <= t
          BY <4>1 DEF RingOf
        <4>3. h[1] \in Past
          BY <1>1, <4>1
        <4>4. h[1].time \in Nat
          BY <4>3 DEF Past
        <4>5. item.last_seen = t
          BY <1>1, <1>3
        <4> QED
          BY <1>1, <4>2, <4>4, <4>5
      <3> QED
        BY <3>1
    <2>5. Laid(levels1, item.fifo_pos, h)
      <3>1. Pos \subseteq Nat
        BY <1>1 DEF Pos
      <3>2. \A i \in Pos : ~ (i < Len(h))
        BY <2>4, <3>1
      <3> HIDE DEF levels1
      <3> QED
        BY <1>1, <2>3, <3>2 DEF Laid
    <2>6. DOMAIN levels1 = Pos
      BY <1>1
    <2> HIDE DEF levels1
    <2>7. RingOf(kept, h, t)
      BY <2>2, <2>5, <2>6 DEF RingOf
    <2>8. Remembered(item, h, t, j) = h
      BY <1>1, <1>3 DEF Remembered
    <2> QED
      BY <2>7, <2>8 DEF kept
  <1>4. CASE delta # 0 /\ ~ (delta >= MAX_AGGREGATION_SECONDS)
    <2>1. Aggregated(item, t, j)
            = [item EXCEPT !.levels = levels2, !.fifo_pos = next, !.strength = sums]
      BY Zenon, <1>4 DEF Aggregated
    <2> DEFINE fed == Aggregated(item, t, j)
               g == Append(h, new)
    <2>2. /\ fed.levels = levels2 /\ fed.strength = sums
          /\ fed.fifo_pos = next /\ fed.last_seen = item.last_seen
      <3> HIDE DEF levels2, next, sums
      <3> QED
        BY <2>1 DEF ItemFields
    <2> HIDE DEF fed
    <2>3. new \in Past /\ g \in Seq(Past)
      BY <1>1 DEF Past
    <2>4. Laid(levels2, next, g)
      <3>1. levels2 = [item.levels EXCEPT ![next] = EntryOf(new)]
        BY EntryMade
      <3> HIDE DEF levels2, next, new
      <3> QED
        BY SMTT(30), <1>1, <2>3, <3>1, LaidOn DEF next
    <2>5. next \in Pos
      BY <1>1, RingMovesOn
    <2>6. /\ Len(g) = Len(h) + 1 /\ g[Len(g)] = new
          /\ \A k \in 1 .. Len(h) : g[k] = h[k]
      BY <1>1
    <2>7. item.last_seen >= MAX_AGGREGATION_SECONDS /\ item.last_seen < t
      <3>1. item.last_seen # 0
        BY <1>1, <1>4
      <3> QED
        BY <1>1, <1>4, <3>1 DEF RingOf
    <2> HIDE DEF g
    <2>8. ASSUME NEW k \in 1 .. Len(g)
          PROVE  item.last_seen < g[k].time /\ g[k].time <= t
      <3>1. CASE k = Len(g)
        BY <1>1, <2>6, <2>7, <3>1
      <3>2. CASE k # Len(g)
        <4>1. k \in 1 .. Len(h)
          BY <1>1, <2>6, <3>2
        <4> QED
          BY <2>6, <4>1 DEF RingOf
      <3> QED
        BY <3>1, <3>2
    <2>9. DOMAIN levels2 = Pos
      BY <1>1
    <2> HIDE DEF levels2, next
    <2>10. ASSUME NEW k \in Strength
           PROVE  Recent(levels2, t, k) = Cardinality(RecentOnes(g, k))
      <3>1. g[Len(g)].time = t
        BY <2>6
      <3>2. t > MAX_AGGREGATION_SECONDS /\ Len(g) # 0
        BY <1>1, <2>6, <2>7
      <3> QED
        BY <2>3, <2>4, <2>5, <3>1, <3>2, RecentCounts
    <2> HIDE DEF new
    <2>11. RingOf(fed, g, t)
      BY <1>1, <2>2, <2>3, <2>4, <2>5, <2>7, <2>8, <2>9, <2>10 DEF RingOf
    <2>12. Remembered(item, h, t, j) = g
      BY <1>4 DEF Remembered, g, new
    <2> QED
      BY SMTT(30), <2>11, <2>12 DEF fed
  <1> QED
    BY <1>2, <1>3, <1>4

(* The other steps leave the rings alone.                                  *)
LEMMA RingsKept ==
  ASSUME Types, InDatagram, Position, [Next]_vars, ~ Aggregate
  PROVE  heard' = heard /\ \A s \in ReaderSlot : SameRing(readers[s], readers'[s])
  <1>1. heard' = heard
    <2>1. CASE CalcLock
      BY <2>1 DEF CalcLock
    <2>2. CASE Press
      BY <2>2 DEF Press
    <2>3. CASE ~ CalcLock /\ ~ Press
      BY Zenon, <2>3 DEF Next, MainThread, EstimationThread, Receive, EndDatagram, Invalid, Decode,
         AddItem, NoSlot, FillItem, AddTag, CantAddTag, QueryFails, Wake, Reset, Pull, CalcStore,
         Tick, vars, history
    <2> QED
      BY <2>1, <2>2, <2>3
  <1>2. DOMAIN readers = ReaderSlot /\ \A s \in ReaderSlot : DOMAIN readers[s] = ItemFields
    BY DEF Types, ReadersTyped
  <1>3. main.item \in ReaderSlot
    BY DEF Types, MainTyped
  <1>4. CASE AddItem
    <2> DEFINE u == ItemSlot
               h == <<main.reader_id, Envl.tag>>
    <2>1. /\ u \in ReaderSlot
          /\ readers' = [readers EXCEPT ![u].mutex = "main", ![u].handle = h]
      BY <1>4, AddItemDoes DEF AddItem
    <2> HIDE DEF u, h
    <2> QED
      BY <1>1, <1>2, <2>1 DEF SameRing, ItemFields
  <1>5. CASE FillItem
    <2>1. readers' = readers \/ readers' = [readers EXCEPT ![main.item] = Filled(@)]
      BY <1>5 DEF FillItem
    <2>2. SameRing(readers[main.item], Filled(readers[main.item]))
      BY <1>2, <1>3 DEF SameRing, Filled, ItemFields
    <2> QED
      BY <1>1, <1>2, <1>3, <2>1, <2>2 DEF SameRing
  <1>6. CASE AddTag
    <2> DEFINE u == TagOf
    <2>1. readers' = [readers EXCEPT ![main.item].tag = u]
      BY <1>6 DEF AddTag
    <2> HIDE DEF u
    <2> QED
      BY <1>1, <1>2, <1>3, <2>1 DEF SameRing, ItemFields
  <1>7. CASE Press
    <2>1. readers' = [readers EXCEPT ![main.item] = [@ EXCEPT !.mutex = "free"]]
      BY <1>7 DEF Press, Unlocked
    <2> QED
      BY <1>1, <1>2, <1>3, <2>1 DEF SameRing, ItemFields
  <1>8. CASE readers' = readers
    BY <1>1, <1>8 DEF SameRing
  <1> QED
    BY <1>4, <1>5, <1>6, <1>7, <1>8, ItemsStay DEF vars

LEMMA ClockStep ==
  ASSUME Types, Clock, [Next]_vars
  PROVE  Clock' /\ main.timestamp <= main'.timestamp
  <1>1. /\ DOMAIN main = MainFields /\ now \in Nat /\ main.timestamp \in Nat
        /\ MAX_AGGREGATION_SECONDS \in Nat
    BY EstimatorAssumption DEF Types, MainTyped
  <1>2. now' \in {now, now + 1}
    <2>1. CASE Tick
      BY <2>1 DEF Tick
    <2>2. CASE ~ Tick
      <3>1. CASE CalcLock
        BY <3>1 DEF CalcLock
      <3>2. CASE ~ CalcLock
        BY Zenon, <2>2, <3>2 DEF Next, MainThread, EstimationThread, Receive, EndDatagram, Invalid,
           Decode, AddItem, NoSlot, FillItem, AddTag, CantAddTag, Aggregate, Press, QueryFails,
           Wake, Reset, Pull, CalcStore, vars
      <3> QED
        BY <3>1, <3>2
    <2> QED
      BY <2>1, <2>2
  <1>3. CASE FillItem
    <2>1. main'.timestamp = now /\ now' = now
      BY <1>1, <1>3 DEF FillItem, MainFields
    <2> QED
      BY <1>1, <2>1 DEF Clock
  <1>4. CASE AddTag
    <2>1. main'.timestamp = main.timestamp /\ main.pc = "tag"
      BY <1>1, <1>4 DEF AddTag, MainFields
    <2> QED
      BY <1>1, <1>2, <2>1 DEF Clock
  <1>5. ASSUME main'.timestamp = main.timestamp, main'.pc \notin {"tag", "aggregate"}
        PROVE  Clock' /\ main.timestamp <= main'.timestamp
    BY <1>1, <1>2, <1>5 DEF Clock
  <1>6. CASE Receive
    <2>1. PICK d \in Datagram :
            main' = [main EXCEPT !.pc = "packet", !.envelopes = d.envelopes, !.pkt = 1,
                       !.items = Len(d.envelopes), !.decoded = 0, !.reader_id = d.reader,
                       !.filed = {}]
      BY Zenon, <1>6 DEF Receive
    <2>2. main'.timestamp = main.timestamp /\ main'.pc = "packet"
      BY <1>1, <2>1 DEF MainFields
    <2> QED
      BY <1>5, <2>2
  <1>7. CASE EndDatagram \/ Invalid \/ AddItem \/ NoSlot \/ CantAddTag \/ QueryFails
    <2>1. main'.timestamp = main.timestamp /\ main'.pc \notin {"tag", "aggregate"}
      BY <1>1, <1>7 DEF EndDatagram, Invalid, AddItem, NoSlot, CantAddTag, QueryFails,
         NextPacket, MainFields
    <2> QED
      BY <1>5, <2>1
  <1>8. CASE Decode
    <2>1. main'.timestamp = main.timestamp /\ main'.pc \notin {"tag", "aggregate"}
      BY <1>1, <1>8 DEF Decode, NextPacket, MainFields
    <2> QED
      BY <1>5, <2>1
  <1>9. CASE Aggregate
    <2>1. main'.timestamp = main.timestamp /\ main'.pc \notin {"tag", "aggregate"}
      BY <1>1, <1>9 DEF Aggregate, MainFields
    <2> QED
      BY <1>5, <2>1
  <1>10. CASE Press
    <2>1. main' = [NextPacket(main) EXCEPT !.filed = @ \cup {main.pkt}]
      BY <1>10 DEF Press
    <2>2. main'.timestamp = main.timestamp /\ main'.pc \notin {"tag", "aggregate"}
      BY <1>1, <2>1 DEF NextPacket, MainFields
    <2> QED
      BY <1>5, <2>2
  <1>11. CASE EstimationThread \/ Tick \/ UNCHANGED vars
    <2>1. main' = main
      BY <1>11, OthersLeaveMain
    <2> QED
      BY <1>1, <1>2, <2>1 DEF Clock
  <1> QED
    BY <1>3, <1>4, <1>6, <1>7, <1>8, <1>9, <1>10, <1>11 DEF Next, MainThread

LEMMA RingsStep ==
  ASSUME Types, InDatagram, Position, Clock, Rings, [Next]_vars
  PROVE  Rings'
  <1>1. main.timestamp \in Nat /\ main.timestamp <= main'.timestamp /\ MainTyped'
    BY ClockStep, MainTypes DEF Types, MainTyped
  <1>2. main'.timestamp \in Nat
    BY <1>1 DEF MainTyped
  <1>3. CASE ~ Aggregate
    <2>1. ASSUME NEW s \in ReaderSlot
          PROVE  RingOf(readers'[s], heard'[s], main'.timestamp)
      <3>1. SameRing(readers[s], readers'[s]) /\ heard'[s] = heard[s]
        BY <1>3, RingsKept
      <3>2. RingOf(readers[s], heard[s], main.timestamp)
        BY DEF Rings
      <3> QED
        BY <1>1, <1>2, <3>1, <3>2, RingStays
    <2>2. DOMAIN heard' = ReaderSlot
      BY <1>3, RingsKept DEF Rings
    <2> QED
      BY <2>1, <2>2 DEF Rings
  <1>4. CASE Aggregate
    <2> DEFINE s == main.item
               t == main.timestamp
               j == Envl.strength
    <2>1. /\ s \in ReaderSlot /\ DOMAIN readers = ReaderSlot
          /\ DOMAIN readers[s] = ItemFields /\ DOMAIN main = MainFields
      BY DEF Types, ReadersTyped, MainTyped
    <2>2. j \in Strength
      BY <1>4, EnvelopeInHand DEF Aggregate, Sighted, Holding, Envelope
    <2>3. /\ readers' = [readers EXCEPT ![s] = Aggregated(readers[s], t, j)]
          /\ heard' = [heard EXCEPT ![s] = Remembered(readers[s], heard[s], t, j)]
      BY Zenon, <1>4 DEF Aggregate, Remembered
    <2>4. t \in Nat /\ MAX_AGGREGATION_SECONDS <= t
      BY <1>1, <1>4 DEF Clock, Aggregate
    <2>5. main'.timestamp = t
      BY <1>4, <2>1 DEF Aggregate, MainFields
    <2>6. DOMAIN heard = ReaderSlot /\ \A x \in ReaderSlot : RingOf(readers[x], heard[x], t)
      BY DEF Rings
    <2> HIDE DEF s, t, j
    <2>7. RingOf(Aggregated(readers[s], t, j), Remembered(readers[s], heard[s], t, j), t)
      BY <2>1, <2>2, <2>4, <2>6, RingAggregated
    <2>8. ASSUME NEW x \in ReaderSlot
          PROVE  RingOf(readers'[x], heard'[x], t)
      <3>1. CASE x = s
        <4>1. /\ readers'[x] = Aggregated(readers[s], t, j)
              /\ heard'[x] = Remembered(readers[s], heard[s], t, j)
          BY <2>1, <2>3, <2>6, <3>1
        <4> QED
          BY <2>7, <4>1
      <3>2. CASE x # s
        <4>1. readers'[x] = readers[x] /\ heard'[x] = heard[x]
          BY <2>1, <2>3, <2>6, <3>2
        <4> QED
          BY <2>6, <4>1
      <3> QED
        BY <3>1, <3>2
    <2>9. DOMAIN heard' = ReaderSlot
      BY <2>3, <2>6
    <2> QED
      BY <2>5, <2>8, <2>9 DEF Rings
  <1> QED
    BY <1>3, <1>4

-----------------------------------------------------------------------------
LEMMA IInvInit == Init => IInv
  <1> SUFFICES ASSUME Init PROVE IInv
    OBVIOUS
  <1>1. Types
    BY TypesInit
  <1>2. InDatagram /\ Position /\ DealtWith /\ InHand
    BY DEF Init, InDatagram, Position, DealtWith, InHand, Handling, Sighted, Holding
  <1>3. \A s \in ReaderSlot : readers[s] = EmptyItem
    BY DEF Init
  <1>4. OneLocked /\ Complete /\ OfKnownReader
    BY <1>3 DEF OneLocked, Complete, OfKnownReader, EmptyItem
  <1>5. \A t \in TagSlot : tags[t] = EmptyTag /\ since[t] = TAGSIGHTING_BUTTON_TIME
    BY DEF Init
  <1>6. est.pass = "sleep"
    BY DEF Init
  <1>7. Forces
    BY <1>5, <1>6 DEF Forces, EmptyTag
  <1>8. Buttons
    BY <1>5, <1>6, EstimatorAssumption DEF Buttons, EmptyTag, CountingDown
  <1>9. Clock
    BY EstimatorAssumption DEF Init, Clock
  <1>10. Rings
    <2>1. ASSUME NEW s \in ReaderSlot
          PROVE  RingOf(EmptyItem, <<>>, 0)
      <3>1. ASSUME NEW i \in Pos
            PROVE  /\ DOMAIN EmptyItem.levels[Back(0, i)] = {"time", "strength"}
                   /\ EmptyItem.levels[Back(0, i)].time = 0
                   /\ ~ (i < 0)
        <4>1. 0 \in Pos /\ Pos \subseteq Nat
          BY EstimatorAssumption DEF Pos
        <4>2. EmptyItem.levels[Back(0, i)] = NoLevel
          BY <4>1, BackInRing DEF EmptyItem
        <4> QED
          BY <4>1, <4>2 DEF NoLevel
      <3>2. Laid(EmptyItem.levels, 0, <<>>)
        BY <3>1 DEF Laid
      <3> QED
        BY <3>2, NothingRecent, EstimatorAssumption DEF RingOf, EmptyItem, Pos
    <2>2. main.timestamp = 0 /\ heard = [s \in ReaderSlot |-> <<>>]
      BY DEF Init
    <2> QED
      BY <1>3, <2>1, <2>2 DEF Rings
  <1> QED
    BY <1>1, <1>2, <1>4, <1>7, <1>8, <1>9, <1>10 DEF IInv

LEMMA IInvStep == IInv /\ [Next]_vars => IInv'
  BY TypesStep, DatagramStep, PositionStep, DealtStep, OneLockedStep, InHandStep, CompleteStep,
     KnownReaderStep, ForcesStep, ButtonsStep, ClockStep, RingsStep DEF IInv

(* The types of both threads' state, and the inductive invariant.          *)
THEOREM InvariantHolds == Spec => []IInv
  BY IInvInit, IInvStep, PTL DEF Spec

(* What ThreadEstimation() gets hold of while main() fills the maps is     *)
(* complete: an unlocked item has a tag, the tag of its own handle.        *)
THEOREM CompleteWhenUnlocked == Spec => []ItemsComplete
  <1>1. IInv => ItemsComplete
    BY DEF IInv, Complete, ItemsComplete
  <1> QED
    BY <1>1, InvariantHolds, PTL

(* An item pulls once at most in a round of ThreadEstimation(), at its own *)
(* tag, and for a known reader only.                                       *)
THEOREM OnePullPerRound == Spec => []PullsOnce
  <1>1. IInv => PullsOnce
    <2> SUFFICES ASSUME IInv, NEW t \in TagSlot, NEW s \in ReaderSlot
                 PROVE  /\ tags[t].force[s] <= 1
                        /\ tags[t].force[s] = 1 => /\ readers[s].handle[1] \in KnownReader
                                                   /\ readers[s].handle[2] = tags[t].handle
      BY DEF PullsOnce
    <2>1. tags[t].force[s] \in {0, 1}
      BY DEF IInv, Types, TagsTyped
    <2> QED
      BY <2>1 DEF IInv, Forces
  <1> QED
    BY <1>1, InvariantHolds, PTL

(* A press is counted down by one in each estimate of its tag, although    *)
(* main() enters it without the mutex: only one that meets the countdown   *)
(* of an earlier press can be lost.                                        *)
THEOREM PressCountedDown == Spec => []ButtonCountsDown
  <1>1. IInv => ButtonCountsDown
    BY DEF IInv, Buttons, ButtonCountsDown
  <1> QED
    BY <1>1, InvariantHolds, PTL

(* strength[] is exact: whatever the two threads did in between, it counts *)
(* each sighting since the item was wiped that is recent enough and still  *)
(* in the ring, and nothing that was left in the ring from before.         *)
THEOREM StrengthCounts == Spec => []StrengthExact
  <1>1. IInv => StrengthExact
    <2>1. ASSUME IInv, NEW s \in ReaderSlot, NEW j \in Strength
          PROVE  readers[s].strength[j] = Cardinality(RecentOnes(heard[s], j))
      BY <2>1 DEF IInv, Rings, RingOf
    <2> QED
      BY Zenon, <2>1 DEF StrengthExact, RecentOnes
  <1> QED
    BY <1>1, InvariantHolds, PTL

(* When the loop over a datagram ends, a valid sighting in it that was not *)
(* entered is behind an invalid one, found no slot, or has handle 0.       *)
THEOREM LossesHaveCauses == Spec => []LostBehindInvalid
  <1>1. IInv => LostBehindInvalid
    <2> SUFFICES ASSUME IInv, main.pc = "packet", main.items = 0,
                        NEW i \in 1 .. Len(main.envelopes),
                        main.envelopes[i].kind = "sighting", i \notin main.filed
                 PROVE  \/ \E k \in 1 .. i - 1 : main.envelopes[k].kind = "invalid"
                        \/ \A s \in ReaderSlot : readers[s].handle # NoItem
                        \/ main.envelopes[i].tag = 0 /\ main.reader_id = 0
      BY DEF LostBehindInvalid
    <2>1. /\ main.pkt \in Nat \ {0} /\ Len(main.envelopes) \in Nat
      BY DEF IInv, Types, MainTyped
    <2>2. CASE i <= main.pkt - 1
      <3>1. Dealt(i)
        BY <2>1, <2>2 DEF IInv, DealtWith, Handling
      <3> QED
        BY <3>1 DEF Dealt, MapFull
    <2>3. CASE ~ (i <= main.pkt - 1)
      <3>1. main.pkt <= Len(main.envelopes) /\ main.envelopes[main.pkt].kind = "invalid"
        BY <2>1, <2>3 DEF IInv, Position, Envl
      <3>2. i # main.pkt
        BY <3>1
      <3> QED
        BY <2>1, <2>3, <3>1, <3>2
    <2> QED
      BY <2>2, <2>3
  <1> QED
    BY <1>1, InvariantHolds, PTL
=============================================================================
