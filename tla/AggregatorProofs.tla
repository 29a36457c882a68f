-------------------------- MODULE AggregatorProofs --------------------------
(***************************************************************************)
(* Proofs about the station aggregator, for every size of its tables and   *)
(* rings, any number of readers, tags and packets, and every interleaving  *)
(* of the receiving and the reporting thread.                              *)
(***************************************************************************)
EXTENDS Aggregator, TLAPS

Writing == {"who", "amplitude", "advance"}
Scan    == {"check", "take", "report"}

(* What the receiving thread knows of the reader it handles, and that a    *)
(* sighting names only readers that are filled in.                         *)
ReaderKnown ==
  /\ \A s \in ReaderSlot : readera[s] # NULL =>
       /\ s < nNextUnusedReader
       /\ \A x \in ReaderSlot \ {s} : readera[x] # readera[s]
  /\ udp.pc \in {"reader", "fillReader"} => udp.address \in Address
  /\ udp.pc = "reader" =>
       IF udp.pr = NULL THEN \A s \in ReaderSlot : readera[s] # udp.address
       ELSE readera[udp.pr] = udp.address
  /\ udp.pc = "fillReader" =>
       /\ udp.pr \in ReaderSlot /\ udp.pr + 1 = nNextUnusedReader
       /\ readera[udp.pr] = NULL
       /\ \A s \in ReaderSlot : readera[s] # udp.address
  /\ udp.pc \in {"tag", "fillTag", "hashTag", "sighting"} \cup Writing /\ udp.pr # NULL =>
       readera[udp.pr] # NULL
  /\ \A t \in TagSlot, k \in RingSlot :
       taga[t].ring[k].reader # NULL => readera[taga[t].ring[k].reader] # NULL

(* What it knows of the tag.                                               *)
TagKnown ==
  /\ \A t \in TagSlot : taga[t].hashed =>
       /\ t < nNextUnusedTag /\ taga[t].uid # NULL
       /\ \A x \in TagSlot \ {t} : taga[x].hashed => taga[x].uid # taga[t].uid
  /\ udp.pc \in {"reader", "fillReader", "tag", "fillTag", "hashTag"} => udp.uid \in TagId
  /\ udp.pc \in {"reader", "fillReader", "tag"} =>
       IF udp.pt = NULL THEN \A t \in TagSlot : taga[t].hashed => taga[t].uid # udp.uid
       ELSE taga[udp.pt].hashed
  /\ udp.pc \in {"fillTag", "hashTag"} =>
       /\ udp.pt \in TagSlot /\ udp.pt + 1 = nNextUnusedTag
       /\ ~ taga[udp.pt].hashed
       /\ \A t \in TagSlot : taga[t].hashed => taga[t].uid # udp.uid
  /\ udp.pc = "hashTag" => taga[udp.pt].uid = udp.uid
  /\ udp.pc = "sighting" =>
       IF udp.pt = NULL THEN nNextUnusedTag = MAX_TAGS ELSE taga[udp.pt].hashed
  /\ udp.pc \in Writing =>
       udp.pr \in ReaderSlot /\ udp.pt \in TagSlot /\ taga[udp.pt].hashed
  /\ udp.pc \in {"recv", "pass", "crashed"} => udp.pt = NULL
  /\ udp.pc = "crashed" => nNextUnusedTag = MAX_TAGS \/ ~ logOpen

(* The ring of each tag against the history, also while its next entry is  *)
(* written field by field.                                                 *)
RingKnown ==
  /\ \A t \in TagSlot : ~ taga[t].hashed =>
       /\ heard[t] = <<>> /\ taga[t].ring = [k \in RingSlot |-> NoSighting]
       /\ taga[t].nValidFifo = 0
  /\ \A t \in TagSlot : \A k \in 1 .. SIGHTING_FIFO_SIZE :
       k < SIGHTING_FIFO_SIZE \/ ~ MidWrite(t) =>
         taga[t].ring[(taga[t].nValidFifo - k) % SIGHTING_FIFO_SIZE]
           = IF k <= Len(heard[t]) THEN heard[t][Len(heard[t]) + 1 - k] ELSE NoSighting
  /\ udp.pc \in Writing =>
       /\ Entry.time = udp.time
       /\ udp.pc # "who" => Entry.reader = udp.pr
       /\ udp.pc = "advance" => Entry.amplitude = udp.strength
  /\ \A t \in TagSlot : \A k \in DOMAIN heard[t] : heard[t][k].amplitude <= MAX_STRENGTH

(* Tag t was heard at reader s, or is about to be.                         *)
Met(t, s) ==
  \/ \E k \in DOMAIN heard[t] : heard[t][k].reader = s
  \/ udp.pt = t /\ udp.pr = s /\ udp.pc \in {"amplitude", "advance"}

(* What the reporting thread finds, disturbed or not.                      *)
ScanKnown ==
  /\ \A t \in TagSlot, k \in RingSlot, s \in ReaderSlot :
       taga[t].ring[k].reader = s => Met(t, s)
  /\ \A s \in ReaderSlot : s >= nNextUnusedReader => tcp.lowest[s] = Junk
  /\ tcp.pc \in Scan =>
       /\ tcp.n < tcp.nLimit
       /\ \A t \in TagSlot, s \in ReaderSlot :
            t = tcp.n /\ tcp.lowest[s] \notin {NoHit, Junk} => Met(t, s)
  /\ tcp.pc \in Scan /\ ~ disturbed =>
       \A s \in ReaderSlot : s < nNextUnusedReader => tcp.lowest[s] # Junk
  /\ tcp.pc = "take" =>
       tcp.m < SIGHTING_FIFO_SIZE /\ taga[tcp.n].ring[tcp.slot].reader # NULL
  /\ tcp.pc = "report" => tcp.m = SIGHTING_FIFO_SIZE
  /\ tcp.pc = "crashed" => disturbed

(* The visible sightings among the first m entries of the ring.            *)
SeenTo(s, m) ==
  {k \in Visible(tcp.n, s) : k <= Len(heard[tcp.n]) - SIGHTING_FIFO_SIZE + m}

(* The best of those is what the arrays say of reader s.                   *)
Exact(s) ==
  IF SeenTo(s, tcp.m) = {} THEN tcp.lowest[s] = NoHit
  ELSE \E k \in SeenTo(s, tcp.m) :
         /\ tcp.lowest[s] = heard[tcp.n][k].amplitude /\ tcp.time[s] = heard[tcp.n][k].time
         /\ \A j \in SeenTo(s, tcp.m) :
              /\ heard[tcp.n][j].amplitude >= tcp.lowest[s]
              /\ heard[tcp.n][j].amplitude = tcp.lowest[s] => j <= k

(* An undisturbed scan.                                                    *)
ScanAgrees ==
  tcp.pc \in Scan /\ ~ disturbed =>
    /\ ~ MidWrite(tcp.n)
    /\ \A s \in ReaderSlot : s < nNextUnusedReader => Exact(s)
    /\ tcp.pc = "take" =>
         /\ tcp.slot = (taga[tcp.n].nValidFifo + tcp.m) % SIGHTING_FIFO_SIZE
         /\ Live(taga[tcp.n].ring[tcp.slot].time)

IInv == TypeOK /\ ReaderKnown /\ TagKnown /\ RingKnown /\ ScanKnown /\ ScanAgrees

-----------------------------------------------------------------------------
USE AggregatorAssumption

LEMMA SlotFacts ==
  /\ NULL \notin ReaderSlot /\ NULL \notin TagSlot
  /\ 0 \in RingSlot /\ ReaderSlot \subseteq Nat /\ TagSlot \subseteq Nat
  BY DEF ReaderSlot, TagSlot, RingSlot

LEMMA StrengthFacts ==
  /\ NoHit \in Nat /\ MAX_STRENGTH \in Nat /\ MAX_STRENGTH < NoHit
  /\ \A x \in Strength \cup {0} : x \in Nat /\ x <= MAX_STRENGTH
  /\ \A x \in Nat : x # Junk
  BY DEF NoHit, MAX_STRENGTH

(* The initial tables.                                                     *)
LEMMA TypeInit == Init => TypeOK
  <1> SUFFICES ASSUME Init PROVE TypeOK
    OBVIOUS
  <1>1. NoSighting \in Sighting
    BY DEF NoSighting, Sighting
  <1>2. taga \in [TagSlot -> Tag]
    <2>1. [uid |-> NULL, hashed |-> FALSE, nValidFifo |-> 0,
           ring |-> [k \in RingSlot |-> NoSighting]] \in Tag
      BY <1>1, SlotFacts DEF Tag
    <2>2. QED
      BY <2>1 DEF Init
  <1>3. udp \in PacketLocals
    BY DEF Init, NoPacket, PacketLocals
  <1>4. tcp \in RequestLocals
    BY SlotFacts DEF Init, NoRequest, RequestLocals, Lowest
  <1>5. heard \in [TagSlot -> Seq(Sighting)]
    BY DEF Init
  <1>6. readera \in [ReaderSlot -> Address \cup {NULL}]
    BY DEF Init
  <1>7. QED
    <2>1. /\ now \in 0 .. MaxTime /\ packets \in 0 .. MaxPackets
          /\ nNextUnusedReader \in 0 .. MAX_READERS /\ nNextUnusedTag \in 0 .. MAX_TAGS
          /\ nHourLogCurrent \in Nat
      BY DEF Init
    <2>2. logOpen \in BOOLEAN /\ disturbed \in BOOLEAN
      BY Zenon DEF Init
    <2> QED
      BY <1>2, <1>3, <1>4, <1>5, <1>6, <2>1, <2>2 DEF TypeOK

LEMMA ReceiverTypes ==
  ASSUME IInv, HandlePacket
  PROVE  TypeOK'
  <1>1. /\ udp \in PacketLocals /\ taga \in [TagSlot -> Tag]
        /\ heard \in [TagSlot -> Seq(Sighting)]
    BY DEF IInv, TypeOK
  <1>2. udp.pc \in {"fillTag", "hashTag"} => udp.pt \in TagSlot
    BY DEF IInv, TagKnown
  <1>3. udp.pc \in Writing => udp.pr \in ReaderSlot /\ udp.pt \in TagSlot
    BY DEF IInv, TagKnown
  <1>4. CASE KeepReader
    BY <1>4 DEF KeepReader, tables, log, IInv, TypeOK, PacketLocals
  <1>5. CASE AllocReader
    <2>1. nNextUnusedReader \in ReaderSlot /\ nNextUnusedReader' \in 0 .. MAX_READERS
      BY SMTT(30), <1>5 DEF AllocReader, IInv, TypeOK, ReaderSlot
    <2>2. udp' \in PacketLocals
      BY <1>1, <1>5, <2>1 DEF AllocReader, PacketLocals
    <2>3. disturbed' \in BOOLEAN
      BY <1>5, Zenon DEF AllocReader
    <2> QED
      BY <1>5, <2>1, <2>2, <2>3 DEF AllocReader, log, IInv, TypeOK
  <1>6. CASE FillReader
    BY <1>6, SlotFacts DEF FillReader, log, IInv, TypeOK, PacketLocals
  <1>7. CASE KeepTag
    BY <1>7 DEF KeepTag, log, tables, IInv, TypeOK, PacketLocals
  <1>8. CASE AllocTag
    <2>1. nNextUnusedTag \in TagSlot /\ nNextUnusedTag' \in 0 .. MAX_TAGS
      BY SMTT(30), <1>8 DEF AllocTag, IInv, TypeOK, TagSlot
    <2>2. udp' \in PacketLocals
      BY <1>1, <1>8, <2>1 DEF AllocTag, PacketLocals
    <2> QED
      BY <1>8, <2>1, <2>2 DEF AllocTag, log, IInv, TypeOK
  <1>9. CASE FillTag
    <2> DEFINE tag == [taga[udp.pt] EXCEPT !.uid = udp.uid, !.nValidFifo = 0]
    <2>1. udp.pt \in TagSlot /\ tag \in Tag
      <3>1. udp.pt \in TagSlot /\ taga[udp.pt] \in Tag
        BY <1>1, <1>2, <1>9 DEF FillTag
      <3>2. udp.uid \in TagId \cup {NULL}
        BY <1>1 DEF PacketLocals
      <3> QED
        BY <3>1, <3>2, SlotFacts DEF Tag
    <2>2. taga' = [taga EXCEPT ![udp.pt] = tag]
      BY <1>1, <1>9, <2>1 DEF FillTag
    <2>3. taga' \in [TagSlot -> Tag]
      BY <1>1, <2>1, <2>2
    <2>4. udp' \in PacketLocals
      BY <1>1, <1>9 DEF FillTag, PacketLocals
    <2> QED
      BY <1>9, <2>3, <2>4 DEF FillTag, log, IInv, TypeOK
  <1>10. CASE HashTag
    <2> DEFINE tag == [taga[udp.pt] EXCEPT !.hashed = TRUE]
    <2>1. udp.pt \in TagSlot /\ tag \in Tag
      BY ZenonT(40), <1>1, <1>2, <1>10 DEF HashTag, Tag
    <2>2. taga' = [taga EXCEPT ![udp.pt] = tag]
      BY <1>10, Zenon DEF HashTag
    <2>3. taga' \in [TagSlot -> Tag]
      BY <1>1, <2>1, <2>2
    <2>4. udp' \in PacketLocals
      BY <1>1, <1>10 DEF HashTag, PacketLocals
    <2> QED
      BY <1>10, <2>3, <2>4 DEF HashTag, log, IInv, TypeOK
  <1>11. CASE DropSighting \/ DereferenceNullTag
    <2>1. udp' \in PacketLocals
      BY SMTT(30), <1>1, <1>11 DEF DropSighting, DereferenceNullTag, NoPacket, PacketLocals
    <2> QED
      BY <1>11, <2>1 DEF DropSighting, DereferenceNullTag, log, tables, IInv, TypeOK
  <1>12. ASSUME NEW from, NEW to, NEW entry \in Sighting,
                WriteRing(from, to, entry), udp.pt \in TagSlot, to \in Writing
         PROVE  TypeOK'
    <2> DEFINE tag == [taga[udp.pt] EXCEPT !.ring = [@ EXCEPT ![taga[udp.pt].nValidFifo] = entry]]
    <2>1. taga[udp.pt] \in Tag
      BY <1>1, <1>12
    <2>2. tag \in Tag
      BY <1>12, <2>1 DEF Tag
    <2>3. taga' = [taga EXCEPT ![udp.pt] = tag]
      BY <1>1, <1>12 DEF WriteRing
    <2>4. taga' \in [TagSlot -> Tag]
      BY <1>1, <1>12, <2>2, <2>3
    <2>5. udp' \in PacketLocals
      BY <1>1, <1>12 DEF WriteRing, PacketLocals, Writing
    <2>6. disturbed' \in BOOLEAN
      BY <1>12, Zenon DEF WriteRing
    <2> QED
      BY <1>12, <2>4, <2>5, <2>6 DEF WriteRing, log, IInv, TypeOK
  <1>13. CASE Advance
    <2> DEFINE tag == [taga[udp.pt] EXCEPT !.nValidFifo = (@ + 1) % SIGHTING_FIFO_SIZE]
               seen == [time |-> udp.time, reader |-> udp.pr, amplitude |-> udp.strength]
    <2>1. udp.pt \in TagSlot /\ taga[udp.pt] \in Tag
      BY <1>1, <1>3, <1>13 DEF Advance, Writing
    <2>2. tag \in Tag
      <3>1. (taga[udp.pt].nValidFifo + 1) % SIGHTING_FIFO_SIZE \in RingSlot
        BY <2>1 DEF Tag, RingSlot
      <3> QED
        BY <2>1, <3>1 DEF Tag
    <2>3. taga' \in [TagSlot -> Tag]
      BY <1>1, <1>13, <2>1, <2>2 DEF Advance
    <2>4. seen \in Sighting
      BY <1>1, <1>3, <1>13, StrengthFacts DEF Advance, PacketLocals, Writing, Sighting
    <2>5. heard' \in [TagSlot -> Seq(Sighting)]
      BY <1>1, <1>13, <2>1, <2>4 DEF Advance
    <2>6. udp' \in PacketLocals
      BY <1>13 DEF Advance, NoPacket, PacketLocals
    <2>7. disturbed' \in BOOLEAN
      BY <1>13, Zenon DEF Advance
    <2> QED
      BY <1>13, <2>3, <2>5, <2>6, <2>7 DEF Advance, log, IInv, TypeOK
  <1>14. CASE PassOnAndLog
    <2>1. udp' \in PacketLocals
      BY <1>1, <1>14 DEF PassOnAndLog, NoPacket, PacketLocals
    <2> QED
      BY <1>14, <2>1 DEF PassOnAndLog, log, tables, IInv, TypeOK
  <1>15. Entry \in Sighting \/ udp.pt \notin TagSlot
    BY <1>1 DEF Entry, Tag
  <1>16. CASE WriteTime
    <2>1. udp.pt \in TagSlot
      BY <1>1, <1>16 DEF WriteTime, PacketLocals
    <2>2. [Entry EXCEPT !.time = udp.time] \in Sighting
      BY <1>1, <1>15, <2>1 DEF Sighting, PacketLocals
    <2> QED
      BY <1>12, <1>16, <2>1, <2>2 DEF WriteTime, Writing
  <1>17. CASE WriteReader
    <2>1. udp.pt \in TagSlot /\ udp.pr \in ReaderSlot
      BY <1>3, <1>17 DEF WriteReader, WriteRing, Writing
    <2>2. [Entry EXCEPT !.reader = udp.pr] \in Sighting
      BY <1>15, <2>1 DEF Sighting
    <2> QED
      BY <1>12, <1>17, <2>1, <2>2 DEF WriteReader, Writing
  <1>18. CASE WriteAmplitude
    <2>1. udp.pt \in TagSlot
      BY <1>3, <1>18 DEF WriteAmplitude, WriteRing, Writing
    <2>2. [Entry EXCEPT !.amplitude = udp.strength] \in Sighting
      BY <1>1, <1>15, <2>1, StrengthFacts DEF Sighting, PacketLocals
    <2> QED
      BY <1>12, <1>18, <2>1, <2>2 DEF WriteAmplitude, Writing
  <1> QED
    BY <1>4, <1>5, <1>6, <1>7, <1>8, <1>9, <1>10, <1>11, <1>13, <1>14, <1>16, <1>17, <1>18
       DEF HandlePacket

LEMMA ReporterTypes ==
  ASSUME IInv, AnswerRequest \/ \E request : Accept(request)
  PROVE  TypeOK'
  <1> USE SlotFacts, StrengthFacts
  <1>1. SUFFICES tcp' \in RequestLocals
    <2>1. UNCHANGED <<now, tables, log, udp, heard, packets>> /\ disturbed' \in BOOLEAN
      <3>1. disturbed \in BOOLEAN
        BY DEF IInv, TypeOK
      <3> QED
        BY <3>1, Zenon DEF AnswerRequest, Accept, ClearLowest, CheckSighting, TakeSighting, EndScan,
             ReportTag, CloseClient
    <2> QED
      BY <1>1, <2>1 DEF tables, log, IInv, TypeOK
  <1>2. /\ tcp \in RequestLocals /\ nNextUnusedTag \in 0 .. MAX_TAGS /\ now \in Nat
        /\ taga \in [TagSlot -> Tag]
    BY DEF IInv, TypeOK
  <1>3. tcp.pc \in Scan => tcp.n < tcp.nLimit /\ tcp.n \in TagSlot
    BY <1>2 DEF IInv, ScanKnown, RequestLocals, TagSlot
  <1>4. ASSUME NEW request, Accept(request) PROVE tcp' \in RequestLocals
    <2> DEFINE pTag == TagFromUID(request)
               from == IF request = AllTags \/ pTag = NULL THEN 0 ELSE pTag
               to   == IF request = AllTags THEN nNextUnusedTag
                       ELSE IF pTag = NULL THEN 0 ELSE pTag + 1
    <2>1. pTag \in TagSlot \cup {NULL}
      BY DEF TagFromUID
    <2>2. from \in 0 .. MAX_TAGS /\ to \in 0 .. MAX_TAGS
      BY <1>2, <2>1 DEF TagSlot
    <2>3. NoRequest \in RequestLocals
      BY DEF NoRequest, RequestLocals, Lowest
    <2>4. tcp' = [NoRequest EXCEPT !.pc = "tag", !.ulTime = now, !.n = from, !.nLimit = to]
      BY Zenon, <1>4 DEF Accept
    <2> HIDE DEF from, to
    <2> QED
      BY <1>2, <2>2, <2>3, <2>4 DEF RequestLocals
  <1>5. CASE ClearLowest
    <2> DEFINE cleared == [s \in ReaderSlot |->
                             IF s < nNextUnusedReader THEN NoHit ELSE tcp.lowest[s]]
    <2>1. cleared \in [ReaderSlot -> Lowest]
      BY <1>2 DEF RequestLocals, Lowest
    <2>2. tcp' = [tcp EXCEPT !.pc = "check", !.m = 0, !.lowest = cleared]
      BY <1>5 DEF ClearLowest
    <2>3. ASSUME NEW c \in [ReaderSlot -> Lowest], NEW z \in 0 .. SIGHTING_FIFO_SIZE
          PROVE  [tcp EXCEPT !.pc = "check", !.m = z, !.lowest = c] \in RequestLocals
      BY <1>2 DEF RequestLocals
    <2>4. 0 \in 0 .. SIGHTING_FIFO_SIZE
      OBVIOUS
    <2> HIDE DEF cleared
    <2> QED
      BY Zenon, <2>1, <2>2, <2>3, <2>4
  <1>6. CASE CheckSighting
    <2> DEFINE k == (taga[tcp.n].nValidFifo + tcp.m) % SIGHTING_FIFO_SIZE
    <2>1. k \in RingSlot /\ tcp.m + 1 \in 0 .. SIGHTING_FIFO_SIZE
      <3>1. taga[tcp.n].nValidFifo \in Nat /\ tcp.m \in Nat
        BY SMTT(30), <1>2, <1>3, <1>6 DEF CheckSighting, Scan, Tag, RequestLocals, RingSlot
      <3> QED
        BY <3>1, <1>6 DEF CheckSighting, RingSlot
    <2>2. tcp' = [tcp EXCEPT !.pc = "take", !.slot = k] \/ tcp' = [tcp EXCEPT !.m = @ + 1]
      BY <1>6 DEF CheckSighting
    <2> HIDE DEF k
    <2> QED
      BY <1>2, <2>1, <2>2 DEF RequestLocals
  <1>7. CASE TakeSighting
    <2> DEFINE ps == taga[tcp.n].ring[tcp.slot]
               next == [tcp EXCEPT !.pc = "check", !.m = @ + 1, !.slot = 0]
    <2>1. tcp.m + 1 \in 0 .. SIGHTING_FIFO_SIZE /\ ps.reader # NULL
      BY <1>2, <1>7, SMTT(30) DEF TakeSighting, IInv, ScanKnown, RequestLocals
    <2>2. ps \in Sighting
      BY <1>2, <1>3, <1>7 DEF TakeSighting, Scan, Tag, RequestLocals
    <2>3. ps.reader \in ReaderSlot /\ ps.amplitude \in Lowest /\ ps.time \in Nat
      BY <2>1, <2>2 DEF Sighting, Lowest
    <2>4. next \in RequestLocals
      BY Zenon, <1>2, <2>1 DEF RequestLocals
    <2>5. [next EXCEPT !.lowest[ps.reader] = ps.amplitude, !.time[ps.reader] = ps.time]
            \in RequestLocals
      BY Zenon, <2>3, <2>4 DEF RequestLocals
    <2>6. \/ tcp' = next
          \/ tcp' = [next EXCEPT !.lowest[ps.reader] = ps.amplitude, !.time[ps.reader] = ps.time]
      BY <1>7, Zenon DEF TakeSighting
    <2> QED
      BY SMTT(30), <2>4, <2>5, <2>6
  <1>8. CASE EndScan
    BY <1>2, <1>8 DEF EndScan, RequestLocals
  <1>9. CASE ReportTag
    <2>1. tcp.n + 1 \in 0 .. MAX_TAGS
      BY <1>2, <1>3, <1>9 DEF ReportTag, Scan, RequestLocals
    <2>2. \/ tcp' = [tcp EXCEPT !.pc = "tag", !.n = @ + 1]
          \/ tcp' = [tcp EXCEPT !.pc = "crashed"]
      BY <1>9 DEF ReportTag
    <2> QED
      BY <1>2, <2>1, <2>2 DEF RequestLocals
  <1>10. CASE CloseClient
    BY <1>10 DEF CloseClient, NoRequest, RequestLocals, Lowest
  <1> QED
    BY <1>4, <1>5, <1>6, <1>7, <1>8, <1>9, <1>10 DEF AnswerRequest

LEMMA TypeStep ==
  ASSUME IInv, [Next]_vars
  PROVE  TypeOK'
  <1>1. /\ taga \in [TagSlot -> Tag] /\ readera \in [ReaderSlot -> Address \cup {NULL}]
        /\ now \in 0 .. MaxTime /\ nHourLogCurrent \in Nat /\ packets \in 0 .. MaxPackets
    BY DEF IInv, TypeOK
  <1>2. ASSUME NEW opened \in BOOLEAN, RotateLog(opened)
        PROVE  nHourLogCurrent' \in Nat /\ logOpen' \in BOOLEAN
    <2>1. now \div HourLength \in Nat
      BY <1>1
    <2>2. logOpen \in BOOLEAN
      BY DEF IInv, TypeOK
    <2>3. CASE now \div HourLength # nHourLogCurrent
      BY <1>2, <2>1, <2>3 DEF RotateLog
    <2>4. CASE now \div HourLength = nHourLogCurrent
      BY <1>1, <1>2, <2>2, <2>4 DEF RotateLog
    <2> QED
      BY <2>3, <2>4
  <1>3. CASE Tick
    BY <1>3 DEF Tick, tables, log, IInv, TypeOK
  <1>4. ASSUME NEW a \in Address, NEW u \in TagId, NEW s \in Strength, NEW opened \in BOOLEAN,
               Receive(a, u, s, opened)
        PROVE  TypeOK'
    <2>1. ReaderFromAddress(a) \in ReaderSlot \cup {NULL} /\ TagFromUID(u) \in TagSlot \cup {NULL}
      BY DEF ReaderFromAddress, TagFromUID
    <2>2. udp' \in PacketLocals
      BY <1>1, <1>4, <2>1 DEF Receive, PacketLocals
    <2>3. nHourLogCurrent' \in Nat /\ logOpen' \in BOOLEAN
      BY <1>2, <1>4 DEF Receive
    <2>4. packets' \in 0 .. MaxPackets
      BY <1>1, <1>4 DEF Receive
    <2> QED
      BY <1>4, <2>2, <2>3, <2>4 DEF Receive, tables, IInv, TypeOK
  <1>5. ASSUME NEW opened \in BOOLEAN, RejectPacket(opened)
        PROVE  TypeOK'
    <2>1. nHourLogCurrent' \in Nat /\ logOpen' \in BOOLEAN
      BY <1>2, <1>5 DEF RejectPacket
    <2> QED
      BY <1>5, <2>1 DEF RejectPacket, tables, IInv, TypeOK
  <1>6. CASE UNCHANGED vars
    BY SMTT(30), <1>6 DEF vars, IInv, TypeOK
  <1> QED
    BY <1>3, <1>4, <1>5, <1>6, ReceiverTypes, ReporterTypes DEF Next

-----------------------------------------------------------------------------
(* All steps but those of the receiving thread leave its data alone.       *)
LEMMA OthersLeaveTables ==
  ASSUME Tick \/ (\E request : Accept(request)) \/ AnswerRequest \/ UNCHANGED vars
  PROVE  UNCHANGED <<readera, nNextUnusedReader, taga, nNextUnusedTag, logOpen, udp, heard>>
  BY Zenon DEF Tick, Accept, AnswerRequest, ClearLowest, CheckSighting, TakeSighting, EndScan,
         ReportTag, CloseClient, vars, tables, log

(* What the steps that write to taga do to it.                             *)
LEMMA FillTagEffect ==
  ASSUME IInv, FillTag
  PROVE  /\ udp.pt \in TagSlot
         /\ \A t \in TagSlot :
              /\ taga'[t].ring = taga[t].ring
              /\ taga'[t].hashed = taga[t].hashed
              /\ t # udp.pt => taga'[t] = taga[t]
         /\ taga'[udp.pt].uid = udp.uid /\ taga'[udp.pt].nValidFifo = 0
  <1>1. udp.pt \in TagSlot /\ taga \in [TagSlot -> Tag]
    BY DEF IInv, TypeOK, TagKnown, FillTag
  <1>2. taga' = [taga EXCEPT ![udp.pt] = [taga[udp.pt] EXCEPT !.uid = udp.uid, !.nValidFifo = 0]]
    BY <1>1 DEF FillTag
  <1>3. taga[udp.pt] \in Tag
    BY <1>1
  <1>4. LET new == [taga[udp.pt] EXCEPT !.uid = udp.uid, !.nValidFifo = 0]
        IN  /\ new.ring = taga[udp.pt].ring /\ new.hashed = taga[udp.pt].hashed
            /\ new.uid = udp.uid /\ new.nValidFifo = 0
    BY <1>3 DEF Tag
  <1> QED
    BY <1>1, <1>2, <1>4

LEMMA HashTagEffect ==
  ASSUME IInv, HashTag
  PROVE  /\ udp.pt \in TagSlot
         /\ \A t \in TagSlot :
              /\ taga'[t].ring = taga[t].ring
              /\ taga'[t].uid = taga[t].uid
              /\ taga'[t].nValidFifo = taga[t].nValidFifo
              /\ t # udp.pt => taga'[t] = taga[t]
         /\ taga'[udp.pt].hashed = TRUE
  <1>1. udp.pt \in TagSlot /\ taga \in [TagSlot -> Tag]
    BY DEF IInv, TypeOK, TagKnown, HashTag
  <1>2. taga' = [taga EXCEPT ![udp.pt] = [taga[udp.pt] EXCEPT !.hashed = TRUE]]
    BY <1>1 DEF HashTag
  <1>3. taga[udp.pt] \in Tag
    BY <1>1
  <1>4. LET new == [taga[udp.pt] EXCEPT !.hashed = TRUE]
        IN  /\ new.ring = taga[udp.pt].ring /\ new.uid = taga[udp.pt].uid
            /\ new.nValidFifo = taga[udp.pt].nValidFifo /\ new.hashed = TRUE
    BY <1>3 DEF Tag
  <1> QED
    BY <1>1, <1>2, <1>4

(* One field of the next entry of one ring is written.                     *)
WritesEntry(entry) ==
  \A t \in TagSlot :
    /\ taga'[t].uid = taga[t].uid /\ taga'[t].hashed = taga[t].hashed
    /\ taga'[t].nValidFifo = taga[t].nValidFifo
    /\ \A k \in RingSlot :
         taga'[t].ring[k] = IF t = udp.pt /\ k = taga[t].nValidFifo THEN entry
                            ELSE taga[t].ring[k]

LEMMA WriteRingEffect ==
  ASSUME IInv, NEW from, NEW to, NEW entry, WriteRing(from, to, entry), udp.pt \in TagSlot
  PROVE  WritesEntry(entry)
  <1>1. taga \in [TagSlot -> Tag]
    BY DEF IInv, TypeOK
  <1> DEFINE new == [taga[udp.pt] EXCEPT !.ring = [@ EXCEPT ![taga[udp.pt].nValidFifo] = entry]]
  <1>2. taga' = [taga EXCEPT ![udp.pt] = new]
    BY <1>1 DEF WriteRing
  <1>3. /\ new.uid = taga[udp.pt].uid /\ new.hashed = taga[udp.pt].hashed
        /\ new.nValidFifo = taga[udp.pt].nValidFifo
        /\ new.ring = [taga[udp.pt].ring EXCEPT ![taga[udp.pt].nValidFifo] = entry]
    BY <1>1 DEF Tag
  <1>4. taga[udp.pt].ring \in [RingSlot -> Sighting]
    BY <1>1 DEF Tag
  <1> HIDE DEF new
  <1> QED
    BY <1>1, <1>2, <1>3, <1>4 DEF WritesEntry

(* The three writes.                                                       *)
LEMMA FieldWrites ==
  ASSUME IInv, WriteTime \/ WriteReader \/ WriteAmplitude
  PROVE  /\ udp.pr \in ReaderSlot /\ udp.pt \in TagSlot /\ taga[udp.pt].hashed
         /\ Entry \in Sighting
         /\ \/ WritesEntry([Entry EXCEPT !.time = udp.time]) /\ udp.pc = "sighting" /\ udp'.pc = "who"
            \/ WritesEntry([Entry EXCEPT !.reader = udp.pr]) /\ udp.pc = "who" /\ udp'.pc = "amplitude"
            \/ WritesEntry([Entry EXCEPT !.amplitude = udp.strength])
               /\ udp.pc = "amplitude" /\ udp'.pc = "advance"
         /\ udp' = [udp EXCEPT !.pc = udp'.pc]
         /\ disturbed' = (disturbed \/ Scanning(udp.pt))
         /\ UNCHANGED <<readera, nNextUnusedReader, nNextUnusedTag, logOpen, tcp, heard>>
  <1>1. udp \in PacketLocals /\ taga \in [TagSlot -> Tag]
    BY DEF IInv, TypeOK
  <1>2. udp.pr \in ReaderSlot /\ udp.pt \in TagSlot /\ taga[udp.pt].hashed
    <2>1. CASE udp.pc = "sighting"
      BY <1>1, <2>1 DEF WriteTime, WriteReader, WriteAmplitude, WriteRing, IInv, TagKnown, PacketLocals
    <2>2. CASE udp.pc # "sighting"
      BY <2>2 DEF WriteTime, WriteReader, WriteAmplitude, WriteRing, IInv, TagKnown, Writing
    <2> QED
      BY <2>1, <2>2
  <1>3. Entry \in Sighting
    BY <1>1, <1>2 DEF Entry, Tag
  <1>4. CASE WriteTime
    <2>1. WriteRing("sighting", "who", [Entry EXCEPT !.time = udp.time])
      BY <1>4 DEF WriteTime
    <2>2. WritesEntry([Entry EXCEPT !.time = udp.time])
      BY <1>2, <2>1, WriteRingEffect
    <2> QED
      BY <1>1, <1>2, <1>3, <2>1, <2>2 DEF WriteRing, log, PacketLocals
  <1>5. CASE WriteReader
    <2>1. WritesEntry([Entry EXCEPT !.reader = udp.pr])
      BY <1>2, <1>5, WriteRingEffect DEF WriteReader
    <2> QED
      BY <1>1, <1>2, <1>3, <1>5, <2>1 DEF WriteReader, WriteRing, log, PacketLocals
  <1>6. CASE WriteAmplitude
    <2>1. WritesEntry([Entry EXCEPT !.amplitude = udp.strength])
      BY <1>2, <1>6, WriteRingEffect DEF WriteAmplitude
    <2> QED
      BY <1>1, <1>2, <1>3, <1>6, <2>1 DEF WriteAmplitude, WriteRing, log, PacketLocals
  <1> QED
    BY <1>4, <1>5, <1>6

LEMMA AdvanceEffect ==
  ASSUME IInv, Advance
  PROVE  /\ udp.pt \in TagSlot /\ udp.pr \in ReaderSlot
         /\ \A t \in TagSlot :
              /\ taga'[t].ring = taga[t].ring /\ taga'[t].uid = taga[t].uid
              /\ taga'[t].hashed = taga[t].hashed
              /\ t # udp.pt => taga'[t] = taga[t] /\ heard'[t] = heard[t]
         /\ taga'[udp.pt].nValidFifo = (taga[udp.pt].nValidFifo + 1) % SIGHTING_FIFO_SIZE
         /\ heard'[udp.pt] = Append(heard[udp.pt],
              [time |-> udp.time, reader |-> udp.pr, amplitude |-> udp.strength])
         /\ udp' = [NoPacket EXCEPT !.pc = "pass"]
  <1>1. /\ udp.pt \in TagSlot /\ udp.pr \in ReaderSlot /\ taga \in [TagSlot -> Tag]
        /\ heard \in [TagSlot -> Seq(Sighting)]
    BY DEF IInv, TypeOK, TagKnown, Advance, Writing
  <1> DEFINE new == [taga[udp.pt] EXCEPT !.nValidFifo = (@ + 1) % SIGHTING_FIFO_SIZE]
  <1>2. taga' = [taga EXCEPT ![udp.pt] = new]
    BY <1>1 DEF Advance
  <1>3. /\ new.uid = taga[udp.pt].uid /\ new.hashed = taga[udp.pt].hashed
        /\ new.nValidFifo = (taga[udp.pt].nValidFifo + 1) % SIGHTING_FIFO_SIZE
        /\ new.ring = taga[udp.pt].ring
    BY <1>1 DEF Tag
  <1> HIDE DEF new
  <1> QED
    BY <1>1, <1>2, <1>3 DEF Advance

-----------------------------------------------------------------------------
(* The reader table.                                                       *)
LEMMA ReaderStep ==
  ASSUME IInv, [Next]_vars
  PROVE  ReaderKnown'
  <1>1. /\ udp \in PacketLocals /\ taga \in [TagSlot -> Tag]
        /\ readera \in [ReaderSlot -> Address \cup {NULL}]
        /\ nNextUnusedReader \in 0 .. MAX_READERS
    BY DEF IInv, TypeOK
  <1>2. ReaderKnown
    BY DEF IInv
  <1>3. CASE UNCHANGED <<readera, nNextUnusedReader, taga, udp>>
    BY <1>2, <1>3 DEF ReaderKnown
  <1>4. ASSUME NEW a \in Address, NEW u \in TagId, NEW s \in Strength, NEW opened \in BOOLEAN,
               Receive(a, u, s, opened)
        PROVE  ReaderKnown'
    <2>1. udp' = [pc |-> "reader", address |-> a, uid |-> u, strength |-> s, time |-> now,
                  pr |-> ReaderFromAddress(a), pt |-> TagFromUID(u)]
      BY <1>4 DEF Receive
    <2>2. UNCHANGED <<readera, nNextUnusedReader, taga>>
      BY <1>4 DEF Receive, tables
    <2>3. IF ReaderFromAddress(a) = NULL THEN \A x \in ReaderSlot : readera[x] # a
          ELSE readera[ReaderFromAddress(a)] = a
      BY SlotFacts DEF ReaderFromAddress
    <2> QED
      BY <1>2, <2>1, <2>2, <2>3 DEF ReaderKnown, Writing
  <1>5. CASE KeepReader
    BY <1>1, <1>2, <1>5 DEF KeepReader, tables, ReaderKnown, PacketLocals, Writing
  <1>6. CASE AllocReader
    BY SMTT(30), <1>1, <1>2, <1>6 DEF AllocReader, ReaderKnown, PacketLocals, Writing, ReaderSlot
  <1>7. CASE FillReader
    <2>1. /\ udp.pr \in ReaderSlot /\ udp.pr + 1 = nNextUnusedReader /\ readera[udp.pr] = NULL
          /\ udp.address \in Address /\ \A s \in ReaderSlot : readera[s] # udp.address
      BY <1>2, <1>7 DEF FillReader, ReaderKnown
    <2>2. /\ \A s \in ReaderSlot : readera'[s] = IF s = udp.pr THEN udp.address ELSE readera[s]
          /\ udp' = [udp EXCEPT !.pc = "tag"]
          /\ UNCHANGED <<nNextUnusedReader, taga>>
      BY <1>1, <1>7, <2>1 DEF FillReader
    <2>3. udp'.pc = "tag" /\ udp'.pr = udp.pr
      BY <1>1, <2>2 DEF PacketLocals
    <2>4. \A s \in ReaderSlot : readera'[s] # NULL =>
            /\ s < nNextUnusedReader
            /\ \A x \in ReaderSlot \ {s} : readera'[x] # readera'[s]
      BY <1>2, <2>1, <2>2 DEF ReaderKnown, ReaderSlot
    <2>5. \A s \in ReaderSlot : readera[s] # NULL => readera'[s] # NULL
      BY <2>1, <2>2
    <2>6. readera'[udp.pr] # NULL
      BY <2>1, <2>2
    <2>7. \A t \in TagSlot, k \in RingSlot : taga[t].ring[k].reader \in ReaderSlot \cup {NULL}
      BY <1>1 DEF Tag, Sighting
    <2>8. \A t \in TagSlot, k \in RingSlot :
            taga[t].ring[k].reader # NULL => readera'[taga[t].ring[k].reader] # NULL
      BY <1>2, <2>5, <2>7 DEF ReaderKnown
    <2> QED
      BY <2>2, <2>3, <2>4, <2>6, <2>8 DEF ReaderKnown, Writing
  <1>8. ASSUME UNCHANGED <<readera, nNextUnusedReader>>, udp'.pr = udp.pr,
               udp.pc \in {"tag", "fillTag", "hashTag", "sighting"} \cup Writing,
               udp'.pc \notin {"reader", "fillReader"},
               \A t \in TagSlot, k \in RingSlot : taga'[t].ring[k].reader \in {udp.pr, taga[t].ring[k].reader}
        PROVE  ReaderKnown'
    BY <1>2, <1>8 DEF ReaderKnown
  <1>9. CASE KeepTag \/ AllocTag
    BY <1>1, <1>8, <1>9 DEF KeepTag, AllocTag, tables, PacketLocals
  <1>10. CASE FillTag \/ HashTag
    <2>1. \A t \in TagSlot : taga'[t].ring = taga[t].ring
      BY <1>10, FillTagEffect, HashTagEffect
    <2> QED
      BY <1>1, <1>8, <1>10, <2>1 DEF FillTag, HashTag, PacketLocals
  <1>11. CASE udp'.pc \in {"recv", "pass", "crashed"} /\ UNCHANGED <<readera, nNextUnusedReader>>
           /\ \A t \in TagSlot : taga'[t].ring = taga[t].ring
    BY <1>2, <1>11 DEF ReaderKnown, Writing
  <1>12. CASE WriteTime \/ WriteReader \/ WriteAmplitude
    <2>1. PICK e : WritesEntry(e) /\ e.reader \in {udp.pr, Entry.reader}
      BY <1>12, FieldWrites DEF Sighting
    <2>2. \A t \in TagSlot, k \in RingSlot :
            taga'[t].ring[k].reader \in {udp.pr, taga[t].ring[k].reader}
      BY <2>1 DEF WritesEntry, Entry
    <2> QED
      BY <1>1, <1>8, <1>12, <2>2, FieldWrites DEF PacketLocals, Writing
  <1>13. CASE DropSighting \/ DereferenceNullTag \/ PassOnAndLog \/ Advance
    <2>1. UNCHANGED <<readera, nNextUnusedReader>>
      BY <1>13 DEF DropSighting, DereferenceNullTag, PassOnAndLog, Advance, tables
    <2>2. \A t \in TagSlot : taga'[t].ring = taga[t].ring
      <3>1. CASE Advance
        BY <3>1, AdvanceEffect
      <3>2. CASE ~ Advance
        BY <1>13, <3>2 DEF DropSighting, DereferenceNullTag, PassOnAndLog, tables
      <3> QED
        BY <3>1, <3>2
    <2>3. udp'.pc \in {"recv", "pass", "crashed"}
      BY <1>1, <1>13 DEF DropSighting, DereferenceNullTag, PassOnAndLog, Advance, NoPacket, PacketLocals
    <2> QED
      BY <1>11, <2>1, <2>2, <2>3
  <1>14. ASSUME NEW opened \in BOOLEAN, RejectPacket(opened) PROVE ReaderKnown'
    BY <1>3, <1>14 DEF RejectPacket, tables
  <1> QED
    BY <1>3, <1>4, <1>5, <1>6, <1>7, <1>9, <1>10, <1>12, <1>13, <1>14, OthersLeaveTables
       DEF Next, HandlePacket

-----------------------------------------------------------------------------
(* The tag table.                                                          *)
LEMMA TagStep ==
  ASSUME IInv, [Next]_vars
  PROVE  TagKnown'
  <1>1. udp \in PacketLocals /\ taga \in [TagSlot -> Tag] /\ nNextUnusedTag \in 0 .. MAX_TAGS
    BY DEF IInv, TypeOK
  <1>2. TagKnown
    BY DEF IInv
  <1>3. CASE UNCHANGED <<taga, nNextUnusedTag, logOpen, udp>>
    BY <1>2, <1>3 DEF TagKnown
  <1>4. ASSUME NEW a \in Address, NEW u \in TagId, NEW s \in Strength, NEW opened \in BOOLEAN,
               Receive(a, u, s, opened)
        PROVE  TagKnown'
    <2>1. udp' = [pc |-> "reader", address |-> a, uid |-> u, strength |-> s, time |-> now,
                  pr |-> ReaderFromAddress(a), pt |-> TagFromUID(u)]
      BY <1>4 DEF Receive
    <2>2. UNCHANGED <<taga, nNextUnusedTag>>
      BY <1>4 DEF Receive, tables
    <2>3. IF TagFromUID(u) = NULL THEN \A t \in TagSlot : taga[t].hashed => taga[t].uid # u
          ELSE taga[TagFromUID(u)].hashed
      BY SlotFacts DEF TagFromUID
    <2> QED
      BY <1>2, <2>1, <2>2, <2>3 DEF TagKnown, Writing
  <1>5. ASSUME NEW opened \in BOOLEAN, RejectPacket(opened) PROVE TagKnown'
    BY <1>2, <1>5 DEF RejectPacket, tables, TagKnown
  <1>6. CASE KeepReader \/ AllocReader \/ FillReader
    <2>1. /\ udp.pc \in {"reader", "fillReader"} /\ udp'.pc \in {"fillReader", "tag"}
          /\ udp'.uid = udp.uid /\ udp'.pt = udp.pt
      BY <1>1, <1>6 DEF KeepReader, AllocReader, FillReader, PacketLocals
    <2>2. UNCHANGED <<taga, nNextUnusedTag>>
      BY <1>6 DEF KeepReader, AllocReader, FillReader, tables
    <2> QED
      BY <1>2, <2>1, <2>2 DEF TagKnown, Writing
  <1>7. CASE KeepTag
    BY <1>1, <1>2, <1>7 DEF KeepTag, tables, TagKnown, PacketLocals, Writing
  <1>8. CASE AllocTag
    <2>1. nNextUnusedTag \in TagSlot /\ nNextUnusedTag' = nNextUnusedTag + 1 /\ taga' = taga
      BY <1>1, <1>8 DEF AllocTag, TagSlot
    <2>2. udp'.pc = "fillTag" /\ udp'.uid = udp.uid /\ udp'.pt = nNextUnusedTag
      BY <1>1, <1>8 DEF AllocTag, PacketLocals
    <2>3. \A t \in TagSlot : taga[t].hashed => t < nNextUnusedTag /\ taga[t].uid # udp.uid
      BY <1>2, <1>8 DEF AllocTag, TagKnown
    <2> QED
      BY <1>2, <1>8, <2>1, <2>2, <2>3, SlotFacts DEF AllocTag, TagKnown, Writing
  <1>9. CASE FillTag
    <2>1. /\ ~ taga[udp.pt].hashed /\ udp.pt + 1 = nNextUnusedTag /\ udp.uid \in TagId
          /\ \A t \in TagSlot : taga[t].hashed => taga[t].uid # udp.uid
      BY <1>2, <1>9 DEF FillTag, TagKnown
    <2>2. udp'.pc = "hashTag" /\ udp'.uid = udp.uid /\ udp'.pt = udp.pt /\ UNCHANGED nNextUnusedTag
      BY <1>1, <1>9 DEF FillTag, PacketLocals
    <2>3. \A t \in TagSlot : taga'[t].hashed => taga'[t] = taga[t]
      BY <1>9, <2>1, FillTagEffect
    <2>4. /\ udp.pt \in TagSlot /\ ~ taga'[udp.pt].hashed /\ taga'[udp.pt].uid = udp.uid
      BY <1>9, <2>1, FillTagEffect
    <2> QED
      BY <1>2, <2>1, <2>2, <2>3, <2>4 DEF TagKnown, Writing
  <1>10. CASE HashTag
    <2>1. /\ ~ taga[udp.pt].hashed /\ udp.pt + 1 = nNextUnusedTag /\ udp.uid \in TagId
          /\ \A t \in TagSlot : taga[t].hashed => taga[t].uid # udp.uid
          /\ taga[udp.pt].uid = udp.uid
      BY <1>2, <1>10 DEF HashTag, TagKnown
    <2>2. udp'.pc = "sighting" /\ udp'.uid = udp.uid /\ udp'.pt = udp.pt /\ UNCHANGED nNextUnusedTag
      BY <1>1, <1>10 DEF HashTag, PacketLocals
    <2>3. \A t \in TagSlot : t # udp.pt => taga'[t] = taga[t]
      BY <1>10, HashTagEffect
    <2>4. udp.pt \in TagSlot /\ taga'[udp.pt].hashed /\ taga'[udp.pt].uid = udp.uid
      BY <1>10, <2>1, HashTagEffect
    <2>5. udp.uid # NULL /\ udp.pt < nNextUnusedTag
      <3>1. udp.uid # NULL
        BY <2>1
      <3>2. udp.pt \in Nat
        BY <2>4, SlotFacts
      <3> QED
        BY <1>1, <2>1, <3>1, <3>2
    <2>6. \A t \in TagSlot : taga'[t].hashed =>
            /\ t < nNextUnusedTag /\ taga'[t].uid # NULL
            /\ \A x \in TagSlot \ {t} : taga'[x].hashed => taga'[x].uid # taga'[t].uid
      BY <1>2, <2>1, <2>3, <2>4, <2>5 DEF TagKnown
    <2> QED
      BY <2>2, <2>4, <2>6, SlotFacts DEF TagKnown, Writing
  <1>11. ASSUME UNCHANGED nNextUnusedTag,
                \A t \in TagSlot : taga'[t].hashed = taga[t].hashed /\ taga'[t].uid = taga[t].uid,
                \/ /\ udp'.pc \in Writing /\ udp'.pr = udp.pr /\ udp'.pt = udp.pt
                   /\ udp.pr \in ReaderSlot /\ udp.pt \in TagSlot /\ taga[udp.pt].hashed
                \/ /\ udp'.pc \in {"recv", "pass", "crashed"} /\ udp'.pt = NULL
                   /\ udp'.pc = "crashed" => (nNextUnusedTag = MAX_TAGS \/ ~ logOpen')
         PROVE  TagKnown'
    BY <1>2, <1>11 DEF TagKnown, Writing
  <1>12. CASE WriteTime \/ WriteReader \/ WriteAmplitude
    <2>1. \A t \in TagSlot : taga'[t].hashed = taga[t].hashed /\ taga'[t].uid = taga[t].uid
      BY <1>12, FieldWrites DEF WritesEntry
    <2>2. udp'.pc \in Writing /\ udp'.pr = udp.pr /\ udp'.pt = udp.pt
      BY <1>1, <1>12, FieldWrites DEF PacketLocals, Writing
    <2> QED
      BY <1>11, <1>12, <2>1, <2>2, FieldWrites
  <1>13. CASE Advance
    <2>1. UNCHANGED nNextUnusedTag
      BY <1>13 DEF Advance
    <2>2. udp'.pc = "pass" /\ udp'.pt = NULL
      BY <1>13 DEF Advance, NoPacket
    <2> QED
      BY <1>11, <1>13, <2>1, <2>2, AdvanceEffect
  <1>14. CASE DropSighting \/ DereferenceNullTag \/ PassOnAndLog
    <2>1. UNCHANGED <<taga, nNextUnusedTag, logOpen>>
      BY <1>14 DEF DropSighting, DereferenceNullTag, PassOnAndLog, tables, log
    <2>2. /\ udp'.pc \in {"recv", "pass", "crashed"} /\ udp'.pt = NULL
          /\ udp'.pc = "crashed" => (nNextUnusedTag = MAX_TAGS \/ ~ logOpen)
      BY <1>1, <1>2, <1>14 DEF DropSighting, DereferenceNullTag, PassOnAndLog, NoPacket,
           TagKnown, PacketLocals
    <2> QED
      BY <1>11, <2>1, <2>2
  <1> QED
    BY <1>3, <1>4, <1>5, <1>6, <1>7, <1>8, <1>9, <1>10, <1>12, <1>13, <1>14, OthersLeaveTables
       DEF Next, HandlePacket

-----------------------------------------------------------------------------
(* Ring positions, counted back from the next one to be written and        *)
(* forward from the oldest one.                                            *)
LEMMA BackSlot ==
  ASSUME NEW p \in RingSlot, NEW k \in 1 .. SIGHTING_FIFO_SIZE
  PROVE  /\ (p - k) % SIGHTING_FIFO_SIZE
              = IF k <= p THEN p - k ELSE p - k + SIGHTING_FIFO_SIZE
         /\ (p - k) % SIGHTING_FIFO_SIZE \in RingSlot
  BY DEF RingSlot

LEMMA NextSlot ==
  ASSUME NEW p \in RingSlot
  PROVE  /\ (p + 1) % SIGHTING_FIFO_SIZE
              = IF p + 1 = SIGHTING_FIFO_SIZE THEN 0 ELSE p + 1
         /\ (p + 1) % SIGHTING_FIFO_SIZE \in RingSlot
  BY DEF RingSlot

LEMMA ForwardSlot ==
  ASSUME NEW p \in RingSlot, NEW m \in 0 .. SIGHTING_FIFO_SIZE - 1
  PROVE  (p + m) % SIGHTING_FIFO_SIZE = (p - (SIGHTING_FIFO_SIZE - m)) % SIGHTING_FIFO_SIZE
  BY DEF RingSlot

(* Writing the next entry touches the oldest one only, ...                 *)
LEMMA OldestSlot ==
  ASSUME NEW p \in RingSlot, NEW k \in 1 .. SIGHTING_FIFO_SIZE
  PROVE  (p - k) % SIGHTING_FIFO_SIZE = p <=> k = SIGHTING_FIFO_SIZE
  BY BackSlot DEF RingSlot

(* ... and when the position moves on that entry is the newest, and all    *)
(* others are one further back.                                            *)
LEMMA ShiftedSlots ==
  ASSUME NEW p \in RingSlot, NEW q, q = (p + 1) % SIGHTING_FIFO_SIZE
  PROVE  /\ (q - 1) % SIGHTING_FIFO_SIZE = p
         /\ \A k \in 2 .. SIGHTING_FIFO_SIZE :
              (q - k) % SIGHTING_FIFO_SIZE = (p - (k - 1)) % SIGHTING_FIFO_SIZE
  <1>1. q \in RingSlot /\ q = IF p + 1 = SIGHTING_FIFO_SIZE THEN 0 ELSE p + 1
    BY NextSlot
  <1>2. (q - 1) % SIGHTING_FIFO_SIZE = p
    BY <1>1 DEF RingSlot
  <1>3. ASSUME NEW k \in 2 .. SIGHTING_FIFO_SIZE
        PROVE  (q - k) % SIGHTING_FIFO_SIZE = (p - (k - 1)) % SIGHTING_FIFO_SIZE
    <2>1. k \in 1 .. SIGHTING_FIFO_SIZE /\ k - 1 \in 1 .. SIGHTING_FIFO_SIZE
      OBVIOUS
    <2>2. (q - k) % SIGHTING_FIFO_SIZE = IF k <= q THEN q - k ELSE q - k + SIGHTING_FIFO_SIZE
      BY <1>1, <2>1, BackSlot
    <2>3. (p - (k - 1)) % SIGHTING_FIFO_SIZE
            = IF k - 1 <= p THEN p - (k - 1) ELSE p - (k - 1) + SIGHTING_FIFO_SIZE
      BY <2>1, BackSlot
    <2> QED
      BY <1>1, <2>2, <2>3 DEF RingSlot
  <1> QED
    BY <1>2, <1>3

(* What the ring of one tag holds, k entries back.                         *)
Holds(t, k) ==
  taga[t].ring[(taga[t].nValidFifo - k) % SIGHTING_FIFO_SIZE]
    = IF k <= Len(heard[t]) THEN heard[t][Len(heard[t]) + 1 - k] ELSE NoSighting

LEMMA RingStep ==
  ASSUME IInv, [Next]_vars
  PROVE  RingKnown'
  <1>1. /\ udp \in PacketLocals /\ taga \in [TagSlot -> Tag]
        /\ heard \in [TagSlot -> Seq(Sighting)]
    BY DEF IInv, TypeOK
  <1>2. /\ RingKnown
        /\ \A t \in TagSlot, k \in 1 .. SIGHTING_FIFO_SIZE :
             k < SIGHTING_FIFO_SIZE \/ ~ MidWrite(t) => Holds(t, k)
    BY DEF IInv, RingKnown, Holds
  <1>3. /\ udp.pc = "crashed" => udp.pt = NULL
        /\ udp.pc \in Writing => udp.pt \in TagSlot
    BY DEF IInv, TagKnown
  <1>4. CASE UNCHANGED <<taga, udp, heard>>
    BY <1>2, <1>4 DEF RingKnown, MidWrite, Entry, Writing
  <1>5. ASSUME UNCHANGED heard, udp.pc \notin Writing, udp'.pc \notin Writing,
               \A t \in TagSlot : /\ taga'[t].ring = taga[t].ring
                                  /\ taga'[t].nValidFifo = taga[t].nValidFifo
                                  /\ taga[t].hashed => taga'[t].hashed
        PROVE  RingKnown'
    <2>1. \A t \in TagSlot : ~ MidWrite(t)
      BY <1>3, <1>5, SlotFacts DEF MidWrite, Writing
    <2>2. \A t \in TagSlot : ~ taga'[t].hashed =>
            /\ heard'[t] = <<>> /\ taga'[t].ring = [k \in RingSlot |-> NoSighting]
            /\ taga'[t].nValidFifo = 0
      BY <1>2, <1>5 DEF RingKnown
    <2>3. ASSUME NEW t \in TagSlot, NEW k \in 1 .. SIGHTING_FIFO_SIZE
          PROVE  Holds(t, k)'
      BY <1>2, <1>5, <2>1 DEF Holds
    <2> QED
      BY <1>2, <1>5, <2>2, <2>3 DEF RingKnown, Holds
  <1>6. CASE FillTag
    <2>1. PICK i \in TagSlot : i = udp.pt
      BY <1>6, FillTagEffect
    <2>2. /\ ~ taga[i].hashed
          /\ \A t \in TagSlot : /\ taga'[t].ring = taga[t].ring
                                /\ taga'[t].hashed = taga[t].hashed
                                /\ t # i => taga'[t] = taga[t]
          /\ taga'[i].nValidFifo = 0
      BY <1>6, <2>1, FillTagEffect DEF IInv, TagKnown, FillTag
    <2>3. udp.pc = "fillTag" /\ udp'.pc = "hashTag" /\ UNCHANGED heard
      BY <1>1, <1>6 DEF FillTag, PacketLocals
    <2>4. heard[i] = <<>> /\ taga[i].ring = [k \in RingSlot |-> NoSighting]
      BY <1>2, <2>2 DEF RingKnown
    <2>5. \A t \in TagSlot : ~ MidWrite(t)
      BY <2>3 DEF MidWrite
    <2>6. taga'[i].nValidFifo \in RingSlot
      BY <1>1, <1>6, <2>1, SlotFacts DEF FillTag, Tag
    <2>7. ASSUME NEW t \in TagSlot, NEW k \in 1 .. SIGHTING_FIFO_SIZE
          PROVE  Holds(t, k)'
      <3>1. CASE t = i
        <4>1. (taga'[i].nValidFifo - k) % SIGHTING_FIFO_SIZE \in RingSlot
          BY <2>6, BackSlot
        <4>2. ~ k <= Len(heard'[i])
          BY <2>3, <2>4
        <4> QED
          BY <2>2, <2>4, <3>1, <4>1, <4>2 DEF Holds
      <3>2. CASE t # i
        BY <1>2, <2>2, <2>3, <2>5, <3>2 DEF Holds
      <3> QED
        BY <3>1, <3>2
    <2> QED
      BY SMTT(30), <1>2, <2>2, <2>3, <2>7 DEF RingKnown, Holds, Writing
  <1>7. CASE WriteTime \/ WriteReader \/ WriteAmplitude
    <2>1. PICK entry \in Sighting : WritesEntry(entry)
      BY <1>1, <1>7, FieldWrites, StrengthFacts DEF Sighting, PacketLocals
    <2>2. udp'.pt = udp.pt /\ udp'.pc \in Writing /\ UNCHANGED heard
      BY <1>1, <1>7, FieldWrites DEF PacketLocals, Writing
    <2>3. udp.pt \in TagSlot /\ taga[udp.pt].hashed
      BY <1>7, FieldWrites
    <2>4. ASSUME NEW t \in TagSlot, ~ taga'[t].hashed
          PROVE  /\ heard'[t] = <<>> /\ taga'[t].ring = [k \in RingSlot |-> NoSighting]
                 /\ taga'[t].nValidFifo = 0
      <3>1. ~ taga[t].hashed /\ t # udp.pt
        BY <2>1, <2>3, <2>4 DEF WritesEntry
      <3>2. taga'[t] = taga[t]
        BY <1>1, <1>7, <2>3, <3>1 DEF WriteTime, WriteReader, WriteAmplitude, WriteRing
      <3> QED
        BY <1>2, <2>2, <3>1, <3>2 DEF RingKnown
    <2>5. ASSUME NEW t \in TagSlot, NEW k \in 1 .. SIGHTING_FIFO_SIZE,
                 k < SIGHTING_FIFO_SIZE \/ ~ MidWrite(t)'
          PROVE  Holds(t, k)'
      <3>1. taga[t].nValidFifo \in RingSlot
        BY <1>1 DEF Tag
      <3>2. ~ (t = udp.pt /\ (taga[t].nValidFifo - k) % SIGHTING_FIFO_SIZE = taga[t].nValidFifo)
        BY <2>2, <2>5, <3>1, OldestSlot DEF MidWrite, Writing
      <3>3. k < SIGHTING_FIFO_SIZE \/ ~ MidWrite(t)
        BY <2>2, <2>5 DEF MidWrite, Writing
      <3>4. (taga[t].nValidFifo - k) % SIGHTING_FIFO_SIZE \in RingSlot
        BY <3>1, BackSlot
      <3> QED
        BY SMTT(30), <1>2, <2>1, <2>2, <3>2, <3>3, <3>4 DEF WritesEntry, Holds
    <2>6. /\ (Entry.time = udp.time)'
          /\ udp'.pc # "who" => (Entry.reader = udp.pr)'
          /\ udp'.pc = "advance" => (Entry.amplitude = udp.strength)'
      <3>1. /\ udp'.time = udp.time /\ udp'.pr = udp.pr /\ udp'.strength = udp.strength
        BY <1>1, <1>7, FieldWrites DEF PacketLocals
      <3>2. taga[udp.pt].nValidFifo \in RingSlot
        BY <1>1, <2>3 DEF Tag
      <3>3. ASSUME NEW e, WritesEntry(e) PROVE Entry' = e
        BY <2>2, <2>3, <3>2, <3>3 DEF WritesEntry, Entry
      <3>4. /\ udp.pc \in Writing => Entry.time = udp.time
            /\ udp.pc = "amplitude" => Entry.reader = udp.pr
        BY <1>2 DEF RingKnown, Writing
      <3>5. CASE /\ WritesEntry([Entry EXCEPT !.time = udp.time]) /\ udp.pc = "sighting"
                 /\ udp'.pc = "who"
        BY <1>7, <3>1, <3>3, <3>5, FieldWrites DEF Sighting
      <3>6. CASE /\ WritesEntry([Entry EXCEPT !.reader = udp.pr]) /\ udp.pc = "who"
                 /\ udp'.pc = "amplitude"
        BY <1>7, <3>1, <3>3, <3>4, <3>6, FieldWrites DEF Sighting, Writing
      <3>7. CASE /\ WritesEntry([Entry EXCEPT !.amplitude = udp.strength])
                 /\ udp.pc = "amplitude" /\ udp'.pc = "advance"
        BY <1>7, <3>1, <3>3, <3>4, <3>7, FieldWrites DEF Sighting, Writing
      <3> QED
        BY <1>7, <3>5, <3>6, <3>7, FieldWrites
    <2>7. \A t \in TagSlot : \A k \in DOMAIN heard'[t] : heard'[t][k].amplitude <= MAX_STRENGTH
      BY <1>2, <2>2 DEF RingKnown
    <2> QED
      BY <2>4, <2>5, <2>6, <2>7 DEF RingKnown, Holds
  <1>8. CASE Advance
    <2>1. PICK i \in TagSlot : i = udp.pt
      BY <1>8, AdvanceEffect
    <2> DEFINE p == taga[i].nValidFifo
               h == heard[i]
               seen == [time |-> udp.time, reader |-> udp.pr, amplitude |-> udp.strength]
    <2>2. /\ udp.pc = "advance" /\ udp'.pc = "pass" /\ udp.pr \in ReaderSlot /\ taga[i].hashed
      BY <1>8, <2>1 DEF Advance, NoPacket, IInv, TagKnown, Writing
    <2>3. /\ \A t \in TagSlot : /\ taga'[t].ring = taga[t].ring
                                /\ taga'[t].hashed = taga[t].hashed
                                /\ t # i => taga'[t] = taga[t] /\ heard'[t] = heard[t]
          /\ taga'[i].nValidFifo = (p + 1) % SIGHTING_FIFO_SIZE
          /\ heard'[i] = Append(h, seen)
      BY <1>8, <2>1, AdvanceEffect
    <2>4. /\ p \in RingSlot /\ h \in Seq(Sighting) /\ taga[i].ring \in [RingSlot -> Sighting]
          /\ taga[i].ring[p] \in Sighting
      BY <1>1 DEF Tag
    <2>5. seen \in Sighting
      BY <1>1, <2>2, StrengthFacts DEF Sighting, PacketLocals
    <2>6. taga[i].ring[p] = seen
      <3>1. Entry = taga[i].ring[p]
        BY <2>1 DEF Entry
      <3>2. Entry.time = udp.time /\ Entry.reader = udp.pr /\ Entry.amplitude = udp.strength
        BY <1>2, <2>2 DEF RingKnown, Writing
      <3> QED
        BY <2>4, <3>1, <3>2 DEF Sighting
    <2> HIDE DEF seen
    <2>7. /\ Len(heard'[i]) = Len(h) + 1 /\ heard'[i][Len(h) + 1] = seen
          /\ \A k \in 1 .. Len(h) : heard'[i][k] = h[k]
          /\ DOMAIN heard'[i] = 1 .. Len(h) + 1 /\ Len(h) \in Nat
      BY <2>3, <2>4, <2>5
    <2>8. ASSUME NEW k \in 1 .. SIGHTING_FIFO_SIZE
          PROVE  Holds(i, k)'
      <3>1. CASE k = 1
        <4>1. (taga'[i].nValidFifo - k) % SIGHTING_FIFO_SIZE = p
          BY <2>3, <2>4, <3>1, ShiftedSlots
        <4>2. k <= Len(heard'[i]) /\ Len(heard'[i]) + 1 - k = Len(h) + 1
          BY <2>7, <3>1
        <4> QED
          BY <2>3, <2>6, <2>7, <4>1, <4>2 DEF Holds
      <3>2. CASE k # 1
        <4>1. k - 1 \in 1 .. SIGHTING_FIFO_SIZE /\ k - 1 < SIGHTING_FIFO_SIZE
              /\ k \in 2 .. SIGHTING_FIFO_SIZE
          BY <3>2
        <4>2. taga'[i].ring[(taga'[i].nValidFifo - k) % SIGHTING_FIFO_SIZE]
                = taga[i].ring[(p - (k - 1)) % SIGHTING_FIFO_SIZE]
          BY <2>3, <2>4, <4>1, ShiftedSlots
        <4>3. Holds(i, k - 1)
          BY <1>2, <4>1
        <4>4. Len(heard'[i]) + 1 - k = Len(h) + 1 - (k - 1)
              /\ (k <= Len(heard'[i]) <=> k - 1 <= Len(h))
          BY SMTT(30), <2>7, <4>1
        <4>5. k - 1 <= Len(h) => Len(h) + 1 - (k - 1) \in 1 .. Len(h)
          BY <2>7, <4>1
        <4> QED
          BY <2>7, <4>2, <4>3, <4>4, <4>5 DEF Holds
      <3> QED
        BY <3>1, <3>2
    <2>9. ASSUME NEW t \in TagSlot, NEW k \in 1 .. SIGHTING_FIFO_SIZE
          PROVE  Holds(t, k)'
      <3>1. CASE t # i
        <4>1. ~ MidWrite(t)
          BY <2>1, <3>1 DEF MidWrite
        <4> QED
          BY <1>2, <2>3, <3>1, <4>1, SMTT(30) DEF Holds
      <3>2. CASE t = i
        BY <2>8, <3>2
      <3> QED
        BY <3>1, <3>2
    <2>10. \A t \in TagSlot : \A k \in DOMAIN heard'[t] : heard'[t][k].amplitude <= MAX_STRENGTH
      <3>1. seen.amplitude <= MAX_STRENGTH
        BY <1>1, StrengthFacts DEF PacketLocals, seen
      <3>2. \A k \in DOMAIN heard'[i] : heard'[i][k].amplitude <= MAX_STRENGTH
        BY SMTT(30), <1>2, <2>4, <2>7, <3>1 DEF RingKnown
      <3> QED
        BY SMTT(30), <1>2, <2>3, <3>2 DEF RingKnown
    <2>11. \A t \in TagSlot : ~ taga'[t].hashed =>
             /\ heard'[t] = <<>> /\ taga'[t].ring = [k \in RingSlot |-> NoSighting]
             /\ taga'[t].nValidFifo = 0
      BY <1>2, <2>2, <2>3 DEF RingKnown
    <2> QED
      BY <2>2, <2>9, <2>10, <2>11 DEF RingKnown, Holds, Writing
  <1>9. CASE HashTag
    <2>1. UNCHANGED heard /\ udp.pc \notin Writing /\ udp'.pc \notin Writing
      BY <1>1, <1>9 DEF HashTag, PacketLocals, Writing
    <2> QED
      BY <1>5, <1>9, <2>1, HashTagEffect
  <1>10. CASE \/ KeepReader \/ AllocReader \/ FillReader \/ KeepTag \/ AllocTag
              \/ DropSighting \/ DereferenceNullTag \/ PassOnAndLog
    <2>1. UNCHANGED <<taga, heard>>
      BY <1>10 DEF KeepReader, AllocReader, FillReader, KeepTag, AllocTag, DropSighting,
           DereferenceNullTag, PassOnAndLog, tables
    <2>2. udp.pc \notin Writing
      BY <1>10 DEF KeepReader, AllocReader, FillReader, KeepTag, AllocTag, DropSighting,
           DereferenceNullTag, PassOnAndLog, Writing
    <2>3. udp'.pc \in {"tag", "fillReader", "fillTag", "sighting", "recv", "crashed"}
      <3>1. CASE KeepReader \/ AllocReader \/ FillReader \/ KeepTag \/ AllocTag
        BY <1>1, <3>1 DEF KeepReader, AllocReader, FillReader, KeepTag, AllocTag, PacketLocals
      <3>2. CASE DropSighting \/ DereferenceNullTag \/ PassOnAndLog
        BY SMTT(30), <1>1, <3>2 DEF DropSighting, DereferenceNullTag, PassOnAndLog, NoPacket, PacketLocals
      <3> QED
        BY <1>10, <3>1, <3>2
    <2> QED
      BY <1>5, <2>1, <2>2, <2>3 DEF Writing
  <1>11. ASSUME NEW a \in Address, NEW u \in TagId, NEW s \in Strength, NEW opened \in BOOLEAN,
                Receive(a, u, s, opened)
         PROVE  RingKnown'
    <2>1. UNCHANGED <<taga, heard>> /\ udp.pc \notin Writing /\ udp'.pc \notin Writing
      BY <1>11 DEF Receive, tables, Writing
    <2> QED
      BY <1>5, <2>1
  <1>12. ASSUME NEW opened \in BOOLEAN, RejectPacket(opened) PROVE RingKnown'
    BY <1>4, <1>12 DEF RejectPacket, tables
  <1> QED
    BY <1>4, <1>6, <1>7, <1>8, <1>9, <1>10, <1>11, <1>12, OthersLeaveTables DEF Next, HandlePacket

-----------------------------------------------------------------------------
(* What the receiving thread does to a scan: nothing it could not see from *)
(* "disturbed".                                                            *)
ReceiverStep ==
  \/ HandlePacket
  \/ \E a \in Address, u \in TagId, s \in Strength, opened \in BOOLEAN : Receive(a, u, s, opened)
  \/ \E opened \in BOOLEAN : RejectPacket(opened)

LEMMA ReceiverKeeps ==
  ASSUME ReceiverStep
  PROVE  tcp' = tcp /\ (disturbed => disturbed')
  <1>1. tcp' = tcp
    BY DEF ReceiverStep, HandlePacket, Receive, RejectPacket, KeepReader, AllocReader, FillReader,
         KeepTag, AllocTag, FillTag, HashTag, DropSighting, DereferenceNullTag, WriteTime,
         WriteReader, WriteAmplitude, WriteRing, Advance, PassOnAndLog
  <1>2. disturbed => disturbed'
    BY Zenon DEF ReceiverStep, HandlePacket, Receive, RejectPacket, KeepReader, AllocReader,
         FillReader, KeepTag, AllocTag, FillTag, HashTag, DropSighting, DereferenceNullTag,
         WriteTime, WriteReader, WriteAmplitude, WriteRing, Advance, PassOnAndLog
  <1> QED
    BY SMTT(30), <1>1, <1>2

LEMMA ReceiverAddsReader ==
  ASSUME IInv, ReceiverStep
  PROVE  \/ nNextUnusedReader' = nNextUnusedReader
         \/ /\ nNextUnusedReader' = nNextUnusedReader + 1
            /\ tcp.pc \in Scan => disturbed'
  <1>1. CASE AllocReader
    <2>1. tcp.pc \in Scan => disturbed'
      BY <1>1, Zenon DEF AllocReader, Scan
    <2> QED
      BY <1>1, <2>1 DEF AllocReader
  <1>2. CASE ~ AllocReader
    BY <1>2 DEF ReceiverStep, HandlePacket, Receive, RejectPacket, KeepReader, FillReader,
         KeepTag, AllocTag, FillTag, HashTag, DropSighting, DereferenceNullTag, WriteTime,
         WriteReader, WriteAmplitude, WriteRing, Advance, PassOnAndLog, tables
  <1> QED
    BY <1>1, <1>2

(* An entry that names a reader goes on to name one.                       *)
LEMMA ReceiverKeepsNamed ==
  ASSUME IInv, ReceiverStep, NEW t \in TagSlot, NEW k \in RingSlot
  PROVE  \/ taga'[t].ring[k].reader = taga[t].ring[k].reader
         \/ /\ taga'[t].ring[k].reader = udp'.pr /\ udp'.pr # NULL
            /\ udp'.pt = t /\ udp'.pc = "amplitude"
  <1>1. CASE FillTag
    BY <1>1, FillTagEffect
  <1>2. CASE HashTag
    BY <1>2, HashTagEffect
  <1>3. CASE Advance
    BY <1>3, AdvanceEffect
  <1>4. CASE WriteTime \/ WriteReader \/ WriteAmplitude
    <2>1. udp.pr # NULL /\ Entry \in Sighting /\ udp'.pr = udp.pr /\ udp'.pt = udp.pt
      BY <1>4, FieldWrites, SlotFacts, SMTT(30) DEF IInv, TypeOK, PacketLocals
    <2>2. CASE \/ WritesEntry([Entry EXCEPT !.time = udp.time])
               \/ WritesEntry([Entry EXCEPT !.amplitude = udp.strength])
      <3>1. PICK e : WritesEntry(e) /\ e.reader = Entry.reader
        BY <2>1, <2>2 DEF Sighting
      <3> QED
        BY <3>1 DEF WritesEntry, Entry
    <2>3. CASE WritesEntry([Entry EXCEPT !.reader = udp.pr]) /\ udp'.pc = "amplitude"
      <3>1. PICK e : WritesEntry(e) /\ e.reader = udp.pr
        BY <2>1, <2>3 DEF Sighting
      <3> QED
        BY <2>1, <2>3, <3>1 DEF WritesEntry
    <2> QED
      BY <1>4, <2>2, <2>3, FieldWrites
  <1>5. CASE UNCHANGED taga
    BY <1>5
  <1> QED
    BY <1>1, <1>2, <1>3, <1>4, <1>5
       DEF ReceiverStep, HandlePacket, Receive, RejectPacket, KeepReader, AllocReader, FillReader,
         KeepTag, AllocTag, DropSighting, DereferenceNullTag, PassOnAndLog, tables

(* The fifo under scan stays as it is unless the scan is disturbed.        *)
LEMMA ReceiverDisturbs ==
  ASSUME IInv, ReceiverStep, NEW t \in TagSlot, Scanning(t), ~ disturbed', ~ MidWrite(t)
  PROVE  /\ ~ MidWrite(t)' /\ heard'[t] = heard[t]
         /\ taga'[t].ring = taga[t].ring /\ taga'[t].nValidFifo = taga[t].nValidFifo
  <1>1. udp \in PacketLocals /\ taga \in [TagSlot -> Tag]
    BY DEF IInv, TypeOK
  <1>2. CASE WriteTime \/ WriteReader \/ WriteAmplitude
    <2>1. udp.pt # t
      BY <1>2, Zenon DEF WriteTime, WriteReader, WriteAmplitude, WriteRing
    <2>2. taga'[t] = taga[t] /\ heard' = heard /\ udp'.pt = udp.pt
      BY <1>1, <1>2, <2>1, FieldWrites DEF WriteTime, WriteReader, WriteAmplitude, WriteRing,
           PacketLocals
    <2> QED
      BY <2>1, <2>2 DEF MidWrite
  <1>3. CASE Advance
    <2>1. udp.pt # t
      BY <1>3, Zenon DEF Advance
    <2>2. udp'.pc = "pass"
      BY <1>3 DEF Advance, NoPacket
    <2> QED
      BY <1>3, <2>1, <2>2, AdvanceEffect DEF MidWrite
  <1>4. CASE FillTag
    <2>1. udp'.pc = "hashTag" /\ heard' = heard
      BY <1>1, <1>4 DEF FillTag, PacketLocals
    <2>2. CASE t = udp.pt
      BY <1>4, <2>1, <2>2, FillTagEffect DEF IInv, TagKnown, RingKnown, FillTag, MidWrite
    <2>3. CASE t # udp.pt
      BY <1>4, <2>1, <2>3, FillTagEffect DEF MidWrite
    <2> QED
      BY <2>2, <2>3
  <1>5. CASE HashTag
    <2>1. udp'.pc = "sighting" /\ heard' = heard
      BY <1>1, <1>5 DEF HashTag, PacketLocals
    <2> QED
      BY <1>5, <2>1, HashTagEffect DEF MidWrite
  <1>6. CASE \/ KeepReader \/ AllocReader \/ FillReader \/ KeepTag \/ AllocTag
    <2>1. UNCHANGED <<taga, heard>>
      BY <1>6 DEF KeepReader, AllocReader, FillReader, KeepTag, AllocTag, tables
    <2>2. udp'.pc \in {"tag", "fillReader", "sighting", "fillTag"}
      BY <1>1, <1>6 DEF KeepReader, AllocReader, FillReader, KeepTag, AllocTag, PacketLocals
    <2> QED
      BY <2>1, <2>2 DEF MidWrite
  <1>7. CASE DropSighting \/ DereferenceNullTag \/ PassOnAndLog
    <2>1. UNCHANGED <<taga, heard>>
      BY <1>7 DEF DropSighting, DereferenceNullTag, PassOnAndLog, tables
    <2>2. udp'.pt = NULL
      BY <1>1, <1>7 DEF DropSighting, DereferenceNullTag, PassOnAndLog, NoPacket, PacketLocals,
           IInv, TagKnown
    <2> QED
      BY <2>1, <2>2, SlotFacts DEF MidWrite
  <1>8. ASSUME NEW a \in Address, NEW u \in TagId, NEW s \in Strength, NEW opened \in BOOLEAN,
               Receive(a, u, s, opened)
        PROVE  UNCHANGED <<taga, heard>> /\ udp'.pc = "reader"
    BY <1>8 DEF Receive, tables
  <1>9. CASE \E opened \in BOOLEAN : RejectPacket(opened)
    BY <1>9 DEF RejectPacket, tables, MidWrite
  <1> QED
    BY <1>2, <1>3, <1>4, <1>5, <1>6, <1>7, <1>8, <1>9 DEF ReceiverStep, HandlePacket, MidWrite

(* Who was met stays met.                                                  *)
LEMMA MetStep ==
  ASSUME IInv, [Next]_vars, NEW t \in TagSlot, NEW s \in ReaderSlot, Met(t, s)
  PROVE  Met(t, s)'
  <1>1. udp \in PacketLocals /\ heard \in [TagSlot -> Seq(Sighting)]
    BY DEF IInv, TypeOK
  <1>2. CASE UNCHANGED <<udp, heard>>
    BY <1>2 DEF Met
  <1>3. CASE Advance
    <2>1. /\ udp.pt \in TagSlot
          /\ heard'[udp.pt] = Append(heard[udp.pt],
               [time |-> udp.time, reader |-> udp.pr, amplitude |-> udp.strength])
          /\ t # udp.pt => heard'[t] = heard[t]
      BY <1>3, AdvanceEffect
    <2>2. CASE t # udp.pt
      BY <2>1, <2>2 DEF Met
    <2>3. CASE t = udp.pt
      <3>1. Len(heard[t]) \in Nat /\ heard[t] \in Seq(Sighting)
        BY <1>1
      <3>2. /\ DOMAIN heard'[t] = 1 .. Len(heard[t]) + 1 /\ DOMAIN heard[t] = 1 .. Len(heard[t])
            /\ \A k \in 1 .. Len(heard[t]) : heard'[t][k] = heard[t][k]
            /\ heard'[t][Len(heard[t]) + 1].reader = udp.pr
        BY <2>1, <2>3, <3>1
      <3>3. CASE \E k \in DOMAIN heard[t] : heard[t][k].reader = s
        BY <3>1, <3>2, <3>3 DEF Met
      <3>4. CASE udp.pr = s
        BY <3>1, <3>2, <3>4 DEF Met
      <3> QED
        BY <3>3, <3>4 DEF Met
    <2> QED
      BY <2>2, <2>3
  <1>4. CASE WriteTime \/ WriteReader \/ WriteAmplitude
    <2>1. /\ heard' = heard /\ udp'.pt = udp.pt /\ udp'.pr = udp.pr
          /\ udp.pc \in {"amplitude", "advance"} => udp'.pc \in {"amplitude", "advance"}
      BY <1>1, <1>4, FieldWrites DEF PacketLocals
    <2> QED
      BY <2>1 DEF Met
  <1>5. CASE udp.pc \notin {"amplitude", "advance"} /\ heard' = heard
    BY <1>5 DEF Met
  <1>6. CASE \E opened \in BOOLEAN : RejectPacket(opened)
    BY <1>2, <1>6 DEF RejectPacket
  <1> QED
    BY <1>2, <1>3, <1>4, <1>5, <1>6, OthersLeaveTables
       DEF Next, HandlePacket, Receive, KeepReader, AllocReader, FillReader, KeepTag, AllocTag,
         FillTag, HashTag, DropSighting, DereferenceNullTag, PassOnAndLog

-----------------------------------------------------------------------------
(* Steps of the reporting thread, and of the clock, leave the receiver's   *)
(* data alone; an entry the reporting thread takes names a reader that is  *)
(* entered and was met.                                                    *)
LEMMA NamedReader ==
  ASSUME IInv, NEW t \in TagSlot, NEW k \in RingSlot, taga[t].ring[k].reader # NULL
  PROVE  /\ taga[t].ring[k].reader \in ReaderSlot
         /\ taga[t].ring[k].reader < nNextUnusedReader
         /\ Met(t, taga[t].ring[k].reader)
  <1>1. taga[t].ring[k].reader \in ReaderSlot \cup {NULL}
    BY SMTT(30) DEF IInv, TypeOK, Tag, Sighting
  <1> QED
    BY <1>1 DEF IInv, ReaderKnown, ScanKnown

(* What an accepted entry does to the two arrays.                          *)
LEMMA TakeEffect ==
  ASSUME IInv, TakeSighting
  PROVE  /\ tcp.n \in TagSlot /\ tcp.slot \in RingSlot /\ tcp.m \in 0 .. SIGHTING_FIFO_SIZE - 1
         /\ tcp'.pc = "check" /\ tcp'.m = tcp.m + 1 /\ tcp'.n = tcp.n
         /\ tcp'.nLimit = tcp.nLimit /\ tcp'.ulTime = tcp.ulTime
         /\ taga[tcp.n].ring[tcp.slot] \in Sighting /\ taga[tcp.n].ring[tcp.slot].reader \in ReaderSlot
         /\ LET ps == taga[tcp.n].ring[tcp.slot]
            IN  \/ /\ tcp'.lowest = [tcp.lowest EXCEPT ![ps.reader] = ps.amplitude]
                   /\ tcp'.time = [tcp.time EXCEPT ![ps.reader] = ps.time]
                   /\ tcp.lowest[ps.reader] = Junk \/ ps.amplitude <= tcp.lowest[ps.reader]
                \/ /\ tcp'.lowest = tcp.lowest /\ tcp'.time = tcp.time
                   /\ tcp.lowest[ps.reader] = Junk \/ ~ ps.amplitude <= tcp.lowest[ps.reader]
  <1>1. tcp \in RequestLocals /\ taga \in [TagSlot -> Tag]
    BY SMTT(30) DEF IInv, TypeOK
  <1>2. tcp.pc = "take" /\ tcp.n < tcp.nLimit /\ tcp.m < SIGHTING_FIFO_SIZE
        /\ taga[tcp.n].ring[tcp.slot].reader # NULL
    BY DEF TakeSighting, IInv, ScanKnown, Scan
  <1>3. tcp.n \in TagSlot /\ tcp.slot \in RingSlot /\ tcp.m \in 0 .. SIGHTING_FIFO_SIZE - 1
    BY <1>1, <1>2 DEF RequestLocals, TagSlot
  <1> DEFINE ps    == taga[tcp.n].ring[tcp.slot]
             next  == [tcp EXCEPT !.pc = "check", !.m = @ + 1, !.slot = 0]
             taken == [next EXCEPT !.lowest[ps.reader] = ps.amplitude, !.time[ps.reader] = ps.time]
  <1>4. ps \in Sighting /\ ps.reader \in ReaderSlot
    BY <1>1, <1>2, <1>3 DEF Tag, Sighting
  <1>5. \/ /\ tcp' = taken
           /\ tcp.lowest[ps.reader] = Junk \/ ps.amplitude <= tcp.lowest[ps.reader]
        \/ /\ tcp' = next
           /\ tcp.lowest[ps.reader] = Junk \/ ~ ps.amplitude <= tcp.lowest[ps.reader]
    BY Zenon DEF TakeSighting
  <1>6. /\ next.pc = "check" /\ next.m = tcp.m + 1 /\ next.n = tcp.n
        /\ next.nLimit = tcp.nLimit /\ next.ulTime = tcp.ulTime
        /\ next.lowest = tcp.lowest /\ next.time = tcp.time
    BY <1>1 DEF RequestLocals
  <1>7. /\ taken.pc = "check" /\ taken.m = tcp.m + 1 /\ taken.n = tcp.n
        /\ taken.nLimit = tcp.nLimit /\ taken.ulTime = tcp.ulTime
        /\ taken.lowest = [tcp.lowest EXCEPT ![ps.reader] = ps.amplitude]
        /\ taken.time = [tcp.time EXCEPT ![ps.reader] = ps.time]
    BY <1>1 DEF RequestLocals
  <1> HIDE DEF next, taken
  <1> QED
    BY ZenonT(40), <1>3, <1>4, <1>5, <1>6, <1>7

LEMMA ScanStep ==
  ASSUME IInv, [Next]_vars
  PROVE  ScanKnown'
  <1>1. /\ tcp \in RequestLocals /\ nNextUnusedReader \in Nat /\ taga \in [TagSlot -> Tag]
    BY DEF IInv, TypeOK
  <1>2. ScanKnown
    BY DEF IInv
  <1>3. tcp.n \in TagSlot \/ tcp.pc \notin Scan
    BY <1>1, <1>2 DEF ScanKnown, RequestLocals, TagSlot
  <1>4. CASE ReceiverStep
    <2>1. tcp' = tcp
      BY <1>4, ReceiverKeeps
    <2>2. nNextUnusedReader' \in Nat /\ nNextUnusedReader' >= nNextUnusedReader
      BY <1>1, <1>4, ReceiverAddsReader
    <2>3. ASSUME NEW t \in TagSlot, NEW k \in RingSlot, NEW s \in ReaderSlot,
                 taga'[t].ring[k].reader = s
          PROVE  Met(t, s)'
      <3>1. CASE s = taga[t].ring[k].reader
        BY <1>2, <3>1, MetStep DEF ScanKnown
      <3>2. CASE s = udp'.pr /\ udp'.pt = t /\ udp'.pc = "amplitude"
        BY <3>2 DEF Met
      <3> QED
        BY <1>4, <2>3, <3>1, <3>2, ReceiverKeepsNamed
    <2>4. \A s \in ReaderSlot : s >= nNextUnusedReader' => tcp'.lowest[s] = Junk
      BY <1>1, <1>2, <2>1, <2>2 DEF ScanKnown, ReaderSlot
    <2>5. tcp'.pc \in Scan =>
            /\ tcp'.n < tcp'.nLimit
            /\ \A t \in TagSlot, s \in ReaderSlot :
                 t = tcp'.n /\ tcp'.lowest[s] \notin {NoHit, Junk} => Met(t, s)'
      BY <1>2, <2>1, MetStep DEF ScanKnown
    <2>6. ASSUME tcp'.pc \in Scan, ~ disturbed', NEW s \in ReaderSlot, s < nNextUnusedReader'
          PROVE  tcp'.lowest[s] # Junk
      <3>1. ~ disturbed
        BY <1>4, <2>6, ReceiverKeeps
      <3>2. nNextUnusedReader' = nNextUnusedReader
        BY <1>4, <2>1, <2>6, ReceiverAddsReader
      <3> QED
        BY <1>2, <2>1, <2>6, <3>1, <3>2 DEF ScanKnown
    <2>7. tcp'.pc = "take" =>
            tcp'.m < SIGHTING_FIFO_SIZE /\ taga'[tcp'.n].ring[tcp'.slot].reader # NULL
      BY <1>1, <1>2, <1>3, <1>4, <2>1, ReceiverKeepsNamed DEF ScanKnown, Scan, RequestLocals
    <2>8. /\ tcp'.pc = "report" => tcp'.m = SIGHTING_FIFO_SIZE
          /\ tcp'.pc = "crashed" => disturbed'
      BY <1>2, <1>4, <2>1, ReceiverKeeps DEF ScanKnown
    <2> QED
      BY <2>3, <2>4, <2>5, <2>6, <2>7, <2>8 DEF ScanKnown
  <1>5. ASSUME UNCHANGED <<readera, nNextUnusedReader, taga, udp, heard>>
        PROVE  /\ \A t \in TagSlot, s \in ReaderSlot : Met(t, s) => Met(t, s)'
               /\ \A t \in TagSlot, k \in RingSlot, s \in ReaderSlot :
                    taga'[t].ring[k].reader = s => Met(t, s)'
    BY <1>2, <1>5 DEF ScanKnown, Met
  <1>6. CASE UNCHANGED vars \/ Tick
    BY <1>2, <1>6 DEF vars, Tick, tables, ScanKnown, Met, Scan
  <1>7. CASE AnswerRequest \/ \E request : Accept(request)
    <2> DEFINE Quiet == UNCHANGED <<readera, nNextUnusedReader, taga, udp, heard>>
    <2>1. Quiet
      BY <1>7, OthersLeaveTables
    <2>2. ASSUME tcp'.pc \notin Scan, tcp'.pc = "crashed" => disturbed',
                 \A s \in ReaderSlot : s >= nNextUnusedReader => tcp'.lowest[s] = Junk
          PROVE  ScanKnown'
      BY <1>5, <2>1, <2>2 DEF ScanKnown, Scan
    <2>3. CASE \E request : Accept(request)
      BY <2>2, <2>3 DEF Accept, NoRequest, Scan
    <2>4. CASE CloseClient
      BY <2>2, <2>4 DEF CloseClient, NoRequest, Scan
    <2>5. CASE ReportTag
      <3>1. tcp'.lowest = tcp.lowest /\ tcp'.pc \in {"tag", "crashed"}
        BY <1>1, <2>5 DEF ReportTag, RequestLocals
      <3>2. tcp'.pc = "crashed" => disturbed'
        <4> SUFFICES ASSUME tcp'.pc = "crashed" PROVE disturbed'
          OBVIOUS
        <4>1. (\E s \in Reported : tcp.lowest[s] = Junk) /\ disturbed' = disturbed
          BY <1>1, <2>5 DEF ReportTag, RequestLocals
        <4>2. disturbed
          BY <1>2, <2>5, <4>1 DEF ScanKnown, Reported, ReportTag, Scan
        <4> QED
          BY <4>1, <4>2
      <3> QED
        BY <1>2, <2>2, <3>1, <3>2 DEF ScanKnown, Scan
    <2>6. ASSUME tcp'.pc \in Scan, tcp'.n = tcp.n, tcp'.n < tcp'.nLimit,
                 \A s \in ReaderSlot : s >= nNextUnusedReader => tcp'.lowest[s] = Junk,
                 \A t \in TagSlot, s \in ReaderSlot :
                   t = tcp.n /\ tcp'.lowest[s] \notin {NoHit, Junk} => Met(t, s),
                 ~ disturbed' => \A s \in ReaderSlot : s < nNextUnusedReader => tcp'.lowest[s] # Junk,
                 tcp'.pc = "take" =>
                   tcp'.m < SIGHTING_FIFO_SIZE /\ taga[tcp.n].ring[tcp'.slot].reader # NULL,
                 tcp'.pc = "report" => tcp'.m = SIGHTING_FIFO_SIZE
          PROVE  ScanKnown'
      <3>1. \A t \in TagSlot, s \in ReaderSlot :
              t = tcp'.n /\ tcp'.lowest[s] \notin {NoHit, Junk} => Met(t, s)'
        BY <1>5, <2>1, <2>6
      <3>2. tcp'.pc # "crashed"
        BY <2>6 DEF Scan
      <3> QED
        BY <1>5, <2>1, <2>6, <3>1, <3>2 DEF ScanKnown
    <2>7. CASE ClearLowest
      <3>1. /\ tcp'.pc = "check" /\ tcp'.n = tcp.n /\ tcp'.nLimit = tcp.nLimit
            /\ tcp'.lowest = [s \in ReaderSlot |->
                                IF s < nNextUnusedReader THEN NoHit ELSE tcp.lowest[s]]
        BY <1>1, <2>7 DEF ClearLowest, RequestLocals
      <3>2. \A s \in ReaderSlot : s >= nNextUnusedReader => tcp'.lowest[s] = Junk
        BY <1>1, <1>2, <3>1 DEF ScanKnown, ReaderSlot
      <3>3. \A s \in ReaderSlot : tcp'.lowest[s] \in {NoHit, Junk}
        BY <1>1, <1>2, <3>1 DEF ScanKnown, ReaderSlot
      <3>4. \A s \in ReaderSlot : s < nNextUnusedReader => tcp'.lowest[s] # Junk
        BY <3>1, StrengthFacts
      <3>5. tcp.n < tcp.nLimit
        BY <2>7 DEF ClearLowest
      <3> QED
        BY <2>6, <3>1, <3>2, <3>3, <3>4, <3>5 DEF Scan
    <2>8. CASE CheckSighting
      <3> DEFINE k == (taga[tcp.n].nValidFifo + tcp.m) % SIGHTING_FIFO_SIZE
      <3>1. \/ tcp' = [tcp EXCEPT !.pc = "take", !.slot = k] /\ taga[tcp.n].ring[k].reader # NULL
            \/ tcp' = [tcp EXCEPT !.m = @ + 1]
        BY Zenon, <2>8 DEF CheckSighting
      <3> HIDE DEF k
      <3>2. tcp.pc = "check" /\ tcp.m < SIGHTING_FIFO_SIZE /\ disturbed' = disturbed
        BY <2>8 DEF CheckSighting
      <3>3. /\ tcp'.pc \in {"check", "take"} /\ tcp'.n = tcp.n /\ tcp'.nLimit = tcp.nLimit
            /\ tcp'.lowest = tcp.lowest
            /\ tcp'.pc = "take" => tcp'.m = tcp.m /\ taga[tcp.n].ring[tcp'.slot].reader # NULL
        BY <1>1, <3>1, <3>2 DEF RequestLocals
      <3> QED
        BY SMTT(30), <1>2, <2>6, <3>2, <3>3 DEF ScanKnown, Scan
    <2>9. CASE TakeSighting
      <3>1. tcp.pc = "take" /\ disturbed' = disturbed
        BY <2>9 DEF TakeSighting
      <3>2. PICK r \in ReaderSlot, a \in Nat :
              /\ r < nNextUnusedReader /\ \A t \in TagSlot : t = tcp.n => Met(t, r)
              /\ tcp'.lowest = tcp.lowest \/ tcp'.lowest = [tcp.lowest EXCEPT ![r] = a]
        <4>1. taga[tcp.n].ring[tcp.slot].reader # NULL
          BY Zenon, <2>9, TakeEffect, SlotFacts
        <4> QED
          BY <2>9, <4>1, TakeEffect, NamedReader, ZenonT(40) DEF Sighting
      <3>3. \A s \in ReaderSlot : tcp'.lowest[s] = tcp.lowest[s] \/ (s = r /\ tcp'.lowest[s] = a)
        BY <1>1, <3>2 DEF RequestLocals
      <3>4. a # Junk /\ ~ r >= nNextUnusedReader
        BY <1>1, <3>2, StrengthFacts DEF ReaderSlot
      <3>5. tcp'.pc = "check" /\ tcp'.n = tcp.n /\ tcp'.nLimit = tcp.nLimit
        BY Zenon, <2>9, TakeEffect
      <3>6. tcp.n < tcp.nLimit
        BY <1>2, <3>1 DEF ScanKnown, Scan
      <3>7. \A s \in ReaderSlot : s >= nNextUnusedReader => tcp'.lowest[s] = Junk
        BY <1>2, <3>3, <3>4 DEF ScanKnown
      <3>8. \A t \in TagSlot, s \in ReaderSlot :
              t = tcp.n /\ tcp'.lowest[s] \notin {NoHit, Junk} => Met(t, s)
        BY <1>2, <3>1, <3>2, <3>3 DEF ScanKnown, Scan
      <3>9. ~ disturbed' => \A s \in ReaderSlot : s < nNextUnusedReader => tcp'.lowest[s] # Junk
        BY <1>2, <3>1, <3>3, <3>4 DEF ScanKnown, Scan
      <3> QED
        BY <2>6, <3>5, <3>6, <3>7, <3>8, <3>9 DEF Scan
    <2>10. CASE EndScan
      <3>1. /\ tcp'.pc = "report" /\ tcp'.n = tcp.n /\ tcp'.nLimit = tcp.nLimit
            /\ tcp'.lowest = tcp.lowest /\ tcp'.m = SIGHTING_FIFO_SIZE
            /\ tcp.pc = "check" /\ disturbed' = disturbed
        BY <1>1, <2>10 DEF EndScan, RequestLocals
      <3> QED
        BY <1>2, <2>6, <3>1 DEF ScanKnown, Scan
    <2> QED
      BY <1>7, <2>3, <2>4, <2>5, <2>7, <2>8, <2>9, <2>10 DEF AnswerRequest
  <1> QED
    BY <1>4, <1>6, <1>7 DEF Next, ReceiverStep

-----------------------------------------------------------------------------
(* The scan reads the ring in the order of the history.                    *)
LEMMA ScannedEntry ==
  ASSUME IInv, tcp.pc \in Scan, ~ disturbed, tcp.m \in 0 .. SIGHTING_FIFO_SIZE - 1,
         NEW j, j = Len(heard[tcp.n]) - SIGHTING_FIFO_SIZE + tcp.m + 1
  PROVE  /\ tcp.n \in TagSlot /\ j \in Int /\ j <= Len(heard[tcp.n])
         /\ taga[tcp.n].ring[(taga[tcp.n].nValidFifo + tcp.m) % SIGHTING_FIFO_SIZE]
              = IF j >= 1 THEN heard[tcp.n][j] ELSE NoSighting
  <1>1. tcp.n \in TagSlot
    BY SMTT(30) DEF IInv, TypeOK, RequestLocals, ScanKnown, TagSlot
  <1>2. taga[tcp.n].nValidFifo \in RingSlot /\ Len(heard[tcp.n]) \in Nat
    BY SMTT(30), <1>1 DEF IInv, TypeOK, Tag
  <1>3. SIGHTING_FIFO_SIZE - tcp.m \in 1 .. SIGHTING_FIFO_SIZE
    OBVIOUS
  <1>4. Holds(tcp.n, SIGHTING_FIFO_SIZE - tcp.m)
    BY <1>1, <1>3 DEF IInv, ScanAgrees, RingKnown, Holds
  <1>5. ASSUME NEW len \in Nat, len = Len(heard[tcp.n])
        PROVE  /\ len + 1 - (SIGHTING_FIFO_SIZE - tcp.m) = j
               /\ (SIGHTING_FIFO_SIZE - tcp.m <= len) = (j >= 1)
               /\ j \in Int /\ j <= len
    <2>1. j = len - SIGHTING_FIFO_SIZE + tcp.m + 1 /\ tcp.m \in Nat
      BY <1>5
    <2> QED
      BY <2>1
  <1> QED
    BY <1>1, <1>2, <1>4, <1>5, ForwardSlot DEF Holds

LEMMA SeenNext ==
  ASSUME heard[tcp.n] \in Seq(Sighting), tcp.m \in 0 .. SIGHTING_FIFO_SIZE - 1,
         NEW s \in ReaderSlot,
         NEW j, j = Len(heard[tcp.n]) - SIGHTING_FIFO_SIZE + tcp.m + 1
  PROVE  /\ SeenTo(s, tcp.m + 1) = IF j \in Visible(tcp.n, s) THEN SeenTo(s, tcp.m) \cup {j}
                                   ELSE SeenTo(s, tcp.m)
         /\ \A i \in SeenTo(s, tcp.m) : i \in DOMAIN heard[tcp.n] /\ i \in Int /\ i < j
  <1>1. Len(heard[tcp.n]) \in Nat /\ DOMAIN heard[tcp.n] = 1 .. Len(heard[tcp.n])
    OBVIOUS
  <1>2. \A i \in Visible(tcp.n, s) : i \in 1 .. Len(heard[tcp.n])
    BY <1>1 DEF Visible
  <1>3. \A i : i \in SeenTo(s, tcp.m + 1) <=> i \in SeenTo(s, tcp.m) \/ (i = j /\ j \in Visible(tcp.n, s))
    BY SMTT(30), <1>1, <1>2 DEF SeenTo
  <1>4. \A i \in SeenTo(s, tcp.m) : i \in DOMAIN heard[tcp.n] /\ i \in Int /\ i < j
    <2> SUFFICES ASSUME NEW i \in SeenTo(s, tcp.m)
                 PROVE  i \in DOMAIN heard[tcp.n] /\ i \in Int /\ i < j
      OBVIOUS
    <2>1. i \in Visible(tcp.n, s) /\ i <= Len(heard[tcp.n]) - SIGHTING_FIFO_SIZE + tcp.m
      BY DEF SeenTo
    <2>2. i \in 1 .. Len(heard[tcp.n])
      BY <1>2, <2>1
    <2>3. i < j
      BY <1>1, <2>1, <2>2
    <2> QED
      BY <1>1, <2>2, <2>3
  <1>5. CASE j \in Visible(tcp.n, s)
    <2>1. SeenTo(s, tcp.m + 1) = SeenTo(s, tcp.m) \cup {j}
      BY <1>3, <1>5
    <2> QED
      BY <1>4, <1>5, <2>1
  <1>6. CASE j \notin Visible(tcp.n, s)
    <2>1. SeenTo(s, tcp.m + 1) = SeenTo(s, tcp.m)
      BY <1>3, <1>6
    <2> QED
      BY <1>4, <1>6, <2>1
  <1> QED
    BY <1>5, <1>6

(* The scan of this tag goes on, and its history stays.                    *)
SameScan == tcp'.n = tcp.n /\ tcp'.ulTime = tcp.ulTime /\ heard'[tcp.n] = heard[tcp.n]

LEMMA SeenStep ==
  ASSUME SameScan, NEW s \in ReaderSlot, NEW m
  PROVE  SeenTo(s, m)' = SeenTo(s, m)
  BY DEF SameScan, SeenTo, Visible, Live

LEMMA ExactStep ==
  ASSUME SameScan, NEW s \in ReaderSlot, SeenTo(s, tcp'.m) = SeenTo(s, tcp.m),
         tcp'.lowest[s] = tcp.lowest[s], tcp'.time[s] = tcp.time[s], Exact(s)
  PROVE  Exact(s)'
  <1>1. PICK m : m = tcp'.m
    OBVIOUS
  <1>2. SeenTo(s, tcp.m)' = SeenTo(s, tcp.m)
    <2>1. SeenTo(s, m)' = SeenTo(s, m)
      BY SeenStep
    <2>2. SeenTo(s, tcp.m)' = SeenTo(s, m)'
      BY <1>1 DEF SeenTo
    <2> QED
      BY <1>1, <2>1, <2>2
  <1> QED
    BY <1>2 DEF Exact, SameScan

LEMMA ScanAgreesStep ==
  ASSUME IInv, [Next]_vars
  PROVE  ScanAgrees'
  <1>1. /\ tcp \in RequestLocals /\ nNextUnusedReader \in Nat /\ taga \in [TagSlot -> Tag]
        /\ heard \in [TagSlot -> Seq(Sighting)]
    BY DEF IInv, TypeOK
  <1>2. ScanAgrees
    BY DEF IInv
  <1>3. tcp.pc \in Scan => tcp.n \in TagSlot
    BY <1>1 DEF IInv, ScanKnown, RequestLocals, TagSlot
  <1>4. CASE ReceiverStep
    <2> SUFFICES ASSUME tcp.pc \in Scan, ~ disturbed'
                 PROVE  ScanAgrees'
      BY <1>4, ReceiverKeeps DEF ScanAgrees
    <2>1. ~ disturbed /\ tcp' = tcp
      BY <1>4, ReceiverKeeps
    <2>2. PICK n \in TagSlot : n = tcp.n
      BY <1>3
    <2>3. Scanning(n) /\ ~ MidWrite(n)
      BY <1>2, <2>1, <2>2 DEF Scanning, ScanAgrees, Scan
    <2>4. /\ ~ MidWrite(n)' /\ heard'[n] = heard[n] /\ taga'[n].ring = taga[n].ring
          /\ taga'[n].nValidFifo = taga[n].nValidFifo
      BY <1>4, <2>3, ReceiverDisturbs
    <2>5. nNextUnusedReader' = nNextUnusedReader
      BY <1>4, ReceiverAddsReader
    <2>6. \A s \in ReaderSlot : s < nNextUnusedReader => Exact(s)'
      BY <1>2, <2>1, <2>2, <2>4, ExactStep DEF SameScan, ScanAgrees
    <2>7. ~ MidWrite(tcp.n)'
      BY <2>1, <2>2, <2>4 DEF MidWrite
    <2>8. tcp'.pc = "take" =>
            /\ tcp'.slot = (taga'[tcp'.n].nValidFifo + tcp'.m) % SIGHTING_FIFO_SIZE
            /\ Live(taga[tcp.n].ring[tcp.slot].time)'
      BY SMTT(30), <1>2, <2>1, <2>2, <2>4 DEF ScanAgrees, Live
    <2> QED
      BY <2>5, <2>6, <2>7, <2>8 DEF ScanAgrees
  <1>5. CASE UNCHANGED <<nNextUnusedReader, taga, udp, tcp, heard, disturbed>>
    BY <1>2, <1>5 DEF ScanAgrees, Exact, SeenTo, Visible, Live, MidWrite
  <1>6. CASE tcp'.pc \notin Scan
    BY <1>6 DEF ScanAgrees
  <1>7. CASE CloseClient \/ ReportTag \/ \E request : Accept(request)
    <2>1. tcp'.pc \in {"accept", "tag", "crashed"}
      <3>1. CASE CloseClient
        BY <3>1 DEF CloseClient, NoRequest
      <3>2. CASE ReportTag
        <4>1. \/ tcp' = [tcp EXCEPT !.pc = "tag", !.n = @ + 1]
              \/ tcp' = [tcp EXCEPT !.pc = "crashed"]
          BY <3>2 DEF ReportTag
        <4> QED
          BY <1>1, <4>1 DEF RequestLocals
      <3>3. CASE \E request : Accept(request)
        BY <3>3 DEF Accept, NoRequest
      <3> QED
        BY <1>7, <3>1, <3>2, <3>3
    <2> QED
      BY <1>6, <2>1 DEF Scan
  <1>8. CASE ClearLowest
    <2>1. /\ tcp'.n = tcp.n /\ tcp'.pc = "check" /\ tcp'.m = 0
          /\ \A s \in ReaderSlot : s < nNextUnusedReader => tcp'.lowest[s] = NoHit
          /\ UNCHANGED <<nNextUnusedReader, taga, udp, heard>>
      BY <1>1, <1>8 DEF ClearLowest, RequestLocals, tables
    <2>2. tcp.n \in TagSlot
      BY SMTT(30), <1>1, <1>8 DEF ClearLowest, RequestLocals, TagSlot
    <2>3. ~ disturbed' => ~ MidWrite(tcp.n)'
      <3>1. ~ disturbed' => ~ (udp.pt = tcp.n /\ udp.pc \in {"who", "amplitude", "advance"})
        BY <1>8, Zenon DEF ClearLowest
      <3>2. udp.pc = "crashed" => udp.pt # tcp.n
        BY <2>2, SlotFacts DEF IInv, TagKnown
      <3> QED
        BY <2>1, <3>1, <3>2 DEF MidWrite
    <2>4. \A s \in ReaderSlot : s < nNextUnusedReader => Exact(s)'
      <3>1. \A s \in ReaderSlot : SeenTo(s, tcp.m)' = {}
        <4>1. Len(heard'[tcp'.n]) \in Nat /\ DOMAIN heard'[tcp'.n] = 1 .. Len(heard'[tcp'.n])
          BY <1>1, <2>1, <2>2
        <4> QED
          BY <2>1, <4>1 DEF SeenTo, Visible
      <3> QED
        BY <2>1, <3>1 DEF Exact
    <2> QED
      BY <2>1, <2>3, <2>4 DEF ScanAgrees
  <1>9. ASSUME tcp.pc \in Scan, ~ disturbed, SameScan,
               UNCHANGED <<nNextUnusedReader, taga, udp, heard>>,
               \A s \in ReaderSlot : s < nNextUnusedReader => Exact(s)',
               tcp'.pc = "take" =>
                 /\ tcp'.slot = (taga[tcp.n].nValidFifo + tcp'.m) % SIGHTING_FIFO_SIZE
                 /\ Live(taga[tcp.n].ring[tcp'.slot].time)
        PROVE  ScanAgrees'
    <2>1. ~ MidWrite(tcp.n)'
      BY <1>2, <1>9 DEF ScanAgrees, MidWrite, SameScan
    <2>2. tcp'.pc = "take" => Live(taga[tcp.n].ring[tcp.slot].time)'
      BY SMTT(30), <1>9 DEF Live, SameScan
    <2> QED
      BY <1>9, <2>1, <2>2 DEF ScanAgrees, SameScan
  <1>10. CASE CheckSighting
    <2> SUFFICES ASSUME ~ disturbed' PROVE ScanAgrees'
      BY SMTT(30) DEF ScanAgrees
    <2> DEFINE k == (taga[tcp.n].nValidFifo + tcp.m) % SIGHTING_FIFO_SIZE
    <2>1. /\ tcp.pc \in Scan /\ ~ disturbed /\ tcp.m \in 0 .. SIGHTING_FIFO_SIZE - 1
          /\ UNCHANGED <<nNextUnusedReader, taga, udp, heard>>
      BY <1>1, <1>10 DEF CheckSighting, Scan, tables, RequestLocals
    <2>2. CASE /\ Live(taga[tcp.n].ring[k].time)
               /\ tcp' = [tcp EXCEPT !.pc = "take", !.slot = k]
      <3>1. /\ SameScan /\ tcp'.m = tcp.m /\ tcp'.lowest = tcp.lowest /\ tcp'.time = tcp.time
            /\ tcp'.slot = k
        BY <1>1, <2>1, <2>2 DEF SameScan, RequestLocals
      <3>2. \A s \in ReaderSlot : s < nNextUnusedReader => Exact(s)'
        BY <1>2, <2>1, <3>1, ExactStep DEF ScanAgrees
      <3> QED
        BY SMTT(30), <1>9, <2>1, <2>2, <3>1, <3>2
    <2>3. CASE /\ ~ (Live(taga[tcp.n].ring[k].time) /\ taga[tcp.n].ring[k].reader # NULL)
               /\ tcp' = [tcp EXCEPT !.m = @ + 1]
      <3>1. /\ SameScan /\ tcp'.m = tcp.m + 1 /\ tcp'.lowest = tcp.lowest /\ tcp'.time = tcp.time
            /\ tcp'.pc = tcp.pc /\ tcp.pc = "check"
        BY Zenon, <1>1, <1>10, <2>1, <2>3 DEF SameScan, RequestLocals, CheckSighting
      <3>2. PICK j : j = Len(heard[tcp.n]) - SIGHTING_FIFO_SIZE + tcp.m + 1
        OBVIOUS
      <3>3. /\ tcp.n \in TagSlot /\ j \in Int
            /\ taga[tcp.n].ring[k] = IF j >= 1 THEN heard[tcp.n][j] ELSE NoSighting
        BY <2>1, <3>2, ScannedEntry
      <3>4. \A s \in ReaderSlot : j \notin Visible(tcp.n, s)
        BY <1>1, <2>3, <3>3, SlotFacts, SMTT(30) DEF Visible
      <3>5. \A s \in ReaderSlot : SeenTo(s, tcp'.m) = SeenTo(s, tcp.m)
        BY <1>1, <2>1, <3>1, <3>2, <3>3, <3>4, SeenNext
      <3>6. \A s \in ReaderSlot : s < nNextUnusedReader => Exact(s)'
        BY <1>2, <2>1, <3>1, <3>5, ExactStep DEF ScanAgrees
      <3> QED
        BY SMTT(30), <1>9, <2>1, <3>1, <3>6
    <2> QED
      BY Zenon, <1>10, <2>2, <2>3 DEF CheckSighting
  <1>11. CASE TakeSighting
    <2> SUFFICES ASSUME ~ disturbed' PROVE ScanAgrees'
      BY DEF ScanAgrees
    <2> DEFINE ps == taga[tcp.n].ring[tcp.slot]
    <2>1. /\ tcp.pc = "take" /\ ~ disturbed
          /\ UNCHANGED <<nNextUnusedReader, taga, udp, heard>>
      BY <1>11 DEF TakeSighting, tables
    <2>2. /\ tcp.n \in TagSlot /\ tcp.slot \in RingSlot /\ tcp.m \in 0 .. SIGHTING_FIFO_SIZE - 1
          /\ tcp'.pc = "check" /\ tcp'.m = tcp.m + 1 /\ SameScan
          /\ ps \in Sighting /\ ps.reader \in ReaderSlot
      BY Zenon, <1>11, <2>1, TakeEffect DEF SameScan
    <2>3. PICK j : j = Len(heard[tcp.n]) - SIGHTING_FIFO_SIZE + tcp.m + 1
      OBVIOUS
    <2>4. /\ j \in Int /\ j <= Len(heard[tcp.n])
          /\ ps = IF j >= 1 THEN heard[tcp.n][j] ELSE NoSighting
          /\ Live(ps.time)
      BY <1>2, <2>1, <2>2, <2>3, ScannedEntry DEF ScanAgrees, Scan
    <2>5. j \in DOMAIN heard[tcp.n] /\ ps = heard[tcp.n][j]
      BY <1>1, <2>2, <2>4, SlotFacts DEF NoSighting
    <2>6. \A s \in ReaderSlot : j \in Visible(tcp.n, s) <=> s = ps.reader
      <3>1. j > Len(heard[tcp.n]) - SIGHTING_FIFO_SIZE
        BY <1>1, <2>2, <2>3
      <3> QED
        BY <2>4, <2>5, <3>1 DEF Visible
    <2>7. ASSUME NEW s \in ReaderSlot
          PROVE  /\ SeenTo(s, tcp'.m) = IF s = ps.reader THEN SeenTo(s, tcp.m) \cup {j}
                                        ELSE SeenTo(s, tcp.m)
                 /\ \A i \in SeenTo(s, tcp.m) : i \in DOMAIN heard[tcp.n] /\ i \in Int /\ i < j
      BY <1>1, <2>2, <2>3, <2>6, SeenNext
    <2>8. ASSUME NEW s \in ReaderSlot, s < nNextUnusedReader, s # ps.reader
          PROVE  Exact(s)'
      <3>1. tcp'.lowest[s] = tcp.lowest[s] /\ tcp'.time[s] = tcp.time[s]
        BY <1>1, <1>11, <2>8, TakeEffect DEF RequestLocals
      <3> QED
        BY <1>2, <2>1, <2>2, <2>7, <2>8, <3>1, ExactStep DEF ScanAgrees, Scan
    <2>9. ASSUME NEW s \in ReaderSlot, s < nNextUnusedReader, s = ps.reader
          PROVE  Exact(s)'
      <3>1. Exact(s) /\ tcp.lowest[s] # Junk /\ tcp.lowest[s] \in Nat
        BY ZenonT(40), <1>1, <1>2, <2>1, <2>9 DEF ScanAgrees, Scan, IInv, ScanKnown, RequestLocals, Lowest
      <3>2. ps.amplitude \in Nat /\ ps.amplitude < NoHit
        BY <2>2, <2>5, StrengthFacts DEF Sighting, IInv, RingKnown
      <3>3. SeenTo(s, tcp.m)' = SeenTo(s, tcp.m) \cup {j}
        <4>1. PICK m : m = tcp'.m
          OBVIOUS
        <4>2. SeenTo(s, m)' = SeenTo(s, m)
          BY <2>2, SeenStep
        <4>3. SeenTo(s, tcp.m)' = SeenTo(s, m)'
          BY <4>1 DEF SeenTo
        <4> QED
          BY <2>7, <2>9, <4>1, <4>2, <4>3
      <3>4. \A i \in SeenTo(s, tcp.m) : heard[tcp.n][i].amplitude \in Nat /\ i \in Int /\ i < j
        <4>1. \A i \in DOMAIN heard[tcp.n] : heard[tcp.n][i] \in Sighting
          BY <1>1, <2>2
        <4>2. \A i \in SeenTo(s, tcp.m) : i \in DOMAIN heard[tcp.n] /\ i \in Int /\ i < j
          BY <2>7
        <4> QED
          BY <4>1, <4>2 DEF Sighting
      <3>5. heard'[tcp'.n] = heard[tcp.n]
        BY <2>1, <2>2 DEF SameScan
      <3>6. CASE /\ tcp'.lowest[s] = ps.amplitude /\ tcp'.time[s] = ps.time
                 /\ ps.amplitude <= tcp.lowest[s]
        <4>1. \A i \in SeenTo(s, tcp.m) \cup {j} :
                /\ heard[tcp.n][i].amplitude >= ps.amplitude
                /\ heard[tcp.n][i].amplitude = ps.amplitude => i <= j
          BY SMTT(30), <2>4, <2>5, <3>1, <3>2, <3>4, <3>6 DEF Exact
        <4> QED
          BY <2>5, <3>3, <3>5, <3>6, <4>1 DEF Exact
      <3>7. CASE /\ tcp'.lowest[s] = tcp.lowest[s] /\ tcp'.time[s] = tcp.time[s]
                 /\ ~ ps.amplitude <= tcp.lowest[s]
        <4>1. PICK i \in SeenTo(s, tcp.m) :
                /\ tcp.lowest[s] = heard[tcp.n][i].amplitude /\ tcp.time[s] = heard[tcp.n][i].time
                /\ \A l \in SeenTo(s, tcp.m) :
                     /\ heard[tcp.n][l].amplitude >= tcp.lowest[s]
                     /\ heard[tcp.n][l].amplitude = tcp.lowest[s] => l <= i
          BY <3>1, <3>2, <3>7, StrengthFacts DEF Exact
        <4>2. heard[tcp.n][j].amplitude > tcp.lowest[s]
          BY <2>5, <3>1, <3>2, <3>7
        <4>3. \A l \in SeenTo(s, tcp.m) \cup {j} :
                /\ heard[tcp.n][l].amplitude >= tcp.lowest[s]
                /\ heard[tcp.n][l].amplitude = tcp.lowest[s] => l <= i
          BY <2>5, <3>1, <3>2, <4>1, <4>2
        <4> QED
          BY <3>3, <3>5, <3>7, <4>1, <4>3 DEF Exact
      <3>8. s \in DOMAIN tcp.lowest /\ s \in DOMAIN tcp.time
        BY SMTT(30), <1>1 DEF RequestLocals
      <3>9. \/ /\ tcp'.lowest[s] = ps.amplitude /\ tcp'.time[s] = ps.time
               /\ ps.amplitude <= tcp.lowest[s]
            \/ /\ tcp'.lowest[s] = tcp.lowest[s] /\ tcp'.time[s] = tcp.time[s]
               /\ ~ ps.amplitude <= tcp.lowest[s]
        BY Zenon, <1>11, <2>9, <3>1, <3>8, TakeEffect
      <3> QED
        BY <3>6, <3>7, <3>9
    <2> QED
      BY <1>9, <2>1, <2>2, <2>8, <2>9 DEF Scan
  <1>12. CASE EndScan
    <2> SUFFICES ASSUME ~ disturbed' PROVE ScanAgrees'
      BY DEF ScanAgrees
    <2>1. /\ tcp.pc \in Scan /\ ~ disturbed /\ tcp'.pc = "report" /\ SameScan
          /\ tcp'.m = tcp.m /\ tcp'.lowest = tcp.lowest /\ tcp'.time = tcp.time
          /\ UNCHANGED <<nNextUnusedReader, taga, udp, heard>>
      BY <1>1, <1>12 DEF EndScan, Scan, SameScan, RequestLocals, tables
    <2>2. \A s \in ReaderSlot : s < nNextUnusedReader => Exact(s)'
      BY <1>2, <2>1, ExactStep DEF ScanAgrees
    <2> QED
      BY <1>9, <2>1, <2>2
  <1>13. CASE Tick \/ UNCHANGED vars
    BY <1>5, <1>13 DEF Tick, vars, tables
  <1> QED
    BY <1>4, <1>7, <1>8, <1>10, <1>11, <1>12, <1>13 DEF Next, AnswerRequest, ReceiverStep

-----------------------------------------------------------------------------
(* The tables are empty at the start, and no scan runs.                    *)
LEMMA KnownInit ==
  ASSUME Init
  PROVE  ReaderKnown /\ TagKnown /\ RingKnown /\ ScanKnown /\ ScanAgrees
  <1>1. /\ udp.pc = "recv" /\ udp.pt = NULL /\ tcp.pc = "accept"
        /\ \A s \in ReaderSlot : readera[s] = NULL
        /\ \A s \in ReaderSlot : tcp.lowest[s] = Junk
    BY DEF Init, NoPacket, NoRequest
  <1>2. /\ \A t \in TagSlot : /\ ~ taga[t].hashed /\ taga[t].nValidFifo = 0
                              /\ taga[t].ring = [k \in RingSlot |-> NoSighting]
        /\ \A t \in TagSlot : heard[t] = <<>>
    BY DEF Init
  <1>3. \A t \in TagSlot, k \in RingSlot : taga[t].ring[k].reader = NULL
    BY <1>2 DEF NoSighting
  <1>4. ReaderKnown
    BY <1>1, <1>3 DEF ReaderKnown, Writing
  <1>5. TagKnown
    BY <1>1, <1>2 DEF TagKnown, Writing
  <1>6. RingKnown
    <2>1. \A t \in TagSlot, k \in 1 .. SIGHTING_FIFO_SIZE : Holds(t, k)
      <3> SUFFICES ASSUME NEW t \in TagSlot, NEW k \in 1 .. SIGHTING_FIFO_SIZE
                   PROVE  Holds(t, k)
        OBVIOUS
      <3>1. taga[t].nValidFifo = 0 /\ heard[t] = <<>>
        BY <1>2
      <3>2. ~ k <= Len(heard[t])
        BY <3>1
      <3>3. taga[t].ring[(0 - k) % SIGHTING_FIFO_SIZE] = NoSighting
        BY <1>2, SlotFacts, BackSlot
      <3> QED
        BY <3>1, <3>2, <3>3 DEF Holds
    <2>2. \A t \in TagSlot : \A k \in DOMAIN heard[t] : heard[t][k].amplitude <= MAX_STRENGTH
      BY <1>2
    <2> QED
      BY <1>1, <1>2, <2>1, <2>2 DEF RingKnown, Holds, Writing
  <1>7. ScanKnown
    BY <1>1, <1>3, SlotFacts DEF ScanKnown, Scan
  <1>8. ScanAgrees
    BY <1>1 DEF ScanAgrees, Scan
  <1> QED
    BY <1>4, <1>5, <1>6, <1>7, <1>8

-----------------------------------------------------------------------------
(* The inductive invariant.                                                *)
THEOREM InvariantHolds == Spec => []IInv
  <1>1. Init => IInv
    BY TypeInit, KnownInit DEF IInv
  <1>2. IInv /\ [Next]_vars => IInv'
    BY TypeStep, ReaderStep, TagStep, RingStep, ScanStep, ScanAgreesStep DEF IInv
  <1>3. QED
    BY <1>1, <1>2, PTL DEF Spec

(* Every index either thread computes stays inside the two tables, the     *)
(* ring and the arrays on the reporting thread's stack (main.c:360-427,    *)
(* 596-650).                                                               *)
THEOREM TypeCorrect == Spec => []TypeOK
  <1>1. IInv => TypeOK
    BY DEF IInv
  <1>2. QED
    BY <1>1, InvariantHolds, PTL

(* However many packets arrive, nobody is entered twice, an entry that can *)
(* be found is complete and no sighting names an empty reader entry        *)
(* (main.c:596-650).                                                       *)
THEOREM TablesStayConsistent == Spec => []TablesConsistent
  <1>1. IInv => TablesConsistent
    BY DEF IInv, ReaderKnown, TagKnown, TablesConsistent
  <1>2. QED
    BY <1>1, InvariantHolds, PTL

(* The ring of a tag holds its latest sightings, newest first when walked  *)
(* back from m_nValidFifo, for every ring size (main.c:645-650).           *)
THEOREM RingKeepsLatest == Spec => []RingHoldsLatest
  <1>1. IInv => RingHoldsLatest
    BY DEF IInv, RingKnown, RingHoldsLatest
  <1>2. QED
    BY <1>1, InvariantHolds, PTL

(* A scan that the receiving thread left alone reports exactly the readers *)
(* with a live sighting, each with its smallest strength and the time of   *)
(* the latest one of that strength (main.c:396-423).                       *)
THEOREM ScanReportsExactly == Spec => []ScanIsExact
  <1>1. IInv => ScanIsExact
    <2> SUFFICES ASSUME IInv, tcp.pc = "report", ~ disturbed
                 PROVE  ScanIsExact
      BY DEF ScanIsExact
    <2>1. /\ tcp.n \in TagSlot /\ tcp.m = SIGHTING_FIFO_SIZE /\ ~ MidWrite(tcp.n)
          /\ \A s \in ReaderSlot : s < nNextUnusedReader => Exact(s)
          /\ heard[tcp.n] \in Seq(Sighting) /\ taga[tcp.n] \in Tag
      BY DEF IInv, TypeOK, RequestLocals, ScanKnown, ScanAgrees, Scan, TagSlot
    <2>2. Len(heard[tcp.n]) \in Nat /\ DOMAIN heard[tcp.n] = 1 .. Len(heard[tcp.n])
      BY <2>1
    <2>3. \A s \in ReaderSlot : SeenTo(s, tcp.m) = Visible(tcp.n, s)
      BY <2>1, <2>2 DEF SeenTo, Visible
    <2>4. \A k \in DOMAIN heard[tcp.n] :
            heard[tcp.n][k].amplitude \in Nat /\ heard[tcp.n][k].amplitude < NoHit
      <3>1. \A k \in DOMAIN heard[tcp.n] : heard[tcp.n][k] \in Sighting
        BY <2>1
      <3>2. \A k \in DOMAIN heard[tcp.n] : heard[tcp.n][k].amplitude <= MAX_STRENGTH
        BY <2>1 DEF IInv, RingKnown
      <3> QED
        BY <3>1, <3>2, StrengthFacts DEF Sighting
    <2>5. ASSUME NEW s \in ReaderSlot, NEW k \in Visible(tcp.n, s)
          PROVE  s < nNextUnusedReader
      <3>1. k \in 1 .. Len(heard[tcp.n]) /\ k > Len(heard[tcp.n]) - SIGHTING_FIFO_SIZE
            /\ heard[tcp.n][k].reader = s
        BY <2>2 DEF Visible
      <3>2. PICK back \in 1 .. SIGHTING_FIFO_SIZE :
              back = Len(heard[tcp.n]) + 1 - k /\ back <= Len(heard[tcp.n])
                /\ Len(heard[tcp.n]) + 1 - back = k
        BY SMTT(30), <2>2, <3>1
      <3>3. taga[tcp.n].ring[(taga[tcp.n].nValidFifo - back) % SIGHTING_FIFO_SIZE] = heard[tcp.n][k]
        BY <2>1, <3>2 DEF IInv, RingKnown
      <3>4. (taga[tcp.n].nValidFifo - back) % SIGHTING_FIFO_SIZE \in RingSlot
        BY <2>1, BackSlot DEF Tag
      <3> QED
        BY <2>1, <3>1, <3>3, <3>4, NamedReader, SlotFacts
    <2>6. Reported = {s \in ReaderSlot : Visible(tcp.n, s) # {}}
      <3>1. ASSUME NEW s \in ReaderSlot, s < nNextUnusedReader
            PROVE  tcp.lowest[s] # NoHit <=> Visible(tcp.n, s) # {}
        <4>1. Exact(s)
          BY <2>1, <3>1
        <4>2. CASE Visible(tcp.n, s) = {}
          BY <2>3, <4>1, <4>2 DEF Exact
        <4>3. CASE Visible(tcp.n, s) # {}
          <5>1. PICK k \in Visible(tcp.n, s) : tcp.lowest[s] = heard[tcp.n][k].amplitude
            BY <2>3, <4>1, <4>3 DEF Exact
          <5>2. k \in DOMAIN heard[tcp.n]
            BY DEF Visible
          <5>3. tcp.lowest[s] # NoHit
            BY <2>4, <5>1, <5>2, StrengthFacts
          <5> QED
            BY <4>3, <5>3
        <4> QED
          BY <4>2, <4>3
      <3> QED
        BY <2>5, <3>1 DEF Reported
    <2>7. ASSUME NEW s \in Reported
          PROVE  \E k \in Visible(tcp.n, s) :
                   /\ tcp.lowest[s] = heard[tcp.n][k].amplitude /\ tcp.time[s] = heard[tcp.n][k].time
                   /\ \A j \in Visible(tcp.n, s) :
                        /\ heard[tcp.n][j].amplitude >= tcp.lowest[s]
                        /\ heard[tcp.n][j].amplitude = tcp.lowest[s] => j <= k
      <3>1. s \in ReaderSlot /\ s < nNextUnusedReader /\ tcp.lowest[s] # NoHit
        BY DEF Reported
      <3> QED
        BY <2>1, <2>3, <3>1 DEF Exact
    <2> QED
      BY <2>6, <2>7 DEF ScanIsExact
  <1>2. QED
    BY <1>1, InvariantHolds, PTL

(* A scan, raced or not, reports no tag at a reader that never heard it,   *)
(* except from stack memory that was never set (main.c:396-427).           *)
THEOREM NobodyMisplaced == Spec => []NeverMisplaced
  <1>1. IInv => NeverMisplaced
    <2> SUFFICES ASSUME IInv, tcp.pc = "report", NEW s \in Reported, tcp.lowest[s] # Junk
                 PROVE  \/ \E k \in DOMAIN heard[tcp.n] : heard[tcp.n][k].reader = s
                        \/ udp.pt = tcp.n /\ udp.pr = s /\ udp.pc \in {"amplitude", "advance"}
      BY DEF NeverMisplaced
    <2>1. tcp.n \in TagSlot /\ s \in ReaderSlot /\ tcp.lowest[s] # NoHit
      BY DEF IInv, TypeOK, RequestLocals, ScanKnown, Scan, TagSlot, Reported
    <2>2. Met(tcp.n, s)
      BY <2>1 DEF IInv, ScanKnown, Scan
    <2> QED
      BY <2>2 DEF Met
  <1>2. QED
    BY <1>1, InvariantHolds, PTL

(* The process dies of a full tag table, of a log file that did not open,  *)
(* or of a reader entered while a report is made, and of nothing else      *)
(* (main.c:323, 396-427, 645).                                             *)
THEOREM CrashesHaveCauses == Spec => []CrashCauses
  <1>1. IInv => CrashCauses
    BY DEF IInv, TagKnown, ScanKnown, CrashCauses
  <1>2. QED
    BY <1>1, InvariantHolds, PTL
=============================================================================
