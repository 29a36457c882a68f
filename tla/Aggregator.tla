----------------------------- MODULE Aggregator -----------------------------
(***************************************************************************)
(* The station aggregator (host/services/aggregator/main.c): one thread    *)
(* receives beacons over UDP, enters readers and tags into two fixed       *)
(* tables and keeps the last sightings of each tag in a ring; a second     *)
(* thread, cloned with shared memory and no lock, answers TCP requests by  *)
(* scanning the same tables.  Every access to shared memory that the other *)
(* thread can observe is a step of its own.                                *)
(*                                                                         *)
(* Decryption, CRC and the packet layout are abstracted to "a valid beacon *)
(* of tag u arrives from address a with strength s"; packets that fail the *)
(* size or CRC test only reach the log rotation, like RejectPacket.        *)
(***************************************************************************)
EXTENDS Integers, Sequences, FiniteSets

CONSTANTS
  Address, TagId,        \* source addresses and tag ids on the air
  Strength,              \* beacon strengths, smaller is nearer
  MAX_READERS, MAX_TAGS, SIGHTING_FIFO_SIZE, MS_READER_HITS_LIVE,
  NULL,
  Junk,                  \* stack memory that was never written
  HourLength,            \* seconds of an hour
  MaxTime, MaxPackets    \* bounds: seconds on the clock, valid packets received

MAX_STRENGTH == 255

ASSUME AggregatorAssumption ==
  /\ MAX_READERS \in Nat \ {0} /\ MAX_TAGS \in Nat \ {0}
  /\ SIGHTING_FIFO_SIZE \in Nat \ {0} /\ MS_READER_HITS_LIVE \in Nat
  /\ Strength \subseteq 0 .. MAX_STRENGTH
  /\ NULL \notin Address \cup TagId \cup Nat /\ Junk \notin Int
  /\ HourLength \in Nat \ {0} /\ MaxTime \in Nat /\ MaxPackets \in Nat

ReaderSlot == 0 .. MAX_READERS - 1
TagSlot    == 0 .. MAX_TAGS - 1
RingSlot   == 0 .. SIGHTING_FIFO_SIZE - 1

NoHit == 2139062143       \* 0x7f7f7f7f, what memset(ucaReaderLowest, 0x7f, ...) leaves

VARIABLES
  now,                 \* time(NULL)
  readera, nNextUnusedReader,
  taga, nNextUnusedTag,
  logOpen, nHourLogCurrent,   \* pfileLog # NULL, and the hour it belongs to
  udp,                 \* the receiving thread: pc and locals
  tcp,                 \* the reporting thread: pc and locals
  heard,               \* history: all sightings stored per tag slot, oldest first
  disturbed,           \* history: shared data of the current scan changed under it
  packets              \* history: valid packets so far

vars == <<now, readera, nNextUnusedReader, taga, nNextUnusedTag, logOpen, nHourLogCurrent,
          udp, tcp, heard, disturbed, packets>>

log    == <<logOpen, nHourLogCurrent>>
tables == <<readera, nNextUnusedReader, taga, nNextUnusedTag>>

NoSighting == [time |-> 0, reader |-> NULL, amplitude |-> 0]
Sighting   == [time : Nat, reader : ReaderSlot \cup {NULL}, amplitude : Nat]
Tag        == [uid : TagId \cup {NULL}, hashed : BOOLEAN, nValidFifo : RingSlot,
               ring : [RingSlot -> Sighting]]
Lowest     == Nat \cup {Junk}

(* The locals of the two threads, with the place each of them is at.       *)
PacketLocals ==
  [pc : {"recv", "reader", "fillReader", "tag", "fillTag", "hashTag",
         "sighting", "who", "amplitude", "advance", "pass", "crashed"},
   address : Address \cup {NULL}, uid : TagId \cup {NULL},
   strength : Strength \cup {0}, time : Nat,
   pr : ReaderSlot \cup {NULL}, pt : TagSlot \cup {NULL}]

RequestLocals ==
  [pc : {"accept", "tag", "check", "take", "report", "crashed"},
   ulTime : Nat, n : 0 .. MAX_TAGS, nLimit : 0 .. MAX_TAGS, m : 0 .. SIGHTING_FIFO_SIZE,
   slot : RingSlot, lowest : [ReaderSlot -> Lowest], time : [ReaderSlot -> Nat]]

TypeOK ==
  /\ now \in 0 .. MaxTime /\ packets \in 0 .. MaxPackets
  /\ readera \in [ReaderSlot -> Address \cup {NULL}]
  /\ nNextUnusedReader \in 0 .. MAX_READERS
  /\ taga \in [TagSlot -> Tag]
  /\ nNextUnusedTag \in 0 .. MAX_TAGS
  /\ logOpen \in BOOLEAN /\ nHourLogCurrent \in Nat /\ disturbed \in BOOLEAN
  /\ udp \in PacketLocals /\ tcp \in RequestLocals
  /\ heard \in [TagSlot -> Seq(Sighting)]

Alive == udp.pc # "crashed" /\ tcp.pc # "crashed"

(* Walk of the hash chains: the entry that was chained in under this key. *)
ReaderFromAddress(a) ==
  IF \E s \in ReaderSlot : readera[s] = a
  THEN CHOOSE s \in ReaderSlot : readera[s] = a ELSE NULL

TagFromUID(u) ==
  IF \E t \in TagSlot : taga[t].hashed /\ taga[t].uid = u
  THEN CHOOSE t \in TagSlot : taga[t].hashed /\ taga[t].uid = u ELSE NULL

(* The locals of a thread between two packets, or two requests: dead in the *)
(* code, one value in the model.                                           *)
NoPacket == [pc |-> "recv", address |-> NULL, uid |-> NULL, strength |-> 0, time |-> 0,
             pr |-> NULL, pt |-> NULL]
NoRequest == [pc |-> "accept", ulTime |-> 0, n |-> 0, nLimit |-> 0, m |-> 0, slot |-> 0,
              lowest |-> [s \in ReaderSlot |-> Junk], time |-> [s \in ReaderSlot |-> 0]]

(* The tag whose fifo the reporting thread is looking at. *)
Scanning(t) == tcp.pc \in {"check", "take", "report"} /\ tcp.n = t

Init ==
  /\ now = 0 /\ packets = 0
  /\ readera = [s \in ReaderSlot |-> NULL] /\ nNextUnusedReader = 0
  /\ taga = [t \in TagSlot |-> [uid |-> NULL, hashed |-> FALSE, nValidFifo |-> 0,
                                ring |-> [k \in RingSlot |-> NoSighting]]]
  /\ nNextUnusedTag = 0
  /\ logOpen = TRUE /\ nHourLogCurrent = 0
  /\ udp = NoPacket /\ tcp = NoRequest
  /\ heard = [t \in TagSlot |-> <<>>]
  /\ disturbed = FALSE

Tick ==
  /\ Alive /\ now < MaxTime
  /\ now' = now + 1
  /\ UNCHANGED <<tables, log, udp, tcp, heard, disturbed, packets>>

-----------------------------------------------------------------------------
(* The receiving thread. *)

(* The first packet of an hour closes the log and opens a new one.         *)
(* nHourLogCurrent moves on before fopen(), so that a failure stays until  *)
(* the next hour.                                                          *)
RotateLog(opened) ==
  IF now \div HourLength # nHourLogCurrent
  THEN nHourLogCurrent' = now \div HourLength /\ logOpen' = opened
  ELSE UNCHANGED <<nHourLogCurrent, logOpen>>

(* recvfrom(), the log rotation, both lookups; time is read once.  *)
Receive(a, u, s, opened) ==
  /\ Alive /\ udp.pc = "recv" /\ packets < MaxPackets
  /\ udp' = [pc |-> "reader", address |-> a, uid |-> u, strength |-> s, time |-> now,
             pr |-> ReaderFromAddress(a), pt |-> TagFromUID(u)]
  /\ RotateLog(opened)
  /\ packets' = packets + 1
  /\ UNCHANGED <<now, tables, tcp, heard, disturbed>>

(* A packet of the wrong size or CRC: nothing but the log rotation. *)
RejectPacket(opened) ==
  /\ Alive /\ udp.pc = "recv"
  /\ RotateLog(opened)
  /\ UNCHANGED <<now, tables, udp, tcp, heard, disturbed, packets>>

(* The reader is known, or there is no room for it and it is ignored. *)
KeepReader ==
  /\ udp.pc = "reader"
  /\ udp.pr # NULL \/ nNextUnusedReader >= MAX_READERS
  /\ udp' = [udp EXCEPT !.pc = "tag"]
  /\ UNCHANGED <<now, tables, log, tcp, heard, disturbed, packets>>

(* Bug variant: a reader is entered with every packet while there is room. *)
AllocReaderAlways ==
  /\ udp.pc = "reader" /\ nNextUnusedReader < MAX_READERS
  /\ nNextUnusedReader' = nNextUnusedReader + 1
  /\ udp' = [udp EXCEPT !.pr = nNextUnusedReader, !.pc = "fillReader"]
  /\ disturbed' = (disturbed \/ tcp.pc \in {"check", "take", "report"})
  /\ UNCHANGED <<now, readera, taga, nNextUnusedTag, log, tcp, heard, packets>>

(* pr = &readera[nNextUnusedReader++]: the count moves first. *)
AllocReader ==
  /\ udp.pc = "reader" /\ udp.pr = NULL /\ nNextUnusedReader < MAX_READERS
  /\ nNextUnusedReader' = nNextUnusedReader + 1
  /\ udp' = [udp EXCEPT !.pr = nNextUnusedReader, !.pc = "fillReader"]
  /\ disturbed' = (disturbed \/ tcp.pc \in {"check", "take", "report"})
  /\ UNCHANGED <<now, readera, taga, nNextUnusedTag, log, tcp, heard, packets>>

FillReader ==
  /\ udp.pc = "fillReader"
  /\ readera' = [readera EXCEPT ![udp.pr] = udp.address]
  /\ udp' = [udp EXCEPT !.pc = "tag"]
  /\ UNCHANGED <<now, nNextUnusedReader, taga, nNextUnusedTag, log, tcp, heard,
                 disturbed, packets>>

(* Bug variant: the full table is noticed one entry too early. *)
KeepTagEarly ==
  /\ udp.pc = "tag"
  /\ udp.pt # NULL \/ nNextUnusedTag >= MAX_TAGS - 1
  /\ udp' = [udp EXCEPT !.pc = "sighting"]
  /\ UNCHANGED <<now, tables, log, tcp, heard, disturbed, packets>>

(* The tag is known, or the table is full: pt stays NULL then. *)
KeepTag ==
  /\ udp.pc = "tag"
  /\ udp.pt # NULL \/ nNextUnusedTag = MAX_TAGS
  /\ udp' = [udp EXCEPT !.pc = "sighting"]
  /\ UNCHANGED <<now, tables, log, tcp, heard, disturbed, packets>>

(* Bug variant: no check for a full table. *)
AllocTagUnchecked ==
  /\ udp.pc = "tag" /\ udp.pt = NULL
  /\ nNextUnusedTag' = nNextUnusedTag + 1
  /\ udp' = [udp EXCEPT !.pt = nNextUnusedTag, !.pc = "fillTag"]
  /\ UNCHANGED <<now, readera, nNextUnusedReader, taga, log, tcp, heard, disturbed,
                 packets>>

AllocTag ==
  /\ udp.pc = "tag" /\ udp.pt = NULL /\ nNextUnusedTag # MAX_TAGS
  /\ nNextUnusedTag' = nNextUnusedTag + 1
  /\ udp' = [udp EXCEPT !.pt = nNextUnusedTag, !.pc = "fillTag"]
  /\ UNCHANGED <<now, readera, nNextUnusedReader, taga, log, tcp, heard, disturbed,
                 packets>>

FillTag ==
  /\ udp.pc = "fillTag"
  /\ taga' = [taga EXCEPT ![udp.pt].uid = udp.uid, ![udp.pt].nValidFifo = 0]
  /\ udp' = [udp EXCEPT !.pc = "hashTag"]
  /\ UNCHANGED <<now, readera, nNextUnusedReader, nNextUnusedTag, log, tcp, heard,
                 disturbed, packets>>

HashTag ==
  /\ udp.pc = "hashTag"
  /\ taga' = [taga EXCEPT ![udp.pt].hashed = TRUE]
  /\ udp' = [udp EXCEPT !.pc = "sighting"]
  /\ UNCHANGED <<now, readera, nNextUnusedReader, nNextUnusedTag, log, tcp, heard,
                 disturbed, packets>>

(* No reader slot: the sighting is dropped ("null pr"). *)
DropSighting ==
  /\ udp.pc = "sighting" /\ udp.pr = NULL
  /\ udp' = NoPacket
  /\ UNCHANGED <<now, tables, log, tcp, heard, disturbed, packets>>

(* &pt->m_ringbufferSighting[...] of a NULL pt. *)
DereferenceNullTag ==
  /\ udp.pc = "sighting" /\ udp.pr # NULL /\ udp.pt = NULL
  /\ udp' = [udp EXCEPT !.pc = "crashed"]
  /\ UNCHANGED <<now, tables, log, tcp, heard, disturbed, packets>>

(* The three fields of the next ring entry, then the ring position. *)
WriteRing(from, to, entry) ==
  /\ udp.pc = from
  /\ taga' = [taga EXCEPT ![udp.pt].ring[taga[udp.pt].nValidFifo] = entry]
  /\ udp' = [udp EXCEPT !.pc = to]
  /\ disturbed' = (disturbed \/ Scanning(udp.pt))
  /\ UNCHANGED <<now, readera, nNextUnusedReader, nNextUnusedTag, log, tcp, heard,
                 packets>>

Entry == taga[udp.pt].ring[taga[udp.pt].nValidFifo]

WriteTime ==
  /\ udp.pr # NULL /\ udp.pt # NULL
  /\ WriteRing("sighting", "who", [Entry EXCEPT !.time = udp.time])

WriteReader == WriteRing("who", "amplitude", [Entry EXCEPT !.reader = udp.pr])

WriteAmplitude == WriteRing("amplitude", "advance", [Entry EXCEPT !.amplitude = udp.strength])

(* Bug variant: the mask loses its lowest bit. *)
AdvanceShortMask ==
  /\ udp.pc = "advance"
  /\ taga' = [taga EXCEPT ![udp.pt].nValidFifo = (@ + 1) % (SIGHTING_FIFO_SIZE - 1)]
  /\ udp' = [NoPacket EXCEPT !.pc = "pass"]
  /\ heard' = [heard EXCEPT ![udp.pt] = Append(@,
        [time |-> udp.time, reader |-> udp.pr, amplitude |-> udp.strength])]
  /\ disturbed' = (disturbed \/ Scanning(udp.pt))
  /\ UNCHANGED <<now, readera, nNextUnusedReader, nNextUnusedTag, log, tcp, packets>>

Advance ==
  /\ udp.pc = "advance"
  /\ taga' = [taga EXCEPT ![udp.pt].nValidFifo = (@ + 1) % SIGHTING_FIFO_SIZE]
  /\ udp' = [NoPacket EXCEPT !.pc = "pass"]
  /\ heard' = [heard EXCEPT ![udp.pt] = Append(@,
        [time |-> udp.time, reader |-> udp.pr, amplitude |-> udp.strength])]
  /\ disturbed' = (disturbed \/ Scanning(udp.pt))
  /\ UNCHANGED <<now, readera, nNextUnusedReader, nNextUnusedTag, log, tcp, packets>>

(* sendto() all clients, then LogBinary(): fwrite() to a NULL stream dies. *)
PassOnAndLog ==
  /\ udp.pc = "pass"
  /\ udp' = IF logOpen THEN NoPacket ELSE [udp EXCEPT !.pc = "crashed"]
  /\ UNCHANGED <<now, tables, log, tcp, heard, disturbed, packets>>

-----------------------------------------------------------------------------
(* The reporting thread. *)
AllTags == "all"

(* "GET /" lists every tag allocated by now, "GET /<uid>" just that one.   *)
(* The arrays on the stack start undefined.                                *)
Accept(request) ==
  /\ Alive /\ tcp.pc = "accept"
  /\ LET pTag == TagFromUID(request)
         from == IF request = AllTags \/ pTag = NULL THEN 0 ELSE pTag
         to   == IF request = AllTags THEN nNextUnusedTag
                 ELSE IF pTag = NULL THEN 0 ELSE pTag + 1
     IN tcp' = [NoRequest EXCEPT !.pc = "tag", !.ulTime = now, !.n = from, !.nLimit = to]
  /\ UNCHANGED <<now, tables, log, udp, heard, disturbed, packets>>

(* The next tag: memset() over the readers allocated by now. *)
ClearLowest ==
  /\ tcp.pc = "tag" /\ tcp.n < tcp.nLimit
  /\ tcp' = [tcp EXCEPT !.pc = "check", !.m = 0,
       !.lowest = [s \in ReaderSlot |-> IF s < nNextUnusedReader THEN NoHit ELSE @[s]]]
  /\ disturbed' = (udp.pt = tcp.n /\ udp.pc \in {"who", "amplitude", "advance"})
  /\ UNCHANGED <<now, tables, log, udp, heard, packets>>

(* Strictly older than the request and younger than the live window. *)
Live(time) == time < tcp.ulTime /\ time + MS_READER_HITS_LIVE > tcp.ulTime

(* The condition on one ring entry, oldest entry first ... *)
CheckSighting ==
  /\ tcp.pc = "check" /\ tcp.m < SIGHTING_FIFO_SIZE
  /\ LET k  == (taga[tcp.n].nValidFifo + tcp.m) % SIGHTING_FIFO_SIZE
         ps == taga[tcp.n].ring[k]
     IN tcp' = IF Live(ps.time) /\ ps.reader # NULL
               THEN [tcp EXCEPT !.pc = "take", !.slot = k]
               ELSE [tcp EXCEPT !.m = @ + 1]
  /\ UNCHANGED <<now, tables, log, udp, heard, disturbed, packets>>

(* Bug variants: the latest sighting counts, however weak it is, and the   *)
(* arrays are indexed by the ring position instead of the reader.          *)
TakeLastSighting ==
  /\ tcp.pc = "take"
  /\ LET ps == taga[tcp.n].ring[tcp.slot]
     IN tcp' = [tcp EXCEPT !.pc = "check", !.m = @ + 1, !.slot = 0,
                           !.lowest[ps.reader] = ps.amplitude, !.time[ps.reader] = ps.time]
  /\ UNCHANGED <<now, tables, log, udp, heard, disturbed, packets>>

TakeAtRingIndex ==
  /\ tcp.pc = "take"
  /\ LET ps == taga[tcp.n].ring[tcp.slot]
     IN tcp' = [tcp EXCEPT !.pc = "check", !.m = @ + 1, !.slot = 0,
                           !.lowest[tcp.m] = ps.amplitude, !.time[tcp.m] = ps.time]
  /\ UNCHANGED <<now, tables, log, udp, heard, disturbed, packets>>

(* ... and the use of what is in the entry by then.  Compared with junk    *)
(* the amplitude may or may not be the lowest.                             *)
TakeSighting ==
  /\ tcp.pc = "take"
  /\ LET ps    == taga[tcp.n].ring[tcp.slot]
         r     == ps.reader
         old   == tcp.lowest[r]
         next  == [tcp EXCEPT !.pc = "check", !.m = @ + 1, !.slot = 0]
         taken == [next EXCEPT !.lowest[r] = ps.amplitude, !.time[r] = ps.time]
     IN IF old = Junk THEN tcp' \in {taken, next}
        ELSE tcp' = IF ps.amplitude <= old THEN taken ELSE next
  /\ UNCHANGED <<now, tables, log, udp, heard, disturbed, packets>>

EndScan ==
  /\ tcp.pc = "check" /\ tcp.m = SIGHTING_FIFO_SIZE
  /\ tcp' = [tcp EXCEPT !.pc = "report"]
  /\ UNCHANGED <<now, tables, log, udp, heard, disturbed, packets>>

(* The readers the tag is reported at, among those allocated by now. *)
Reported == {s \in ReaderSlot : s < nNextUnusedReader /\ tcp.lowest[s] # NoHit}

(* Print the reported readers and go on to the next tag.  A strength that *)
(* is stack junk is also used as an index: that may end the process.       *)
ReportTag ==
  /\ tcp.pc = "report"
  /\ \/ tcp' = [tcp EXCEPT !.pc = "tag", !.n = @ + 1] /\ disturbed' = FALSE
     \/ /\ \E s \in Reported : tcp.lowest[s] = Junk
        /\ tcp' = [tcp EXCEPT !.pc = "crashed"] /\ UNCHANGED disturbed
  /\ UNCHANGED <<now, tables, log, udp, heard, packets>>

CloseClient ==
  /\ tcp.pc = "tag" /\ tcp.n >= tcp.nLimit
  /\ tcp' = NoRequest
  /\ UNCHANGED <<now, tables, log, udp, heard, disturbed, packets>>

-----------------------------------------------------------------------------
HandlePacket ==
  \/ KeepReader \/ AllocReader \/ FillReader
  \/ KeepTag \/ AllocTag \/ FillTag \/ HashTag
  \/ DropSighting \/ DereferenceNullTag
  \/ WriteTime \/ WriteReader \/ WriteAmplitude \/ Advance
  \/ PassOnAndLog

AnswerRequest ==
  \/ ClearLowest \/ CheckSighting \/ TakeSighting \/ EndScan
  \/ ReportTag \/ CloseClient

Next ==
  \/ Tick
  \/ \E a \in Address, u \in TagId, s \in Strength, opened \in BOOLEAN :
       Receive(a, u, s, opened)
  \/ \E opened \in BOOLEAN : RejectPacket(opened)
  \/ Alive /\ HandlePacket
  \/ \E request \in TagId \cup {AllTags} : Accept(request)
  \/ Alive /\ AnswerRequest

Spec == Init /\ [][Next]_vars

-----------------------------------------------------------------------------
(* The two tables stay usable without a lock: nobody is entered twice, an  *)
(* entry that can be found is complete, and no sighting names a reader     *)
(* whose entry is not filled in (main.c:614-639).                          *)
TablesConsistent ==
  /\ \A s \in ReaderSlot : readera[s] # NULL =>
       /\ s < nNextUnusedReader
       /\ \A x \in ReaderSlot \ {s} : readera[x] # readera[s]
  /\ \A t \in TagSlot : taga[t].hashed =>
       /\ t < nNextUnusedTag /\ taga[t].uid # NULL
       /\ \A x \in TagSlot \ {t} : taga[x].hashed => taga[x].uid # taga[t].uid
  /\ \A t \in TagSlot, k \in RingSlot :
       taga[t].ring[k].reader # NULL => readera[taga[t].ring[k].reader] # NULL

MidWrite(t) == udp.pt = t /\ udp.pc \in {"who", "amplitude", "advance", "crashed"}

(* The ring of a tag holds exactly its latest sightings, and walking back  *)
(* from m_nValidFifo meets them newest first (main.c:645-650).             *)
RingHoldsLatest ==
  \A t \in TagSlot : ~MidWrite(t) =>
    \A k \in 1 .. SIGHTING_FIFO_SIZE : k <= Len(heard[t]) =>
      taga[t].ring[(taga[t].nValidFifo - k) % SIGHTING_FIFO_SIZE]
        = heard[t][Len(heard[t]) + 1 - k]

(* The sightings of tag t a request made at ulTime should see at reader s, *)
(* as positions in the history.                                            *)
Visible(t, s) ==
  {k \in DOMAIN heard[t] : /\ k > Len(heard[t]) - SIGHTING_FIFO_SIZE
                           /\ heard[t][k].reader = s /\ Live(heard[t][k].time)}

(* What the report promises, against the history: a scan during which the  *)
(* other thread left this tag's ring and the reader count alone reports a  *)
(* reader exactly if it has a live sighting among the latest ones, with    *)
(* the smallest strength and the time of the latest one of that strength   *)
(* (main.c:412-423).                                                       *)
ScanIsExact ==
  tcp.pc = "report" /\ ~disturbed =>
    /\ Reported = {s \in ReaderSlot : Visible(tcp.n, s) # {}}
    /\ \A s \in Reported :
         \E k \in Visible(tcp.n, s) :
           /\ tcp.lowest[s] = heard[tcp.n][k].amplitude /\ tcp.time[s] = heard[tcp.n][k].time
           /\ \A j \in Visible(tcp.n, s) :
                /\ heard[tcp.n][j].amplitude >= tcp.lowest[s]
                /\ heard[tcp.n][j].amplitude = tcp.lowest[s] => j <= k

(* Even a scan that raced with the receiver puts no tag at a reader that   *)
(* never heard it, unless it read stack memory that was never set.         *)
NeverMisplaced ==
  tcp.pc = "report" =>
    \A s \in Reported : tcp.lowest[s] # Junk =>
      \/ \E k \in DOMAIN heard[tcp.n] : heard[tcp.n][k].reader = s
      \/ udp.pt = tcp.n /\ udp.pr = s /\ udp.pc \in {"amplitude", "advance"}

(* The only ways to die: a full tag table, a log that did not open, and a  *)
(* reader that was entered while the report was being made (main.c:396,    *)
(* 427, 645, 323).                                                         *)
CrashCauses ==
  /\ udp.pc = "crashed" => (udp.pt = NULL /\ nNextUnusedTag = MAX_TAGS) \/ ~logOpen
  /\ tcp.pc = "crashed" => disturbed

(* A full tag table is reported and survived, as the message at            *)
(* main.c:630 says ("More individual tags than I can handle").             *)
FullTagTableSurvived == udp.pc = "crashed" => ~logOpen
=============================================================================
