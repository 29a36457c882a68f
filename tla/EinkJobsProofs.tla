--------------------------- MODULE EinkJobsProofs ---------------------------
(***************************************************************************)
(* Proofs about the job queue of the e-ink display, for every number of    *)
(* slots, LUTs, tasks and updates.  As long as no slot changes hands in    *)
(* one of the two unprotected windows, a LUT draws one part at a time, a   *)
(* cancelled job is never drawn and none is lost.  The geometry comes      *)
(* first: what eink_job_conflicts() overlooks, for rectangles of any size, *)
(* is two areas that form a plus sign, and nothing else.                   *)
(***************************************************************************)
EXTENDS EinkJobs, TLAPS, FiniteSetTheorems, WellFoundedInduction

AllUpdates == {NoUpdate} \cup UNION {Update[t] : t \in Task}
Cookie     == {u.cookie : u \in AllUpdates}
Parts      == {ps \in Seq(Part) : Len(ps) < EINK_MAX_JOB_PART}

Job ==
  [state : {"FREE", "FILLING", "WAITING", "RUNNING"}, cookie : Cookie, number : Nat,
   parts : Parts, lut : [PartNo -> Lut], running : [PartNo -> BOOLEAN]]

Types ==
  /\ jobs \in [Slot -> Job] /\ job_number \in Nat
  /\ DOMAIN busy \subseteq Lut /\ busy \in [DOMAIN busy -> Part]
  /\ pc \in {"sleep", "cleanup", "find", "execute", "part", "init"}
  /\ cur \in Slot /\ index \in Nat \ {0}
  /\ app \in [Task -> [pc : {"idle", "found", "filling", "committing"}, slot : Slot,
                       update : AllUpdates, added : Nat]]
  /\ \A t \in Task : app[t].update \in Update[t] \cup {NoUpdate}
  /\ cancelled \subseteq Nat /\ chosen \in Nat

(* A task that fills a slot has it to itself.                              *)
Holds(t) == app[t].pc \in {"filling", "committing"}
Held ==
  /\ \A t \in Task : Holds(t) => /\ jobs[app[t].slot].state = "FILLING"
                                /\ jobs[app[t].slot].cookie = app[t].update.cookie
  /\ \A t, u \in Task : Holds(t) /\ Holds(u) /\ t # u => app[t].slot # app[u].slot

(* The numbers of the jobs that were committed and not yet drawn or        *)
(* cancelled are their own, and were never those of a cancelled job.       *)
Committing(s) == \E t \in Task : app[t].pc = "committing" /\ app[t].slot = s
Queued(s) == jobs[s].state \in {"WAITING", "RUNNING"} \/ Committing(s)
Numbered ==
  /\ \A s \in Slot : Queued(s) => jobs[s].number < job_number /\ jobs[s].number \notin cancelled
  /\ \A s, j \in Slot : Queued(s) /\ Queued(j) /\ s # j => jobs[s].number # jobs[j].number
  /\ \A n \in cancelled : n < job_number

(* The job that the display task has chosen still fits when it runs, ...   *)
ChosenFits ==
  pc = "execute" =>
    /\ chosen < job_number
    /\ \A s \in Slot : Committing(s) => jobs[s].number # chosen
    /\ jobs[cur].state = "WAITING" /\ jobs[cur].number = chosen
         => NumParts(cur) <= Cardinality(eink_find_free_luts)

(* ... and the LUTs of the parts that it has yet to start are its own.     *)
Ahead == {k \in PartNo : index <= k /\ k <= NumParts(cur)}
LutsReserved ==
  pc \in {"part", "init"} =>
    /\ jobs[cur].state = "RUNNING"
    /\ \A k \in Ahead : /\ ~ jobs[cur].running[k]
                        /\ \A r \in Running : LutOf(r) # jobs[cur].lut[k]
    /\ \A k, m \in Ahead : k # m => jobs[cur].lut[k] # jobs[cur].lut[m]

(* Running parts have LUTs of their own, and what a LUT draws is the part  *)
(* that the queue knows to run on it.                                      *)
LutsApart == \A r, q \in Running : r # q => LutOf(r) # LutOf(q)
BusyKnown == \A l \in DOMAIN busy : \E r \in Running : LutOf(r) = l /\ busy[l] = PartOf(r)

(* What the LUTs draw at one time overlaps only where it may.              *)
MayOverlap(p, q) == SharePixels(p, q) => BothSpecial(p, q) \/ Crossing(p, q)
PixelsApart == \A l, m \in DOMAIN busy : l # m => MayOverlap(busy[l], busy[m])

Undisturbed ==
  Held /\ Numbered /\ ChosenFits /\ LutsReserved /\ LutsApart /\ BusyKnown /\ PixelsApart
       /\ lost = FALSE

(* Where each cookie is used by one task only, a job that is about to join *)
(* the queue is the only one of its cookie.                                *)
CookieFree ==
  \A t \in Task : app[t].pc = "committing" /\ app[t].update.cookie # NoCookie =>
    \A s \in Slot : jobs[s].state = "WAITING" => jobs[s].cookie # app[t].update.cookie

IInv == Types /\ (raced = {} => Undisturbed)

-----------------------------------------------------------------------------
(* A rectangle holds a corner of another one if both the left or right     *)
(* edge of the other and its upper or lower one are within.                *)
LEMMA CornerInside ==
  ASSUME NEW p \in Part, NEW q \in Part,
         NEW x \in {q.x, q.x + q.w}, NEW y \in {q.y, q.y + q.h},
         p.x <= x, x <= p.x + p.w, p.y <= y, y <= p.y + p.h
  PROVE  HasCornerOf(p, q)
  BY DEF HasCornerOf, rectangle_contains

(* Two areas with a pixel in common, not both PART_SPECIAL, conflict       *)
(* unless one passes through the other from side to side: the only gap in  *)
(* eink_job_conflicts(), for every position and size.                      *)
THEOREM ConflictUnlessCrossing ==
  ASSUME NEW p \in Part, NEW q \in Part, p.area, q.area,
         SharePixels(p, q), ~ BothSpecial(p, q)
  PROVE  eink_job_conflicts(p, q) \/ Crossing(p, q)
<1>1. /\ p.x \in Nat /\ p.y \in Nat /\ p.w \in Nat /\ p.h \in Nat
      /\ q.x \in Nat /\ q.y \in Nat /\ q.w \in Nat /\ q.h \in Nat
  BY DEF Part
<1>2. /\ p.x < q.x + q.w /\ q.x < p.x + p.w
      /\ p.y < q.y + q.h /\ q.y < p.y + p.h
  BY DEF SharePixels
<1> DEFINE qx == \E x \in {q.x, q.x + q.w} : p.x <= x /\ x <= p.x + p.w
           qy == \E y \in {q.y, q.y + q.h} : p.y <= y /\ y <= p.y + p.h
           px == \E x \in {p.x, p.x + p.w} : q.x <= x /\ x <= q.x + q.w
           py == \E y \in {p.y, p.y + p.h} : q.y <= y /\ y <= q.y + q.h
<1>3. qx /\ qy => HasCornerOf(p, q)
  BY CornerInside
<1>4. px /\ py => HasCornerOf(q, p)
  BY CornerInside
<1>5. (qx /\ qy) \/ (px /\ py) \/ Spans(p, q) \/ Spans(q, p)
  <2>1. ~ qx => q.x < p.x /\ p.x + p.w < q.x + q.w /\ px
    BY <1>1, <1>2
  <2>2. ~ qy => q.y < p.y /\ p.y + p.h < q.y + q.h /\ py
    BY <1>1, <1>2
  <2>3. ~ px => p.x < q.x /\ q.x + q.w < p.x + p.w /\ qx
    BY <1>1, <1>2
  <2>4. ~ py => p.y < q.y /\ q.y + q.h < p.y + p.h /\ qy
    BY <1>1, <1>2
  <2> QED
    BY <2>1, <2>2, <2>3, <2>4 DEF Spans
<1> QED
  BY <1>3, <1>4, <1>5 DEF eink_job_conflicts, BothSpecial, Crossing

-----------------------------------------------------------------------------
(* A set of numbers that is not empty has a least one: of the initial      *)
(* segments that end in it, one contains no other.                         *)
LEMMA LeastNumber ==
  ASSUME NEW T, T \subseteq Nat, T # {}
  PROVE  \E x \in T : \A y \in T : x <= y
  <1> DEFINE Segment == {0 .. n : n \in T}
             Shorter == StrictSubsetOrdering(Nat)
  <1>1. Segment \subseteq FiniteSubsetsOf(Nat)
    <2> SUFFICES ASSUME NEW n \in T PROVE 0 .. n \in FiniteSubsetsOf(Nat)
      OBVIOUS
    <2>1. IsFiniteSet(0 .. n)
      BY FS_Interval
    <2> QED
      BY <2>1 DEF FiniteSubsetsOf
  <1>2. IsWellFoundedOn(Shorter, FiniteSubsetsOf(Nat))
    BY FS_StrictSubsetOrderingWellFounded
  <1>3. Segment # {}
    OBVIOUS
  <1>4. PICK s \in Segment : \A u \in Segment : ~ (<<u, s>> \in Shorter)
    <2> HIDE DEF Segment, Shorter
    <2> QED
      BY <1>1, <1>2, <1>3, WFMin
  <1>5. PICK x \in T : s = 0 .. x
    OBVIOUS
  <1>6. ASSUME NEW y \in T, y < x
        PROVE  FALSE
    <2>1. 0 .. y \subseteq 0 .. x /\ 0 .. y # 0 .. x
      BY <1>6
    <2>2. <<0 .. y, 0 .. x>> \in Shorter
      BY <2>1 DEF StrictSubsetOrdering
    <2> QED
      BY <2>2, <1>4, <1>5
  <1> QED
    BY <1>6

LEMMA MinInSet ==
  ASSUME NEW T, T \subseteq Nat, T # {}
  PROVE  Min(T) \in T
  BY LeastNumber DEF Min

(* The n-th lowest free LUT is one, and differs from the m-th.             *)
LEMMA NthLutExists ==
  ASSUME NEW free, free \subseteq Lut, NEW n \in 1 .. Cardinality(free)
  PROVE  /\ NthLut(free, n) \in free
         /\ Cardinality({m \in free : m <= NthLut(free, n)}) = n
  <1> DEFINE Upto(l) == {m \in free : m <= l}
             T       == {l \in Nat : n <= Cardinality(Upto(l))}
  <1>0. NumLuts \in Nat /\ \A m \in free : m \in Nat /\ m <= NumLuts /\ m # 0
    BY EinkJobsAssumption DEF Lut
  <1>1. IsFiniteSet(free) /\ Cardinality(free) \in Nat
    <2>1. IsFiniteSet(Lut)
      BY <1>0, FS_Interval DEF Lut
    <2> QED
      BY <2>1, FS_Subset, FS_CardinalityType
  <1>2. \A l \in Nat : IsFiniteSet(Upto(l)) /\ Cardinality(Upto(l)) \in Nat
    <2> TAKE l \in Nat
    <2>1. Upto(l) \in SUBSET free
      OBVIOUS
    <2> HIDE DEF Upto
    <2> QED
      BY <1>1, <2>1, FS_Subset, FS_CardinalityType
  <1>3. NumLuts \in T
    <2>1. Upto(NumLuts) = free
      BY <1>0
    <2>2. n <= Cardinality(free)
      BY <1>1
    <2> HIDE DEF Upto
    <2> QED
      BY <1>0, <2>1, <2>2
  <1>4. PICK x \in T : \A y \in T : x <= y
    <2>1. T \subseteq Nat
      OBVIOUS
    <2> HIDE DEF T
    <2> QED
      BY <1>3, <2>1, LeastNumber
  <1>5. x \in Nat /\ n <= Cardinality(Upto(x)) /\ \A y \in Nat : n <= Cardinality(Upto(y)) => x <= y
    BY <1>4
  <1> HIDE DEF T
  <1>6. x # 0
    <2>1. Upto(0) = {}
      BY <1>0
    <2>2. Cardinality(Upto(0)) = 0
      BY <2>1, FS_EmptySet
    <2> HIDE DEF Upto
    <2> QED
      BY <2>2, <1>1, <1>5
  <1>7. x - 1 \in Nat
    BY <1>5, <1>6
  <1>8. ~ (n <= Cardinality(Upto(x - 1)))
    <2> HIDE DEF Upto
    <2> QED
      BY <1>5, <1>7
  <1>9. x \in free
    <2> SUFFICES ASSUME x \notin free PROVE FALSE
      OBVIOUS
    <2>1. Upto(x) = Upto(x - 1)
      BY <1>0, <1>5, <1>7
    <2> QED
      BY <2>1, <1>5, <1>8
  <1>10. Upto(x) = Upto(x - 1) \cup {x} /\ x \notin Upto(x - 1)
    <2>1. ASSUME NEW m \in free
          PROVE  m <= x <=> m <= x - 1 \/ m = x
      BY <1>0, <1>5
    <2>2. ~ (x <= x - 1)
      BY <1>5
    <2> QED
      BY <2>1, <2>2, <1>9, Zenon
  <1>11. Cardinality(Upto(x)) = Cardinality(Upto(x - 1)) + 1
    <2> HIDE DEF Upto
    <2> QED
      BY <1>2, <1>7, <1>10, FS_AddElement
  <1>12. Cardinality(Upto(x)) = n
    <2>1. Cardinality(Upto(x - 1)) \in Nat
      BY <1>2, <1>7
    <2> HIDE DEF Upto
    <2> QED
      BY <1>1, <1>5, <1>8, <1>11, <2>1
  <1> QED
    BY <1>9, <1>12 DEF NthLut

LEMMA NthLutsDiffer ==
  ASSUME NEW free, free \subseteq Lut,
         NEW n \in 1 .. Cardinality(free), NEW k \in 1 .. Cardinality(free), n # k
  PROVE  NthLut(free, n) # NthLut(free, k)
  <1>1. Cardinality({m \in free : m <= NthLut(free, n)}) = n
    BY NthLutExists
  <1>2. Cardinality({m \in free : m <= NthLut(free, k)}) = k
    BY NthLutExists
  <1> QED
    BY <1>1, <1>2, Zenon

-----------------------------------------------------------------------------
(* The fields of a job and of a task.                                      *)
LEMMA JobFields ==
  ASSUME Types, NEW s \in Slot
  PROVE  /\ jobs[s] \in Job
         /\ jobs[s].state \in {"FREE", "FILLING", "WAITING", "RUNNING"}
         /\ jobs[s].cookie \in Cookie /\ jobs[s].number \in Nat
         /\ jobs[s].parts \in Seq(Part) /\ NumParts(s) \in Nat /\ NumParts(s) < EINK_MAX_JOB_PART
         /\ 1 .. NumParts(s) \subseteq PartNo
         /\ jobs[s].lut \in [PartNo -> Lut] /\ jobs[s].running \in [PartNo -> BOOLEAN]
  <1>1. jobs[s] \in Job
    BY DEF Types
  <1>2. /\ jobs[s].state \in {"FREE", "FILLING", "WAITING", "RUNNING"}
        /\ jobs[s].cookie \in Cookie /\ jobs[s].number \in Nat
        /\ jobs[s].parts \in Parts
        /\ jobs[s].lut \in [PartNo -> Lut] /\ jobs[s].running \in [PartNo -> BOOLEAN]
    BY <1>1 DEF Job
  <1>3. /\ jobs[s].parts \in Seq(Part) /\ NumParts(s) \in Nat
        /\ NumParts(s) < EINK_MAX_JOB_PART
    BY <1>2 DEF Parts, NumParts
  <1>4. 1 .. NumParts(s) \subseteq PartNo
    BY <1>3, EinkJobsAssumption DEF PartNo
  <1> QED
    BY <1>1, <1>2, <1>3, <1>4

LEMMA AppFields ==
  ASSUME Types, NEW t \in Task
  PROVE  /\ app[t].pc \in {"idle", "found", "filling", "committing"}
         /\ app[t].slot \in Slot /\ app[t].added \in Nat
         /\ app[t].update \in AllUpdates /\ app[t].update \in Update[t] \cup {NoUpdate}
         /\ app[t].update.cookie \in Cookie /\ app[t].update.parts \in Seq(Part)
  <1>1. /\ app[t].pc \in {"idle", "found", "filling", "committing"}
        /\ app[t].slot \in Slot /\ app[t].added \in Nat
        /\ app[t].update \in AllUpdates /\ app[t].update \in Update[t] \cup {NoUpdate}
    BY DEF Types
  <1>2. app[t].update.cookie \in Cookie
    BY <1>1 DEF Cookie
  <1>3. NoUpdate.parts \in Seq(Part)
    BY DEF NoUpdate
  <1>4. app[t].update.parts \in Seq(Part)
    BY <1>1, <1>3, EinkJobsAssumption
  <1> QED
    BY <1>1, <1>2, <1>4

(* What each operation does to the jobs.                                   *)
LEMMA TakeDoes ==
  ASSUME Types, NEW t \in Task, BeginTake(t), NEW s \in Slot, s = app[t].slot
  PROVE  /\ jobs' \in [Slot -> Job]
         /\ \A j \in Slot \ {s} : jobs'[j] = jobs[j]
         /\ jobs'[s].state = "FILLING" /\ jobs'[s].cookie = app[t].update.cookie
         /\ jobs'[s].number = jobs[s].number
  <1> DEFINE new == [jobs[s] EXCEPT !.state = "FILLING", !.parts = <<>>,
                                    !.cookie = app[t].update.cookie]
  <1>1. jobs' = [jobs EXCEPT ![s] = new]
    BY DEF BeginTake, Types
  <1>2. <<>> \in Parts
    BY EinkJobsAssumption DEF Parts
  <1>3. app[t].update.cookie \in Cookie
    BY AppFields
  <1>4. /\ new \in Job /\ new.state = "FILLING" /\ new.cookie = app[t].update.cookie
        /\ new.number = jobs[s].number
    BY <1>2, <1>3, JobFields DEF Job
  <1> HIDE DEF new
  <1> QED
    BY <1>1, <1>4 DEF Types

LEMMA AddDoes ==
  ASSUME Types, NEW t \in Task, AddPart(t), NEW s \in Slot, s = app[t].slot
  PROVE  /\ jobs' \in [Slot -> Job]
         /\ \A j \in Slot \ {s} : jobs'[j] = jobs[j]
         /\ jobs'[s].state = jobs[s].state /\ jobs'[s].cookie = jobs[s].cookie
         /\ jobs'[s].number = jobs[s].number
  <1> DEFINE p   == app[t].update.parts[app[t].added + 1]
             new == [jobs[s] EXCEPT !.parts = Append(jobs[s].parts, p)]
  <1>1. CASE jobs' = jobs
    BY <1>1 DEF Types
  <1>2. CASE jobs' # jobs
    <2>1. jobs' = [jobs EXCEPT ![s] = new] /\ ~ SlotFull(s)
      BY <1>2 DEF AddPart, Types
    <2>2. p \in Part
      BY AppFields DEF AddPart
    <2> HIDE DEF p
    <2>3. Append(jobs[s].parts, p) \in Parts
      <3>1. jobs[s].parts \in Seq(Part) /\ ~ (Len(jobs[s].parts) + 1 >= EINK_MAX_JOB_PART)
        BY <2>1, JobFields DEF SlotFull, NumParts
      <3>2. /\ Append(jobs[s].parts, p) \in Seq(Part)
            /\ Len(Append(jobs[s].parts, p)) = Len(jobs[s].parts) + 1 /\ Len(jobs[s].parts) \in Nat
        BY <3>1, <2>2
      <3> QED
        BY <3>1, <3>2, EinkJobsAssumption DEF Parts
    <2>4. /\ new \in Job /\ new.state = jobs[s].state /\ new.cookie = jobs[s].cookie
          /\ new.number = jobs[s].number
      BY <2>3, JobFields DEF Job
    <2> HIDE DEF new
    <2> QED
      BY SMTT(30), <2>1, <2>4 DEF Types
  <1> QED
    BY <1>1, <1>2

LEMMA CommitDoes ==
  ASSUME Types, NEW t \in Task, Commit(t), NEW s \in Slot, s = app[t].slot
  PROVE  /\ jobs' \in [Slot -> Job]
         /\ jobs[s].state = "FILLING" /\ jobs'[s].state = "FILLING"
         /\ jobs'[s].number = job_number
         /\ jobs'[s].cookie = jobs[s].cookie
         /\ \A j \in Slot \ {s} : j \notin Superseded(s) => jobs'[j] = jobs[j]
         /\ \A j \in Superseded(s) :
              /\ j # s /\ jobs[j].state = "WAITING" /\ jobs'[j].state = "FREE"
              /\ jobs'[j].number = jobs[j].number /\ jobs'[j].cookie = jobs[j].cookie
  <1>1. jobs[s].state = "FILLING" /\ jobs' = Committed(s)
    BY DEF Commit
  <1>2. ASSUME NEW j \in Slot
        PROVE  jobs'[j] = IF j = s THEN [jobs[j] EXCEPT !.number = job_number]
                          ELSE IF j \in Superseded(s) THEN [jobs[j] EXCEPT !.state = "FREE"]
                          ELSE jobs[j]
    BY <1>1 DEF Committed
  <1>3. \A j \in Slot : [jobs[j] EXCEPT !.number = job_number] \in Job
    <2>1. job_number \in Nat
      BY DEF Types
    <2> QED
      BY <2>1, JobFields, Zenon DEF Job
  <1>4. \A j \in Slot : [jobs[j] EXCEPT !.state = "FREE"] \in Job
    BY JobFields DEF Job
  <1>5. jobs' \in [Slot -> Job]
    <2>1. jobs' = [j \in Slot |-> jobs'[j]]
      BY <1>1 DEF Committed
    <2>2. \A j \in Slot : jobs'[j] \in Job
      <3> SUFFICES ASSUME NEW j \in Slot PROVE jobs'[j] \in Job
        OBVIOUS
      <3>1. CASE j = s
        BY <3>1, <1>2, <1>3, Zenon
      <3>2. CASE j # s /\ j \in Superseded(s)
        BY <3>2, <1>2, <1>4, Zenon
      <3>3. CASE j # s /\ j \notin Superseded(s)
        BY <3>3, <1>2, JobFields, Zenon
      <3> QED
        BY <3>1, <3>2, <3>3
    <2> QED
      BY <2>1, <2>2
  <1>6. /\ jobs'[s].state = "FILLING" /\ jobs'[s].number = job_number
        /\ jobs'[s].cookie = jobs[s].cookie
    BY ZenonT(40), <1>1, <1>2, JobFields DEF Job
  <1>7. Superseded(s) \subseteq Slot /\ \A j \in Superseded(s) : jobs[j].state = "WAITING"
    BY DEF Superseded
  <1>8. ASSUME NEW j \in Superseded(s)
        PROVE  /\ j # s /\ jobs'[j].state = "FREE"
               /\ jobs'[j].number = jobs[j].number /\ jobs'[j].cookie = jobs[j].cookie
    <2>1. j \in Slot /\ j # s
      BY <1>1, <1>7
    <2>2. jobs'[j] = [jobs[j] EXCEPT !.state = "FREE"]
      BY <1>2, <2>1
    <2> QED
      BY <2>1, <2>2, JobFields DEF Job
  <1>9. \A j \in Slot \ {s} : j \notin Superseded(s) => jobs'[j] = jobs[j]
    BY <1>2, Zenon
  <1> QED
    BY <1>1, <1>5, <1>6, <1>7, <1>8, <1>9, ZenonT(40)

LEMMA EndDoes ==
  ASSUME Types, NEW t \in Task, CommitEnd(t), NEW s \in Slot, s = app[t].slot
  PROVE  /\ jobs' \in [Slot -> Job]
         /\ \A j \in Slot \ {s} : jobs'[j] = jobs[j]
         /\ jobs'[s].state = "WAITING" /\ jobs'[s].cookie = jobs[s].cookie
         /\ jobs'[s].number = jobs[s].number /\ jobs'[s].parts = jobs[s].parts
  <1> DEFINE new == [jobs[s] EXCEPT !.state = "WAITING"]
  <1>1. jobs' = [jobs EXCEPT ![s] = new]
    BY DEF CommitEnd, Types
  <1>2. /\ new \in Job /\ new.state = "WAITING" /\ new.cookie = jobs[s].cookie
        /\ new.number = jobs[s].number /\ new.parts = jobs[s].parts
    BY JobFields DEF Job
  <1> HIDE DEF new
  <1> QED
    BY <1>1, <1>2 DEF Types

LEMMA CleanupDoes ==
  ASSUME Types, Cleanup
  PROVE  /\ jobs' \in [Slot -> Job]
         /\ \A j \in Slot : /\ jobs'[j].number = jobs[j].number /\ jobs'[j].cookie = jobs[j].cookie
                            /\ jobs'[j].parts = jobs[j].parts /\ jobs'[j].lut = jobs[j].lut
         /\ \A j \in Slot : jobs[j].state # "RUNNING" => jobs'[j] = jobs[j]
         /\ \A j \in Slot : jobs[j].state = "RUNNING" =>
              /\ jobs'[j].state \in {"RUNNING", "FREE"}
              /\ \A k \in 1 .. NumParts(j) :
                   /\ jobs'[j].running[k] <=> jobs[j].running[k] /\ LutOf(<<j, k>>) \in DOMAIN busy
                   /\ jobs'[j].running[k] => jobs'[j].state = "RUNNING"
  <1>1. jobs' = [j \in Slot |-> CleanedUp(j)]
    BY DEF Cleanup
  <1>2. ASSUME NEW j \in Slot, jobs[j].state # "RUNNING"
        PROVE  jobs'[j] = jobs[j]
    BY Zenon, <1>1, <1>2 DEF CleanedUp
  <1>3. ASSUME NEW j \in Slot, jobs[j].state = "RUNNING"
        PROVE  /\ jobs'[j] \in Job
               /\ jobs'[j].number = jobs[j].number /\ jobs'[j].cookie = jobs[j].cookie
               /\ jobs'[j].parts = jobs[j].parts /\ jobs'[j].lut = jobs[j].lut
               /\ jobs'[j].running = StillRunning(j)
               /\ jobs'[j].state \in {"RUNNING", "FREE"}
               /\ (\E k \in 1 .. NumParts(j) : StillRunning(j)[k]) => jobs'[j].state = "RUNNING"
    <2> DEFINE still == StillRunning(j)
               st    == IF \E k \in 1 .. NumParts(j) : still[k] THEN "RUNNING" ELSE "FREE"
    <2>1. jobs'[j] = [jobs[j] EXCEPT !.running = still, !.state = st]
      BY Zenon, <1>1, <1>3 DEF CleanedUp
    <2>2. still \in [PartNo -> BOOLEAN]
      <3>1. jobs[j].running \in [PartNo -> BOOLEAN]
        BY JobFields
      <3>2. ASSUME NEW k \in PartNo
            PROVE  (IF k <= NumParts(j) /\ jobs[j].running[k]
                    THEN jobs[j].lut[k] \in DOMAIN busy
                    ELSE jobs[j].running[k]) \in BOOLEAN
        <4>1. jobs[j].running[k] \in BOOLEAN
          BY <3>1
        <4>2. CASE k <= NumParts(j) /\ jobs[j].running[k]
          BY <4>2
        <4>3. CASE ~ (k <= NumParts(j) /\ jobs[j].running[k])
          BY <4>1, <4>3, Zenon
        <4> QED
          BY <4>2, <4>3
      <3> QED
        BY <3>2, Zenon DEF StillRunning
    <2>3. /\ st \in {"RUNNING", "FREE"}
          /\ (\E k \in 1 .. NumParts(j) : still[k]) => st = "RUNNING"
      OBVIOUS
    <2> HIDE DEF still, st
    <2>4. /\ jobs'[j] \in Job
          /\ jobs'[j].number = jobs[j].number /\ jobs'[j].cookie = jobs[j].cookie
          /\ jobs'[j].parts = jobs[j].parts /\ jobs'[j].lut = jobs[j].lut
          /\ jobs'[j].running = still /\ jobs'[j].state = st
      BY <2>1, <2>2, <2>3, JobFields DEF Job
    <2> QED
      BY <2>3, <2>4 DEF still
  <1>4. jobs' \in [Slot -> Job]
    <2>1. \A j \in Slot : jobs'[j] \in Job
      BY <1>2, <1>3, JobFields
    <2> QED
      BY <1>1, <2>1
  <1>5. ASSUME NEW j \in Slot, jobs[j].state = "RUNNING", NEW k \in 1 .. NumParts(j)
        PROVE  /\ jobs'[j].running[k] <=> jobs[j].running[k] /\ LutOf(<<j, k>>) \in DOMAIN busy
               /\ jobs'[j].running[k] => jobs'[j].state = "RUNNING"
    <2>1. k \in PartNo /\ k <= NumParts(j)
      BY <1>5, JobFields
    <2>2. LutOf(<<j, k>>) = jobs[j].lut[k]
      BY DEF LutOf
    <2>3. jobs'[j].running = StillRunning(j)
      BY <1>3, <1>5
    <2>4. StillRunning(j)[k] <=> jobs[j].running[k] /\ LutOf(<<j, k>>) \in DOMAIN busy
      BY <2>1, <2>2, Zenon DEF StillRunning
    <2> QED
      BY <2>3, <2>4, <1>3, <1>5
  <1> QED
    BY <1>2, <1>3, <1>4, <1>5

(* The LUTs that are free are some of the controller's.                    *)
LEMMA FreeLuts ==
  /\ eink_find_free_luts \subseteq Lut
  /\ Cardinality(eink_find_free_luts) \in Nat
  <1>1. eink_find_free_luts \subseteq Lut
    BY DEF eink_find_free_luts
  <1>2. IsFiniteSet(Lut)
    BY EinkJobsAssumption, FS_Interval DEF Lut
  <1> QED
    BY <1>1, <1>2, FS_Subset, FS_CardinalityType

LEMMA ExecuteDoes ==
  ASSUME Types, Execute
  PROVE  /\ jobs' \in [Slot -> Job]
         /\ \A j \in Slot \ {cur} : jobs'[j] = jobs[j]
         /\ jobs'[cur].state = "RUNNING" /\ jobs'[cur].number = jobs[cur].number
         /\ jobs'[cur].cookie = jobs[cur].cookie /\ jobs'[cur].parts = jobs[cur].parts
         /\ \A k \in 1 .. NumParts(cur) :
              /\ ~ jobs'[cur].running[k]
              /\ jobs'[cur].lut[k] = NthLut(eink_find_free_luts, k)
              /\ k \in 1 .. Cardinality(eink_find_free_luts)
  <1> DEFINE free == eink_find_free_luts
             n    == NumParts(cur)
             lut  == [k \in PartNo |-> IF k <= n THEN NthLut(free, k) ELSE jobs[cur].lut[k]]
             run  == [k \in PartNo |-> k > n /\ jobs[cur].running[k]]
             new  == [jobs[cur] EXCEPT !.state = "RUNNING", !.lut = lut, !.running = run]
  <1>1. cur \in Slot
    BY DEF Types
  <1>2. jobs' = [jobs EXCEPT ![cur] = new] /\ n <= Cardinality(free)
    BY Zenon, <1>1 DEF Execute, Types
  <1>3. /\ n \in Nat /\ 1 .. n \subseteq PartNo /\ Cardinality(free) \in Nat
        /\ jobs[cur].lut \in [PartNo -> Lut] /\ jobs[cur].running \in [PartNo -> BOOLEAN]
    BY <1>1, JobFields, FreeLuts
  <1> HIDE DEF n, free
  <1>4. \A k \in 1 .. n : k \in 1 .. Cardinality(free)
    BY <1>2, <1>3
  <1>5. \A k \in PartNo : k <= n => NthLut(free, k) \in Lut
    <2> SUFFICES ASSUME NEW k \in PartNo, k <= n PROVE NthLut(free, k) \in Lut
      OBVIOUS
    <2>1. k \in 1 .. Cardinality(free)
      BY <1>2, <1>3 DEF PartNo
    <2>2. free \subseteq Lut
      BY FreeLuts DEF free
    <2> QED
      BY <2>1, <2>2, NthLutExists
  <1>6. lut \in [PartNo -> Lut]
    BY <1>3, <1>5
  <1>7. run \in [PartNo -> BOOLEAN]
    BY Zenon
  <1>8. \A k \in 1 .. n : ~ run[k] /\ lut[k] = NthLut(free, k)
    <2>1. \A k \in 1 .. n : k \in PartNo /\ ~ (k > n) /\ k <= n
      BY <1>3
    <2> QED
      BY <2>1, Zenon
  <1> HIDE DEF lut, run
  <1>9. /\ new \in Job /\ new.state = "RUNNING" /\ new.number = jobs[cur].number
        /\ new.cookie = jobs[cur].cookie /\ new.parts = jobs[cur].parts
        /\ new.lut = lut /\ new.running = run
    BY <1>1, <1>6, <1>7, JobFields DEF Job
  <1> HIDE DEF new
  <1>10. jobs' \in [Slot -> Job] /\ jobs'[cur] = new /\ \A j \in Slot \ {cur} : jobs'[j] = jobs[j]
    BY <1>1, <1>2, <1>9 DEF Types
  <1> QED
    BY <1>4, <1>8, <1>9, <1>10 DEF n, free

LEMMA AbortDoes ==
  ASSUME Types, ExecuteAbort
  PROVE  /\ jobs' \in [Slot -> Job]
         /\ \A j \in Slot \ {cur} : jobs'[j] = jobs[j]
         /\ jobs'[cur].state = "FREE"
  <1> DEFINE free == eink_find_free_luts
             n    == Cardinality(free)
             lut  == [k \in PartNo |-> IF k <= n THEN NthLut(free, k) ELSE jobs[cur].lut[k]]
             run  == [k \in PartNo |-> k > n /\ jobs[cur].running[k]]
             new  == [jobs[cur] EXCEPT !.state = "FREE", !.lut = lut, !.running = run]
  <1>1. cur \in Slot
    BY DEF Types
  <1>2. jobs' = [jobs EXCEPT ![cur] = new]
    BY Zenon, <1>1 DEF ExecuteAbort, Types
  <1>3. n \in Nat /\ free \subseteq Lut /\ jobs[cur].lut \in [PartNo -> Lut]
    BY <1>1, JobFields, FreeLuts
  <1>4. \A k \in PartNo : k <= n => NthLut(free, k) \in Lut
    <2> SUFFICES ASSUME NEW k \in PartNo, k <= n PROVE NthLut(free, k) \in Lut
      OBVIOUS
    <2>1. k \in 1 .. Cardinality(free)
      BY <1>3 DEF PartNo
    <2> HIDE DEF free
    <2> QED
      BY <2>1, <1>3, NthLutExists
  <1>5. lut \in [PartNo -> Lut]
    <2> HIDE DEF free
    <2> QED
      BY <1>3, <1>4
  <1>6. run \in [PartNo -> BOOLEAN]
    BY Zenon
  <1> HIDE DEF lut, run
  <1>7. new \in Job /\ new.state = "FREE"
    BY <1>1, <1>5, <1>6, JobFields DEF Job
  <1> HIDE DEF new
  <1> QED
    BY <1>1, <1>2, <1>7 DEF Types

LEMMA HandleDoes ==
  ASSUME Types, HandlePart
  PROVE  /\ jobs' \in [Slot -> Job] /\ index \in 1 .. NumParts(cur)
         /\ \A j \in Slot \ {cur} : jobs'[j] = jobs[j]
         /\ jobs'[cur].state = jobs[cur].state /\ jobs'[cur].number = jobs[cur].number
         /\ jobs'[cur].cookie = jobs[cur].cookie /\ jobs'[cur].parts = jobs[cur].parts
         /\ jobs'[cur].lut = jobs[cur].lut
         /\ jobs'[cur].running[index]
         /\ \A k \in PartNo \ {index} : jobs'[cur].running[k] <=> jobs[cur].running[k]
  <1> DEFINE run == [jobs[cur].running EXCEPT ![index] = TRUE]
             new == [jobs[cur] EXCEPT !.running = run]
  <1>1. cur \in Slot /\ index \in Nat \ {0} /\ index <= NumParts(cur)
    BY DEF Types, HandlePart
  <1>2. jobs' = [jobs EXCEPT ![cur] = new]
    BY <1>1 DEF HandlePart, Types
  <1>3. index \in 1 .. NumParts(cur) /\ index \in PartNo
    BY <1>1, JobFields
  <1>4. /\ run \in [PartNo -> BOOLEAN] /\ run[index]
        /\ \A k \in PartNo \ {index} : run[k] = jobs[cur].running[k]
    <2>1. jobs[cur].running \in [PartNo -> BOOLEAN]
      BY <1>1, JobFields
    <2> QED
      BY <2>1, <1>3
  <1> HIDE DEF run
  <1>5. /\ new \in Job /\ new.state = jobs[cur].state /\ new.number = jobs[cur].number
        /\ new.cookie = jobs[cur].cookie /\ new.parts = jobs[cur].parts
        /\ new.lut = jobs[cur].lut /\ new.running = run
    BY SMTT(30), <1>1, <1>4, JobFields DEF Job
  <1> HIDE DEF new
  <1>6. jobs' \in [Slot -> Job] /\ jobs'[cur] = new /\ \A j \in Slot \ {cur} : jobs'[j] = jobs[j]
    BY <1>1, <1>2, <1>5 DEF Types
  <1> QED
    BY <1>3, <1>4, <1>5, <1>6

-----------------------------------------------------------------------------
AppState ==
  [pc : {"idle", "found", "filling", "committing"}, slot : Slot, update : AllUpdates, added : Nat]

(* What a step of a task does to the tasks.                                *)
LEMMA AppTypes ==
  ASSUME Types, NEW t \in Task, Application(t)
  PROVE  /\ app' \in [Task -> AppState]
         /\ \A u \in Task : app'[u].update \in Update[u] \cup {NoUpdate}
         /\ \A u \in Task \ {t} : app'[u] = app[u]
  <1>1. app \in [Task -> AppState] /\ \A u \in Task : app[u].update \in Update[u] \cup {NoUpdate}
    BY DEF Types, AppState
  <1>2. CASE BeginScan(t)
    <2>1. PICK u \in Update[t] :
            app' = [app EXCEPT ![t] = [pc |-> "found", slot |-> Min(FreeSlots),
                                       update |-> u, added |-> 0]]
      BY <1>2 DEF BeginScan
    <2>2. Min(FreeSlots) \in Slot
      <3>1. FreeSlots \subseteq Nat /\ FreeSlots # {} /\ FreeSlots \subseteq Slot
        BY <1>2 DEF BeginScan, FreeSlots, Slot
      <3> QED
        BY <3>1, MinInSet
    <2>3. u \in AllUpdates
      BY DEF AllUpdates
    <2>4. [pc |-> "found", slot |-> Min(FreeSlots), update |-> u, added |-> 0] \in AppState
      BY <2>2, <2>3 DEF AppState
    <2> QED
      BY <1>1, <2>1, <2>4
  <1>3. CASE BeginBusy(t)
    BY <1>1, <1>3 DEF BeginBusy
  <1>4. CASE Drawing(t)
    <2>1. \/ app' = [app EXCEPT ![t].pc = "filling"]
          \/ app' = [app EXCEPT ![t].added = @ + 1]
          \/ app' = [app EXCEPT ![t].pc = "committing"]
          \/ app' = [app EXCEPT ![t].pc = "idle"]
      BY Zenon, <1>4 DEF Drawing, BeginTake, AddPart, Commit, CommitInvalid, CommitEnd
    <2> QED
      BY SMTT(30), <1>1, <2>1 DEF AppState
  <1> QED
    BY <1>2, <1>3, <1>4 DEF Application

LEMMA TypesStep ==
  ASSUME Types, [Next]_vars
  PROVE  Types'
  <1>1. CASE \E t \in Task : Application(t)
    <2>1. PICK t \in Task : Application(t)
      BY <1>1
    <2> DEFINE s == app[t].slot
    <2>2. s \in Slot
      BY SMTT(30), AppFields
    <2>3. UNCHANGED <<busy, display>>
      BY Zenon, <2>1 DEF Application, Drawing, BeginScan, BeginBusy, BeginTake, AddPart, Commit,
                  CommitInvalid, CommitEnd
    <2>4. /\ app' \in [Task -> [pc : {"idle", "found", "filling", "committing"}, slot : Slot,
                                update : AllUpdates, added : Nat]]
          /\ \A u \in Task : app'[u].update \in Update[u] \cup {NoUpdate}
      BY <2>1, AppTypes DEF AppState
    <2>5. jobs' \in [Slot -> Job]
      <3> HIDE DEF s
      <3>1. s = app[t].slot
        BY DEF s
      <3>2. CASE BeginTake(t)
        BY <2>2, <3>1, <3>2, TakeDoes
      <3>3. CASE AddPart(t)
        BY <2>2, <3>1, <3>3, AddDoes
      <3>4. CASE Commit(t)
        BY <2>2, <3>1, <3>4, CommitDoes
      <3>5. CASE CommitEnd(t)
        BY <2>2, <3>1, <3>5, EndDoes
      <3>6. CASE BeginScan(t) \/ BeginBusy(t) \/ CommitInvalid(t)
        BY SMTT(30), <3>6 DEF BeginScan, BeginBusy, CommitInvalid, Types
      <3> QED
        BY <2>1, <3>2, <3>3, <3>4, <3>5, <3>6 DEF Application, Drawing
    <2>6. job_number' \in Nat /\ chosen' \in Nat
      BY <2>1 DEF Application, Drawing, BeginScan, BeginBusy, BeginTake, AddPart, Commit,
                  CommitInvalid, CommitEnd, history, Types
    <2>7. cancelled' \subseteq Nat
      <3>1. CASE Commit(t)
        <4>1. \A j \in Superseded(s) : jobs[j].number \in Nat
          BY SMTT(30), JobFields DEF Superseded
        <4> QED
          BY SMTT(30), <3>1, <4>1 DEF Commit, Types
      <3>2. CASE ~ Commit(t)
        BY <2>1, <3>2 DEF Application, Drawing, BeginScan, BeginBusy, BeginTake, AddPart,
                          CommitInvalid, CommitEnd, history, Types
      <3> QED
        BY <3>1, <3>2
    <2> QED
      BY <2>3, <2>4, <2>5, <2>6, <2>7 DEF Types, display
  <1>2. CASE MainTask
    <2>1. UNCHANGED app /\ UNCHANGED <<job_number, cancelled>>
      BY Zenon, <1>2 DEF MainTask, Cleanup, Find, FindNone, Execute, ExecuteAbort, HandlePart, InitDone,
                  PartsDone, history
    <2>2. jobs' \in [Slot -> Job]
      <3>1. CASE Cleanup
        BY <3>1, CleanupDoes
      <3>2. CASE Execute
        BY <3>2, ExecuteDoes
      <3>3. CASE ExecuteAbort
        BY <3>3, AbortDoes
      <3>4. CASE HandlePart
        BY <3>4, HandleDoes
      <3>5. CASE Find \/ FindNone \/ InitDone \/ PartsDone
        BY <3>5 DEF Find, FindNone, InitDone, PartsDone, Types
      <3> QED
        BY <1>2, <3>1, <3>2, <3>3, <3>4, <3>5 DEF MainTask
    <2>3. DOMAIN busy' \subseteq Lut /\ busy' \in [DOMAIN busy' -> Part]
      <3>1. CASE HandlePart
        <4> DEFINE p == jobs[cur].parts[index]
                   l == jobs[cur].lut[index]
        <4>1. p \in Part /\ l \in Lut
          <5>1. cur \in Slot /\ index \in 1 .. NumParts(cur)
            BY <3>1, HandleDoes DEF Types
          <5> QED
            BY <5>1, JobFields DEF NumParts
        <4>2. \/ UNCHANGED busy
              \/ busy' = [m \in DOMAIN busy \cup {l} |-> IF m = l THEN p ELSE busy[m]]
          BY SMTT(30), <3>1 DEF HandlePart
        <4> HIDE DEF p, l
        <4> QED
          BY <4>1, <4>2 DEF Types
      <3>2. CASE ~ HandlePart
        BY Zenon, <1>2, <3>2 DEF MainTask, Cleanup, Find, FindNone, Execute, ExecuteAbort, InitDone,
                          PartsDone, Types
      <3> QED
        BY <3>1, <3>2
    <2>4. /\ pc' \in {"sleep", "cleanup", "find", "execute", "part", "init"}
          /\ cur' \in Slot /\ index' \in Nat \ {0} /\ chosen' \in Nat
      <3>1. CASE Find
        <4>1. PICK s \in Slot : cur' = s /\ chosen' = jobs[s].number
          BY <3>1 DEF Find
        <4> QED
          BY <3>1, <4>1, JobFields DEF Find, Types
      <3>2. CASE HandlePart
        BY <3>2 DEF HandlePart, Types, history
      <3>3. CASE Execute
        <4>1. pc' = "part" /\ index' = 1 /\ chosen' = 0 /\ cur' = cur
          BY <3>3, Zenon DEF Execute
        <4> QED
          BY <4>1 DEF Types
      <3>4. CASE ExecuteAbort
        BY Zenon, <3>4 DEF ExecuteAbort, Types
      <3>5. CASE Cleanup \/ FindNone \/ InitDone \/ PartsDone
        BY <3>5 DEF Cleanup, FindNone, InitDone, PartsDone, Types, history
      <3> QED
        BY <1>2, <3>1, <3>2, <3>3, <3>4, <3>5 DEF MainTask
    <2> QED
      BY SMTT(30), <2>1, <2>2, <2>3, <2>4 DEF Types
  <1>3. CASE \E l \in Lut : LutFinishes(l)
    <2>1. PICK l \in Lut : LutFinishes(l)
      BY <1>3
    <2>2. DOMAIN busy' \subseteq Lut /\ busy' \in [DOMAIN busy' -> Part]
      BY <2>1 DEF LutFinishes, Types
    <2> QED
      BY <2>1, <2>2 DEF LutFinishes, Types, display, history
  <1>4. CASE UNCHANGED vars
    BY <1>4 DEF vars, display, history, Types
  <1> QED
    BY <1>1, <1>2, <1>3, <1>4 DEF Next

-----------------------------------------------------------------------------
(* As long as no slot changes hands, the tasks leave the running jobs      *)
(* alone.                                                                  *)
LEMMA RunningKept ==
  ASSUME Types, Types',
         \A j \in Slot : jobs[j].state = "RUNNING" \/ jobs'[j].state = "RUNNING"
                           => jobs'[j] = jobs[j]
  PROVE  /\ Running' = Running
         /\ \A r \in Running : LutOf(r)' = LutOf(r) /\ PartOf(r)' = PartOf(r)
         /\ eink_find_free_luts' = eink_find_free_luts
  <1>1. \A r \in Slot \X PartNo : r[1] \in Slot
    OBVIOUS
  <1>2. ASSUME NEW r \in Slot \X PartNo
        PROVE  (/\ jobs'[r[1]].state = "RUNNING" /\ r[2] <= Len(jobs'[r[1]].parts)
                /\ jobs'[r[1]].running[r[2]])
               <=> (/\ jobs[r[1]].state = "RUNNING" /\ r[2] <= Len(jobs[r[1]].parts)
                    /\ jobs[r[1]].running[r[2]])
    BY <1>1, Zenon
  <1>3. Running' = Running
    BY <1>2, Zenon DEF Running, NumParts
  <1>4. \A r \in Running : LutOf(r)' = LutOf(r) /\ PartOf(r)' = PartOf(r)
    BY DEF Running, LutOf, PartOf
  <1>5. {LutOf(r) : r \in Running}' = {LutOf(r) : r \in Running}
    BY <1>3, <1>4
  <1> QED
    BY <1>3, <1>4, <1>5 DEF eink_find_free_luts

LEMMA TasksKeepRunning ==
  ASSUME Types, Types', Held, NEW t \in Task, Application(t), raced' = {}
  PROVE  /\ \A j \in Slot : jobs[j].state = "RUNNING" \/ jobs'[j].state = "RUNNING"
                              => jobs'[j] = jobs[j]
         /\ UNCHANGED <<busy, display, lost, chosen>>
  <1>0. PICK s \in Slot : s = app[t].slot
    BY SMTT(30), AppFields
  <1>1. CASE BeginTake(t)
    <2>1. jobs[s].state = "FREE"
      BY SMTT(30), <1>0, <1>1 DEF BeginTake
    <2>2. \A j \in Slot \ {s} : jobs'[j] = jobs[j]
      BY <1>0, <1>1, TakeDoes
    <2>3. jobs'[s].state = "FILLING"
      BY <1>0, <1>1, TakeDoes
    <2> QED
      BY <1>1, <2>1, <2>2, <2>3 DEF BeginTake
  <1>2. CASE AddPart(t)
    <2>1. jobs[s].state = "FILLING"
      BY <1>0, <1>2 DEF AddPart, Held, Holds
    <2>2. \A j \in Slot \ {s} : jobs'[j] = jobs[j]
      BY <1>0, <1>2, AddDoes
    <2>3. jobs'[s].state = jobs[s].state
      BY <1>0, <1>2, AddDoes
    <2> QED
      BY <1>2, <2>1, <2>2, <2>3 DEF AddPart, history
  <1>3. CASE Commit(t)
    <2>1. jobs[s].state = "FILLING" /\ jobs'[s].state = "FILLING"
      BY <1>0, <1>3, CommitDoes
    <2>2. \A j \in Slot \ {s} : j \notin Superseded(s) => jobs'[j] = jobs[j]
      BY <1>0, <1>3, CommitDoes
    <2>3. \A j \in Superseded(s) : jobs[j].state = "WAITING" /\ jobs'[j].state = "FREE"
      BY <1>0, <1>3, CommitDoes
    <2> QED
      BY <1>3, <2>1, <2>2, <2>3 DEF Commit
  <1>4. CASE CommitEnd(t)
    <2>1. jobs[s].state = "FILLING"
      BY <1>0, <1>4 DEF CommitEnd, Held, Holds
    <2>2. \A j \in Slot \ {s} : jobs'[j] = jobs[j]
      BY <1>0, <1>4, EndDoes
    <2>3. jobs'[s].state = "WAITING"
      BY <1>0, <1>4, EndDoes
    <2> QED
      BY <1>4, <2>1, <2>2, <2>3 DEF CommitEnd, history
  <1>5. CASE CommitInvalid(t)
    BY <1>5 DEF CommitInvalid, Held, Holds
  <1>6. CASE BeginScan(t) \/ BeginBusy(t)
    BY <1>6 DEF BeginScan, BeginBusy
  <1> QED
    BY <1>1, <1>2, <1>3, <1>4, <1>5, <1>6 DEF Application, Drawing

(* The part of the invariant that is about the display task and the LUTs   *)
(* survives every step of a task.                                          *)
LEMMA TasksKeepLuts ==
  ASSUME Types, Types', Held, NEW t \in Task, Application(t), raced' = {},
         LutsReserved, LutsApart, BusyKnown, PixelsApart, lost = FALSE
  PROVE  LutsReserved' /\ LutsApart' /\ BusyKnown' /\ PixelsApart' /\ lost' = FALSE
  <1>1. /\ \A j \in Slot : jobs[j].state = "RUNNING" \/ jobs'[j].state = "RUNNING"
                              => jobs'[j] = jobs[j]
        /\ UNCHANGED <<busy, display, lost, chosen>>
    BY TasksKeepRunning
  <1>2. /\ Running' = Running
        /\ \A r \in Running : LutOf(r)' = LutOf(r) /\ PartOf(r)' = PartOf(r)
    BY <1>1, RunningKept
  <1>3. LutsApart'
    BY <1>2 DEF LutsApart
  <1>4. BusyKnown'
    BY <1>1, <1>2 DEF BusyKnown
  <1>5. PixelsApart'
    BY <1>1 DEF PixelsApart
  <1>6. LutsReserved'
    <2> SUFFICES ASSUME pc \in {"part", "init"} PROVE LutsReserved'
      BY <1>1 DEF LutsReserved, display
    <2>1. cur \in Slot /\ jobs[cur].state = "RUNNING"
      BY DEF LutsReserved, Types
    <2>2. jobs'[cur] = jobs[cur] /\ cur' = cur /\ index' = index /\ pc' = pc
      BY <1>1, <2>1 DEF display
    <2>3. Ahead' = Ahead
      BY SMTT(30), <2>2 DEF Ahead, NumParts
    <2> QED
      BY <1>2, <2>1, <2>2, <2>3 DEF LutsReserved
  <1> QED
    BY <1>1, <1>3, <1>4, <1>5, <1>6

(* Where a task is after each of its steps.                                *)
LEMMA TaskMoves ==
  ASSUME Types, NEW t \in Task, Application(t)
  PROVE  /\ BeginScan(t) => app'[t].pc = "found"
         /\ BeginTake(t) => app[t].pc = "found" /\ app'[t].pc = "filling"
         /\ AddPart(t) => app[t].pc = "filling" /\ app'[t].pc = "filling"
         /\ Commit(t) => app[t].pc = "filling" /\ app'[t].pc = "committing"
         /\ BeginTake(t) \/ AddPart(t) \/ Commit(t) =>
              app'[t].slot = app[t].slot /\ app'[t].update = app[t].update
         /\ CommitEnd(t) => app[t].pc = "committing" /\ app'[t].pc = "idle"
         /\ CommitInvalid(t) => app[t].pc = "filling" /\ app'[t].pc = "idle"
         /\ BeginBusy(t) => app' = app
  BY DEF Types, BeginScan, BeginTake, AddPart, Commit, CommitEnd, CommitInvalid, BeginBusy

LEMMA TasksKeepHeld ==
  ASSUME Types, Types', Held, NEW t \in Task, Application(t), raced' = {}
  PROVE  Held'
  <1>0. PICK s \in Slot : s = app[t].slot
    BY AppFields
  <1>1. \A u \in Task \ {t} : app'[u] = app[u]
    BY AppTypes
  <1>2. \A u \in Task : app[u].slot \in Slot
    BY AppFields
  <1>3. \A u \in Task : app[u].pc \in {"filling", "committing"} =>
          jobs[app[u].slot].state = "FILLING" /\ jobs[app[u].slot].cookie = app[u].update.cookie
    BY DEF Held, Holds
  <1>4. \A u, v \in Task : u # v /\ app[u].pc \in {"filling", "committing"}
                              /\ app[v].pc \in {"filling", "committing"} => app[u].slot # app[v].slot
    BY DEF Held, Holds
  <1>5. SUFFICES
          /\ \A u \in Task : app'[u].pc \in {"filling", "committing"} =>
               jobs'[app'[u].slot].state = "FILLING" /\ jobs'[app'[u].slot].cookie = app'[u].update.cookie
          /\ \A u, v \in Task : u # v /\ app'[u].pc \in {"filling", "committing"}
                              /\ app'[v].pc \in {"filling", "committing"} => app'[u].slot # app'[v].slot
    BY DEF Held, Holds
  <1>6. CASE BeginTake(t)
    <2>1. jobs[s].state = "FREE"
      BY <1>0, <1>6 DEF BeginTake
    <2>2. app'[t].pc = "filling" /\ app'[t].slot = s /\ app'[t].update = app[t].update
      BY <1>0, <1>6, TaskMoves
    <2>3. \A j \in Slot \ {s} : jobs'[j] = jobs[j]
      BY <1>0, <1>6, TakeDoes
    <2>4. jobs'[s].state = "FILLING" /\ jobs'[s].cookie = app[t].update.cookie
      BY <1>0, <1>6, TakeDoes
    <2> QED
      BY <1>1, <1>2, <1>3, <1>4, <2>1, <2>2, <2>3, <2>4
  <1>7. CASE AddPart(t)
    <2>1. /\ app[t].pc = "filling" /\ app'[t].pc = "filling"
          /\ app'[t].slot = s /\ app'[t].update = app[t].update
      BY <1>0, <1>7, TaskMoves
    <2>2. \A j \in Slot \ {s} : jobs'[j] = jobs[j]
      BY <1>0, <1>7, AddDoes
    <2>3. jobs'[s].state = jobs[s].state /\ jobs'[s].cookie = jobs[s].cookie
      BY <1>0, <1>7, AddDoes
    <2> QED
      BY <1>0, <1>1, <1>2, <1>3, <1>4, <2>1, <2>2, <2>3
  <1>8. CASE Commit(t)
    <2>1. app[t].pc = "filling" /\ app'[t].pc = "committing"
      BY <1>8, TaskMoves
    <2>2. app'[t].slot = s /\ app'[t].update = app[t].update
      BY <1>0, <1>8, TaskMoves
    <2>3. \A j \in Slot \ {s} : j \notin Superseded(s) => jobs'[j] = jobs[j]
      BY <1>0, <1>8, CommitDoes
    <2>4. \A j \in Superseded(s) : jobs[j].state = "WAITING"
      BY DEF Superseded
    <2>5. jobs'[s].state = "FILLING" /\ jobs'[s].cookie = jobs[s].cookie
      BY <1>0, <1>8, CommitDoes
    <2> QED
      BY <1>0, <1>1, <1>2, <1>3, <1>4, <2>1, <2>2, <2>3, <2>4, <2>5
  <1>9. CASE CommitEnd(t)
    <2>1. app[t].pc = "committing" /\ app'[t].pc = "idle"
      BY <1>9, TaskMoves
    <2>2. \A j \in Slot \ {s} : jobs'[j] = jobs[j]
      BY <1>0, <1>9, EndDoes
    <2> QED
      BY <1>0, <1>1, <1>2, <1>3, <1>4, <2>1, <2>2
  <1>10. CASE BeginScan(t) \/ CommitInvalid(t)
    <2>1. jobs' = jobs /\ app'[t].pc \in {"found", "idle"}
      BY <1>10, TaskMoves DEF BeginScan, CommitInvalid
    <2> QED
      BY <1>1, <1>2, <1>3, <1>4, <2>1
  <1>11. CASE BeginBusy(t)
    BY <1>3, <1>4, <1>11 DEF BeginBusy
  <1> QED
    BY <1>6, <1>7, <1>8, <1>9, <1>10, <1>11 DEF Application, Drawing

LEMMA TasksKeepNumbered ==
  ASSUME Types, Types', Held, Numbered, NEW t \in Task, Application(t), raced' = {}
  PROVE  Numbered'
  <1>0. PICK s \in Slot : s = app[t].slot
    BY AppFields
  <1>1. \A u \in Task \ {t} : app'[u] = app[u]
    BY AppTypes
  <1>2. \A j \in Slot : jobs[j].number \in Nat
    BY JobFields
  <1>3. job_number \in Nat
    BY DEF Types
  <1>4. ASSUME \A j \in Slot : Queued(j)' => Queued(j) /\ jobs'[j].number = jobs[j].number,
               UNCHANGED <<job_number, cancelled>>
        PROVE  Numbered'
    BY SMTT(30), <1>4 DEF Numbered
  <1>5. CASE BeginTake(t)
    <2>1. jobs[s].state = "FREE" /\ app'[t].pc = "filling"
      BY Zenon, <1>0, <1>5, TaskMoves DEF BeginTake
    <2>2. \A j \in Slot \ {s} : jobs'[j] = jobs[j]
      BY <1>0, <1>5, TakeDoes
    <2>3. jobs'[s].state = "FILLING" /\ jobs'[s].number = jobs[s].number
      BY <1>0, <1>5, TakeDoes
    <2>4. \A j \in Slot : Committing(j)' => Committing(j)
      BY <1>1, <2>1 DEF Committing
    <2>5. \A j \in Slot : Queued(j)' => Queued(j) /\ jobs'[j].number = jobs[j].number
      BY SMTT(30), <2>2, <2>3, <2>4 DEF Queued
    <2> QED
      BY Zenon, <1>4, <1>5, <2>5 DEF BeginTake
  <1>6. CASE AddPart(t)
    <2>1. app'[t].pc = "filling"
      BY <1>6, TaskMoves
    <2>2. \A j \in Slot \ {s} : jobs'[j] = jobs[j]
      BY <1>0, <1>6, AddDoes
    <2>3. jobs'[s].state = jobs[s].state /\ jobs'[s].number = jobs[s].number
      BY <1>0, <1>6, AddDoes
    <2>4. \A j \in Slot : Committing(j)' => Committing(j)
      BY <1>1, <2>1 DEF Committing
    <2>5. \A j \in Slot : Queued(j)' => Queued(j) /\ jobs'[j].number = jobs[j].number
      BY <2>2, <2>3, <2>4 DEF Queued
    <2> QED
      BY <1>4, <1>6, <2>5 DEF AddPart, history
  <1>7. CASE Commit(t)
    <2>1. app'[t].pc = "committing" /\ app'[t].slot = s
      BY <1>0, <1>7, TaskMoves
    <2>2. \A j \in Slot \ {s} : j \notin Superseded(s) => jobs'[j] = jobs[j]
      BY <1>0, <1>7, CommitDoes
    <2>3. jobs[s].state = "FILLING" /\ jobs'[s].state = "FILLING" /\ jobs'[s].number = job_number
      BY <1>0, <1>7, CommitDoes
    <2>4. \A j \in Superseded(s) : j \in Slot /\ jobs[j].state = "WAITING" /\ jobs'[j].state = "FREE"
      BY <1>0, <1>7, CommitDoes DEF Superseded
    <2>5. /\ job_number' = job_number + 1
          /\ cancelled' = cancelled \cup {jobs[j].number : j \in Superseded(s)}
      BY <1>0, <1>7 DEF Commit
    <2>6. \A j \in Slot : Committing(j) => jobs[j].state = "FILLING"
      BY DEF Committing, Held, Holds
    <2>7. \A j \in Slot \ {s} : Committing(j)' => Committing(j)
      BY <1>1, <2>1 DEF Committing
    <2>8. ASSUME NEW j \in Slot \ {s}, Queued(j)'
          PROVE  Queued(j) /\ j \notin Superseded(s) /\ jobs'[j].number = jobs[j].number
      <3>1. j \notin Superseded(s)
        BY <2>4, <2>6, <2>7, <2>8 DEF Queued
      <3> QED
        BY <2>2, <2>7, <2>8, <3>1 DEF Queued
    <2>9. \A j \in Superseded(s) : Queued(j)
      BY <2>4 DEF Queued
    <2>10. /\ \A j \in Slot : Queued(j) => jobs[j].number < job_number /\ jobs[j].number \notin cancelled
           /\ \A j, i \in Slot : Queued(j) /\ Queued(i) /\ j # i => jobs[j].number # jobs[i].number
           /\ \A n \in cancelled : n < job_number
      BY DEF Numbered
    <2>11. \A n \in cancelled' : n < job_number
      BY <2>4, <2>5, <2>9, <2>10
    <2>12. \A n \in cancelled' : n \in Nat
      BY DEF Types
    <2>13. ASSUME NEW j \in Slot, Queued(j)'
           PROVE  jobs'[j].number < job_number' /\ jobs'[j].number \notin cancelled'
      <3>1. CASE j = s
        BY <3>1, <1>3, <2>3, <2>5, <2>11, <2>12
      <3>2. CASE j # s
        <4>1. Queued(j) /\ j \notin Superseded(s) /\ jobs'[j].number = jobs[j].number
          BY <2>8, <2>13, <3>2
        <4>2. jobs'[j].number < job_number'
          BY <1>2, <1>3, <2>5, <2>10, <4>1
        <4>3. jobs'[j].number \notin cancelled'
          BY <2>4, <2>5, <2>9, <2>10, <4>1
        <4> QED
          BY <4>2, <4>3
      <3> QED
        BY <3>1, <3>2
    <2>14. ASSUME NEW j \in Slot, NEW i \in Slot, Queued(j)', Queued(i)', j # i
           PROVE  jobs'[j].number # jobs'[i].number
      <3>1. \A k \in Slot \ {s} : Queued(k)' => Queued(k) /\ jobs'[k].number = jobs[k].number
                                                /\ jobs[k].number < job_number
        BY <2>8, <2>10
      <3>2. CASE j = s
        BY <3>1, <3>2, <1>2, <1>3, <2>3, <2>14
      <3>3. CASE i = s
        BY <3>1, <3>3, <1>2, <1>3, <2>3, <2>14
      <3>4. CASE j # s /\ i # s
        BY <3>1, <3>4, <2>10, <2>14
      <3> QED
        BY <3>2, <3>3, <3>4
    <2>15. \A n \in cancelled' : n < job_number'
      BY <1>3, <2>5, <2>11, <2>12
    <2> QED
      BY <2>13, <2>14, <2>15 DEF Numbered
  <1>8. CASE CommitEnd(t)
    <2>1. app[t].pc = "committing" /\ app'[t].pc = "idle"
      BY <1>8, TaskMoves
    <2>2. \A j \in Slot \ {s} : jobs'[j] = jobs[j]
      BY <1>0, <1>8, EndDoes
    <2>3. jobs'[s].number = jobs[s].number
      BY <1>0, <1>8, EndDoes
    <2>4. \A j \in Slot : Committing(j)' => Committing(j)
      BY <1>1, <2>1 DEF Committing
    <2>5. Committing(s)
      BY <1>0, <2>1 DEF Committing
    <2>6. \A j \in Slot : Queued(j)' => Queued(j) /\ jobs'[j].number = jobs[j].number
      BY <2>2, <2>3, <2>4, <2>5 DEF Queued
    <2> QED
      BY <1>4, <1>8, <2>6 DEF CommitEnd, history
  <1>9. CASE BeginScan(t) \/ CommitInvalid(t) \/ BeginBusy(t)
    <2>1. UNCHANGED <<jobs, job_number, cancelled>>
      BY <1>9 DEF BeginScan, CommitInvalid, BeginBusy
    <2>2. app'[t].pc \in {"found", "idle"} \/ app' = app
      BY <1>9, TaskMoves
    <2>3. \A j \in Slot : Committing(j)' => Committing(j)
      BY <1>1, <2>2 DEF Committing
    <2>4. \A j \in Slot : Queued(j)' => Queued(j) /\ jobs'[j].number = jobs[j].number
      BY <2>1, <2>3 DEF Queued
    <2> QED
      BY <1>4, <2>1, <2>4
  <1> QED
    BY <1>5, <1>6, <1>7, <1>8, <1>9 DEF Application, Drawing

LEMMA TasksKeepChosen ==
  ASSUME Types, Types', Held, ChosenFits, NEW t \in Task, Application(t), raced' = {}
  PROVE  ChosenFits'
  <1>0. PICK s \in Slot : s = app[t].slot
    BY AppFields
  <1>1. UNCHANGED <<display, chosen>> /\ eink_find_free_luts' = eink_find_free_luts
    BY TasksKeepRunning, RunningKept
  <1>2. SUFFICES ASSUME pc = "execute" PROVE ChosenFits'
    BY <1>1 DEF ChosenFits, display
  <1>3. cur' = cur /\ cur \in Slot /\ pc' = pc /\ chosen' = chosen /\ chosen \in Nat
        /\ job_number \in Nat
    BY <1>1 DEF display, Types
  <1>4. chosen < job_number
    BY <1>2 DEF ChosenFits
  <1>5. \A j \in Slot : Committing(j) => jobs[j].number # chosen
    BY <1>2 DEF ChosenFits
  <1>6. jobs[cur].state = "WAITING" /\ jobs[cur].number = chosen
          => NumParts(cur) <= Cardinality(eink_find_free_luts)
    BY <1>2 DEF ChosenFits
  <1>7. \A u \in Task \ {t} : app'[u] = app[u]
    BY AppTypes
  <1>8. ASSUME \A j \in Slot : Committing(j)' => jobs'[j].number # chosen,
               jobs'[cur].state = "WAITING" /\ jobs'[cur].number = chosen =>
                 /\ jobs[cur].state = "WAITING" /\ jobs[cur].number = chosen
                 /\ jobs'[cur].parts = jobs[cur].parts,
               chosen < job_number'
        PROVE  ChosenFits'
    <2>1. jobs'[cur].state = "WAITING" /\ jobs'[cur].number = chosen
            => Len(jobs'[cur].parts) <= Cardinality(eink_find_free_luts)
      BY SMTT(30), <1>6, <1>8 DEF NumParts
    <2> QED
      BY <1>1, <1>3, <1>8, <2>1 DEF ChosenFits, NumParts
  <1>9. CASE BeginTake(t)
    <2>1. \A j \in Slot \ {s} : jobs'[j] = jobs[j]
      BY <1>0, <1>9, TakeDoes
    <2>2. jobs'[s].state = "FILLING" /\ jobs'[s].number = jobs[s].number
      BY <1>0, <1>9, TakeDoes
    <2>3. app'[t].pc = "filling"
      BY <1>9, TaskMoves
    <2>4. \A j \in Slot : Committing(j)' => Committing(j)
      BY <1>7, <2>3 DEF Committing
    <2> QED
      BY Zenon, <1>3, <1>4, <1>5, <1>8, <1>9, <2>1, <2>2, <2>4 DEF BeginTake
  <1>10. CASE AddPart(t)
    <2>1. \A j \in Slot \ {s} : jobs'[j] = jobs[j]
      BY <1>0, <1>10, AddDoes
    <2>2. jobs'[s].state = jobs[s].state /\ jobs'[s].number = jobs[s].number
      BY <1>0, <1>10, AddDoes
    <2>3. jobs[s].state = "FILLING"
      BY <1>0, <1>10 DEF AddPart, Held, Holds
    <2>4. app'[t].pc = "filling"
      BY <1>10, TaskMoves
    <2>5. \A j \in Slot : Committing(j)' => Committing(j)
      BY <1>7, <2>4 DEF Committing
    <2> QED
      BY Zenon, <1>3, <1>4, <1>5, <1>8, <1>10, <2>1, <2>2, <2>3, <2>5 DEF AddPart
  <1>11. CASE Commit(t)
    <2>1. app'[t].pc = "committing" /\ app'[t].slot = s
      BY <1>0, <1>11, TaskMoves
    <2>2. \A j \in Slot \ {s} : j \notin Superseded(s) => jobs'[j] = jobs[j]
      BY <1>0, <1>11, CommitDoes
    <2>3. jobs[s].state = "FILLING" /\ jobs'[s].state = "FILLING" /\ jobs'[s].number = job_number
      BY <1>0, <1>11, CommitDoes
    <2>4. \A j \in Superseded(s) : j \in Slot /\ jobs[j].state = "WAITING" /\ jobs'[j].state = "FREE"
      BY <1>0, <1>11, CommitDoes DEF Superseded
    <2>5. job_number' = job_number + 1
      BY <1>11 DEF Commit
    <2>6. \A j \in Slot : Committing(j) => jobs[j].state = "FILLING"
      BY DEF Committing, Held, Holds
    <2>7. \A j \in Slot \ {s} : Committing(j)' => Committing(j)
      BY <1>7, <2>1 DEF Committing
    <2>8. ASSUME NEW j \in Slot, Committing(j)'
          PROVE  jobs'[j].number # chosen
      <3>1. CASE j = s
        BY <3>1, <1>3, <1>4, <2>3
      <3>2. CASE j # s
        <4>1. Committing(j) /\ j \notin Superseded(s)
          BY <2>4, <2>6, <2>7, <2>8, <3>2
        <4> QED
          BY <4>1, <3>2, <2>2, <1>5
      <3> QED
        BY <3>1, <3>2
    <2>9. jobs'[cur].state = "WAITING" => jobs'[cur] = jobs[cur]
      BY <1>3, <2>2, <2>3, <2>4
    <2>10. chosen < job_number'
      BY <1>3, <1>4, <2>5
    <2> QED
      BY <1>8, <2>8, <2>9, <2>10
  <1>12. CASE CommitEnd(t)
    <2>1. app[t].pc = "committing" /\ app'[t].pc = "idle"
      BY <1>12, TaskMoves
    <2>2. \A j \in Slot \ {s} : jobs'[j] = jobs[j]
      BY <1>0, <1>12, EndDoes
    <2>3. jobs'[s].number = jobs[s].number
      BY <1>0, <1>12, EndDoes
    <2>4. \A j \in Slot : Committing(j)' => Committing(j)
      BY <1>7, <2>1 DEF Committing
    <2>5. jobs[s].number # chosen
      BY <1>0, <1>5, <2>1 DEF Committing
    <2> QED
      BY <1>3, <1>4, <1>5, <1>8, <1>12, <2>2, <2>3, <2>4, <2>5 DEF CommitEnd
  <1>13. CASE BeginScan(t) \/ CommitInvalid(t) \/ BeginBusy(t)
    <2>1. UNCHANGED <<jobs, job_number>>
      BY <1>13 DEF BeginScan, CommitInvalid, BeginBusy
    <2>2. app'[t].pc \in {"found", "idle"} \/ app' = app
      BY <1>13, TaskMoves
    <2>3. \A j \in Slot : Committing(j)' => Committing(j)
      BY <1>7, <2>2 DEF Committing
    <2> QED
      BY <1>4, <1>5, <1>8, <2>1, <2>3
  <1> QED
    BY <1>9, <1>10, <1>11, <1>12, <1>13 DEF Application, Drawing

-----------------------------------------------------------------------------
(* The steps of the display task and of the LUTs.  They leave the slots    *)
(* that are being filled alone, and the numbers.                           *)
LEMMA DisplayKeepsQueue ==
  ASSUME Types, Types', Held, Numbered, MainTask, raced' = {}
  PROVE  Held' /\ Numbered'
  <1>1. app' = app /\ job_number' = job_number /\ cancelled' = cancelled
    BY Zenon DEF MainTask, Cleanup, Find, FindNone, Execute, ExecuteAbort, HandlePart, InitDone,
           PartsDone, history
  <1>2. /\ \A j \in Slot : jobs[j].state = "FILLING" =>
             jobs'[j].state = "FILLING" /\ jobs'[j].cookie = jobs[j].cookie
        /\ \A j \in Slot : jobs'[j].number = jobs[j].number \/ jobs'[j].state = "FREE"
        /\ \A j \in Slot : jobs'[j].state \in {"WAITING", "RUNNING"} =>
             jobs[j].state \in {"WAITING", "RUNNING"}
        /\ \A j \in Slot : jobs'[j].state = "FREE" => jobs[j].state # "FILLING"
    <2>0. cur \in Slot
      BY DEF Types
    <2>1. CASE Cleanup
      <3>1. \A j \in Slot : jobs'[j].number = jobs[j].number /\ jobs'[j].cookie = jobs[j].cookie
        BY <2>1, CleanupDoes
      <3>2. \A j \in Slot : jobs[j].state # "RUNNING" => jobs'[j] = jobs[j]
        BY <2>1, CleanupDoes
      <3> QED
        BY <3>1, <3>2
    <2>2. CASE Execute
      <3>1. jobs[cur].state = "WAITING"
        BY Zenon, <2>2 DEF Execute, Stale
      <3>2. \A j \in Slot \ {cur} : jobs'[j] = jobs[j]
        BY <2>2, ExecuteDoes
      <3>3. jobs'[cur].state = "RUNNING" /\ jobs'[cur].number = jobs[cur].number
        BY <2>2, ExecuteDoes
      <3> QED
        BY <3>1, <3>2, <3>3
    <2>3. CASE ExecuteAbort
      <3>1. jobs[cur].state = "WAITING"
        BY Zenon, <2>3 DEF ExecuteAbort, Stale
      <3>2. \A j \in Slot \ {cur} : jobs'[j] = jobs[j]
        BY <2>3, AbortDoes
      <3>3. jobs'[cur].state = "FREE"
        BY <2>3, AbortDoes
      <3> QED
        BY <3>1, <3>2, <3>3
    <2>4. CASE HandlePart
      <3>1. \A j \in Slot \ {cur} : jobs'[j] = jobs[j]
        BY <2>4, HandleDoes
      <3>2. /\ jobs'[cur].state = jobs[cur].state /\ jobs'[cur].number = jobs[cur].number
            /\ jobs'[cur].cookie = jobs[cur].cookie
        BY <2>4, HandleDoes
      <3> QED
        BY <3>1, <3>2
    <2>5. CASE Find \/ FindNone \/ InitDone \/ PartsDone
      BY <2>5 DEF Find, FindNone, InitDone, PartsDone
    <2> QED
      BY <2>1, <2>2, <2>3, <2>4, <2>5 DEF MainTask
  <1>3. Held'
    <2>1. \A u \in Task : app[u].slot \in Slot
      BY AppFields
    <2> QED
      BY <1>1, <1>2, <2>1 DEF Held, Holds
  <1>4. \A j \in Slot : Committing(j)' <=> Committing(j)
    BY <1>1 DEF Committing
  <1>5. \A j \in Slot : Committing(j) => jobs[j].state = "FILLING"
    BY DEF Committing, Held, Holds
  <1>6. \A j \in Slot : Queued(j)' => Queued(j) /\ jobs'[j].number = jobs[j].number
    BY <1>2, <1>4, <1>5 DEF Queued
  <1>7. Numbered'
    BY <1>1, <1>6 DEF Numbered
  <1> QED
    BY SMTT(30), <1>3, <1>7

(* A job that is chosen was eligible, and its number is not that of a job  *)
(* which is about to join the queue.                                       *)
LEMMA DisplayKeepsChosen ==
  ASSUME Types, Types', Held, Numbered, MainTask
  PROVE  ChosenFits'
  <1>1. CASE Find
    <2>1. PICK s \in Slot : Eligible(s) /\ cur' = s /\ chosen' = jobs[s].number
      BY <1>1 DEF Find
    <2>2. jobs' = jobs /\ app' = app /\ job_number' = job_number
      BY <1>1 DEF Find
    <2>3. jobs[s].state = "WAITING" /\ NumParts(s) <= Cardinality(eink_find_free_luts)
      BY <2>1 DEF Eligible
    <2>4. Queued(s) /\ jobs[s].number < job_number
      BY <2>3 DEF Queued, Numbered
    <2>5. ASSUME NEW j \in Slot, Committing(j)
          PROVE  jobs[j].number # jobs[s].number
      <3>1. jobs[j].state = "FILLING"
        BY <2>5 DEF Committing, Held, Holds
      <3>2. j # s /\ Queued(j)
        BY <2>3, <2>5, <3>1 DEF Queued
      <3> QED
        BY <2>4, <3>2 DEF Numbered
    <2>6. eink_find_free_luts' = eink_find_free_luts
      BY <2>2 DEF eink_find_free_luts, Running, LutOf, NumParts
    <2>7. \A j \in Slot : Committing(j)' <=> Committing(j)
      BY <2>2 DEF Committing
    <2> QED
      BY <2>1, <2>2, <2>3, <2>4, <2>5, <2>6, <2>7 DEF ChosenFits, NumParts
  <1>2. CASE ~ Find
    <2>1. pc' # "execute"
      BY Zenon, <1>2 DEF MainTask, Cleanup, FindNone, Execute, ExecuteAbort, HandlePart, InitDone,
                  PartsDone
    <2> QED
      BY <2>1 DEF ChosenFits
  <1> QED
    BY <1>1, <1>2

Luts == LutsReserved /\ LutsApart /\ BusyKnown /\ PixelsApart

LEMMA InRunning ==
  ASSUME Types, NEW r \in Slot \X PartNo
  PROVE  r \in Running <=> /\ jobs[r[1]].state = "RUNNING"
                           /\ r[2] <= NumParts(r[1])
                           /\ jobs[r[1]].running[r[2]]
  BY DEF Running

LEMMA CleanupKeepsLuts ==
  ASSUME Types, Types', Luts, Cleanup
  PROVE  Luts'
  <1>1. UNCHANGED busy /\ pc' = "find"
    BY DEF Cleanup
  <1>2. \A r \in Slot \X PartNo : LutOf(r)' = LutOf(r) /\ PartOf(r)' = PartOf(r)
                                  /\ NumParts(r[1])' = NumParts(r[1])
    <2>1. \A j \in Slot : jobs'[j].parts = jobs[j].parts /\ jobs'[j].lut = jobs[j].lut
      BY CleanupDoes
    <2> QED
      BY <2>1 DEF LutOf, PartOf, NumParts
  <1>3. ASSUME NEW r \in Running'
        PROVE  r \in Running
    <2>0. r \in Slot \X PartNo
      BY DEF Running
    <2>1. PICK j \in Slot, k \in PartNo : r = <<j, k>>
      BY <2>0
    <2>2. /\ jobs'[j].state = "RUNNING" /\ k <= NumParts(j) /\ jobs'[j].running[k]
      BY <1>2, <2>0, <2>1 DEF Running
    <2>3. jobs[j].state = "RUNNING"
      BY <2>2, CleanupDoes
    <2>4. k \in 1 .. NumParts(j)
      BY <2>2, JobFields DEF PartNo
    <2>5. jobs[j].running[k]
      BY <2>2, <2>3, <2>4, CleanupDoes
    <2> QED
      BY <2>0, <2>1, <2>2, <2>3, <2>5, InRunning
  <1>4. ASSUME NEW r \in Running, LutOf(r) \in DOMAIN busy
        PROVE  r \in Running'
    <2>0. r \in Slot \X PartNo
      BY DEF Running
    <2>1. PICK j \in Slot, k \in PartNo : r = <<j, k>>
      BY <2>0
    <2>2. /\ jobs[j].state = "RUNNING" /\ k <= NumParts(j) /\ jobs[j].running[k]
      BY <2>0, <2>1, InRunning
    <2>3. k \in 1 .. NumParts(j)
      BY <2>2, JobFields DEF PartNo
    <2>4. jobs'[j].running[k] /\ jobs'[j].state = "RUNNING"
      BY <1>4, <2>1, <2>2, <2>3, CleanupDoes
    <2> QED
      BY <1>2, <2>0, <2>1, <2>2, <2>4 DEF Running
  <1>5. \A r \in Running : r \in Slot \X PartNo
    BY DEF Running
  <1>6. LutsReserved'
    BY <1>1 DEF LutsReserved
  <1>7. LutsApart'
    BY <1>2, <1>3, <1>5 DEF LutsApart, Luts
  <1>8. BusyKnown'
    <2> SUFFICES ASSUME NEW l \in DOMAIN busy
                 PROVE  \E r \in Running' : LutOf(r)' = l /\ busy[l] = PartOf(r)'
      BY <1>1 DEF BusyKnown
    <2>1. PICK r \in Running : LutOf(r) = l /\ busy[l] = PartOf(r)
      BY DEF BusyKnown, Luts
    <2> QED
      BY <2>1, <1>2, <1>4, <1>5
  <1>9. PixelsApart'
    BY <1>1 DEF PixelsApart, Luts
  <1> QED
    BY <1>6, <1>7, <1>8, <1>9 DEF Luts

LEMMA ExecuteKeepsLuts ==
  ASSUME Types, Types', Luts, Execute, raced' = {}
  PROVE  Luts'
  <1>1. UNCHANGED <<busy, cur>> /\ pc' = "part" /\ index' = 1
    BY Zenon DEF Execute
  <1>2. jobs[cur].state = "WAITING" /\ cur \in Slot
    BY Zenon DEF Execute, Stale, Types
  <1>3. \A j \in Slot \ {cur} : jobs'[j] = jobs[j]
    BY ExecuteDoes
  <1>4. /\ jobs'[cur].state = "RUNNING" /\ jobs'[cur].parts = jobs[cur].parts
        /\ \A k \in 1 .. NumParts(cur) :
             /\ ~ jobs'[cur].running[k]
             /\ jobs'[cur].lut[k] = NthLut(eink_find_free_luts, k)
             /\ k \in 1 .. Cardinality(eink_find_free_luts)
    BY ExecuteDoes
  <1>5. NumParts(cur)' = NumParts(cur)
    BY <1>1, <1>4 DEF NumParts
  <1>6. \A r \in Running : r \in Slot \X PartNo /\ r[1] # cur
    BY <1>2 DEF Running
  <1>7. \A r \in Running : /\ r \in Running'
                           /\ LutOf(r)' = LutOf(r) /\ PartOf(r)' = PartOf(r)
    BY <1>3, <1>6 DEF Running, LutOf, PartOf, NumParts
  <1>8. ASSUME NEW r \in Running'
        PROVE  r \in Running
    <2>1. PICK j \in Slot, k \in PartNo : r = <<j, k>>
      BY DEF Running
    <2>2. jobs'[j].state = "RUNNING" /\ k <= Len(jobs'[j].parts) /\ jobs'[j].running[k]
      BY <2>1 DEF Running, NumParts
    <2>3. j # cur
      <3> SUFFICES ASSUME j = cur PROVE FALSE
        OBVIOUS
      <3>1. k <= NumParts(cur)
        BY <1>4, <2>2 DEF NumParts
      <3>2. k \in 1 .. NumParts(cur)
        BY <1>2, <3>1, JobFields DEF PartNo
      <3> QED
        BY <1>4, <2>2, <3>2
    <2> QED
      BY <1>3, <2>1, <2>2, <2>3 DEF Running, NumParts
  <1>9. LutsReserved'
    <2>1. \A k \in Ahead' : k \in 1 .. NumParts(cur)
      BY <1>1, <1>2, <1>5, JobFields DEF Ahead, PartNo
    <2>2. ASSUME NEW k \in Ahead'
          PROVE  ~ jobs'[cur].running[k] /\ \A r \in Running' : LutOf(r)' # jobs'[cur].lut[k]
      <3>1. /\ ~ jobs'[cur].running[k]
            /\ jobs'[cur].lut[k] = NthLut(eink_find_free_luts, k)
            /\ k \in 1 .. Cardinality(eink_find_free_luts)
        BY <1>4, <2>1
      <3>2. jobs'[cur].lut[k] \in eink_find_free_luts
        BY <3>1, FreeLuts, NthLutExists
      <3> QED
        BY <1>7, <1>8, <3>1, <3>2 DEF eink_find_free_luts
    <2>3. ASSUME NEW k \in Ahead', NEW m \in Ahead', k # m
          PROVE  jobs'[cur].lut[k] # jobs'[cur].lut[m]
      <3>1. /\ jobs'[cur].lut[k] = NthLut(eink_find_free_luts, k)
            /\ k \in 1 .. Cardinality(eink_find_free_luts)
            /\ jobs'[cur].lut[m] = NthLut(eink_find_free_luts, m)
            /\ m \in 1 .. Cardinality(eink_find_free_luts)
        BY <1>4, <2>1
      <3> QED
        BY <2>3, <3>1, FreeLuts, NthLutsDiffer
    <2> QED
      BY <1>1, <1>4, <2>2, <2>3 DEF LutsReserved
  <1>10. LutsApart'
    BY <1>7, <1>8 DEF LutsApart, Luts
  <1>11. BusyKnown'
    BY <1>1, <1>7 DEF BusyKnown, Luts
  <1>12. PixelsApart'
    BY <1>1 DEF PixelsApart, Luts
  <1> QED
    BY <1>9, <1>10, <1>11, <1>12 DEF Luts

(* Whether two parts may overlap does not depend on their order.           *)
LEMMA OverlapSymmetric ==
  ASSUME NEW p \in Part, NEW q \in Part, MayOverlap(p, q)
  PROVE  MayOverlap(q, p)
  BY DEF MayOverlap, SharePixels, BothSpecial, Crossing, Spans

LEMMA HandleKeepsLuts ==
  ASSUME Types, Types', Luts, HandlePart
  PROVE  Luts'
  <1> DEFINE p   == jobs[cur].parts[index]
             l   == jobs[cur].lut[index]
             new == <<cur, index>>
  <1>1. cur \in Slot /\ index \in 1 .. NumParts(cur) /\ index \in PartNo /\ cur' = cur
        /\ index' = index + 1
    BY HandleDoes, JobFields DEF Types, HandlePart
  <1>2. \A j \in Slot \ {cur} : jobs'[j] = jobs[j]
    BY HandleDoes
  <1>3. /\ jobs'[cur].state = jobs[cur].state /\ jobs'[cur].parts = jobs[cur].parts
        /\ jobs'[cur].lut = jobs[cur].lut /\ jobs'[cur].running[index]
        /\ \A k \in PartNo \ {index} : jobs'[cur].running[k] <=> jobs[cur].running[k]
    BY HandleDoes
  <1>4. jobs[cur].state = "RUNNING" /\ index \in Ahead
    BY <1>1 DEF Luts, LutsReserved, Ahead, HandlePart
  <1>5. p \in Part /\ l \in Lut /\ \A r \in Running : LutOf(r) # l
    BY <1>1, <1>4, JobFields DEF Luts, LutsReserved, NumParts, HandlePart
  <1>6. \A r \in Slot \X PartNo : LutOf(r)' = LutOf(r) /\ PartOf(r)' = PartOf(r)
    BY <1>2, <1>3 DEF LutOf, PartOf
  <1>7. new \in Slot \X PartNo /\ LutOf(new) = l /\ PartOf(new) = p /\ new \in Running'
    <2>1. jobs'[cur].state = "RUNNING" /\ index <= Len(jobs'[cur].parts)
      BY <1>1, <1>3, <1>4 DEF NumParts
    <2> QED
      BY <1>1, <1>3, <2>1 DEF Running, LutOf, PartOf, NumParts
  <1>8. \A r \in Running : r \in Slot \X PartNo /\ r \in Running'
    <2> SUFFICES ASSUME NEW r \in Running PROVE r \in Slot \X PartNo /\ r \in Running'
      OBVIOUS
    <2>1. PICK j \in Slot, k \in PartNo : r = <<j, k>>
      BY DEF Running
    <2>2. jobs[j].state = "RUNNING" /\ k <= Len(jobs[j].parts) /\ jobs[j].running[k]
      BY <2>1 DEF Running, NumParts
    <2>3. jobs'[j].state = "RUNNING" /\ k <= Len(jobs'[j].parts) /\ jobs'[j].running[k]
      BY <1>2, <1>3, <2>2
    <2> QED
      BY <2>1, <2>3 DEF Running, NumParts
  <1>9. ASSUME NEW r \in Running', r # new
        PROVE  r \in Running
    <2>1. PICK j \in Slot, k \in PartNo : r = <<j, k>>
      BY DEF Running
    <2>2. jobs'[j].state = "RUNNING" /\ k <= Len(jobs'[j].parts) /\ jobs'[j].running[k]
      BY <2>1 DEF Running, NumParts
    <2>3. j # cur \/ k # index
      BY <1>9, <2>1
    <2>4. jobs[j].state = "RUNNING" /\ k <= Len(jobs[j].parts) /\ jobs[j].running[k]
      BY <1>2, <1>3, <2>2, <2>3
    <2> QED
      BY <2>1, <2>4 DEF Running, NumParts
  <1>10. \/ busy' = busy
         \/ busy' = [m \in DOMAIN busy \cup {l} |-> IF m = l THEN p ELSE busy[m]]
    BY DEF HandlePart
  <1>11. l \notin DOMAIN busy
    BY <1>5 DEF Luts, BusyKnown
  <1>12. ASSUME NEW m \in DOMAIN busy
         PROVE  MayOverlap(p, busy[m]) /\ MayOverlap(busy[m], p)
    <2>1. PICK r \in Running : LutOf(r) = m /\ busy[m] = PartOf(r)
      BY DEF Luts, BusyKnown
    <2>2. r # new
      BY <1>5, <1>7, <2>1
    <2>3. ~ (~ p.area \/ ~ PartOf(r).area \/ eink_job_conflicts(p, PartOf(r)))
      BY <2>1, <2>2, <1>12 DEF HandlePart, eink_job_find_conflicting_luts
    <2>4. busy[m] \in Part
      BY DEF Types
    <2>5. MayOverlap(p, busy[m])
      BY <1>5, <2>1, <2>3, <2>4, ConflictUnlessCrossing DEF MayOverlap
    <2> QED
      BY <1>5, <2>4, <2>5, OverlapSymmetric
  <1> HIDE DEF p, l, new
  <1>13. LutsApart'
    <2>1. \A r, q \in Running : r # q => LutOf(r) # LutOf(q)
      BY DEF Luts, LutsApart
    <2>2. ASSUME NEW r \in Running', NEW q \in Running', r # q
          PROVE  LutOf(r)' # LutOf(q)'
      <3>1. CASE r = new
        BY <3>1, <2>2, <1>5, <1>6, <1>7, <1>8, <1>9
      <3>2. CASE q = new
        BY <3>2, <2>2, <1>5, <1>6, <1>7, <1>8, <1>9
      <3>3. CASE r # new /\ q # new
        BY <3>3, <2>1, <2>2, <1>6, <1>8, <1>9
      <3> QED
        BY <3>1, <3>2, <3>3
    <2> QED
      BY <2>2 DEF LutsApart
  <1>14. BusyKnown'
    <2> SUFFICES ASSUME NEW m \in DOMAIN busy'
                 PROVE  \E r \in Running' : LutOf(r)' = m /\ busy'[m] = PartOf(r)'
      BY DEF BusyKnown
    <2>1. CASE m \in DOMAIN busy
      <3>1. PICK r \in Running : LutOf(r) = m /\ busy[m] = PartOf(r)
        BY <2>1 DEF Luts, BusyKnown
      <3>2. busy'[m] = busy[m]
        BY <2>1, <1>10, <1>11
      <3> QED
        BY <3>1, <3>2, <1>6, <1>8
    <2>2. CASE m \notin DOMAIN busy
      <3>1. m = l /\ busy'[m] = p
        BY <2>2, <1>10
      <3> QED
        BY <3>1, <1>6, <1>7
    <2> QED
      BY <2>1, <2>2
  <1>15. PixelsApart'
    <2>1. \A m, n \in DOMAIN busy : m # n => MayOverlap(busy[m], busy[n])
      BY DEF Luts, PixelsApart
    <2>2. CASE busy' = busy
      BY <2>1, <2>2 DEF PixelsApart
    <2>3. CASE busy' = [m \in DOMAIN busy \cup {l} |-> IF m = l THEN p ELSE busy[m]]
      <3>1. /\ DOMAIN busy' = DOMAIN busy \cup {l} /\ busy'[l] = p
            /\ \A m \in DOMAIN busy : busy'[m] = busy[m]
        BY <2>3, <1>11
      <3>2. ASSUME NEW m \in DOMAIN busy', NEW n \in DOMAIN busy', m # n
            PROVE  MayOverlap(busy'[m], busy'[n])
        BY <2>1, <3>1, <3>2, <1>12
      <3> QED
        BY <3>2 DEF PixelsApart
    <2> QED
      BY <2>2, <2>3, <1>10
  <1>16. LutsReserved'
    <2>1. NumParts(cur)' = NumParts(cur)
      BY <1>1, <1>3 DEF NumParts
    <2>2. ASSUME NEW k \in Ahead'
          PROVE  k \in Ahead /\ k # index /\ k \in PartNo
      BY <1>1, <2>1 DEF Ahead, PartNo
    <2>3. /\ \A k \in Ahead : /\ ~ jobs[cur].running[k]
                              /\ \A r \in Running : LutOf(r) # jobs[cur].lut[k]
          /\ \A k, m \in Ahead : k # m => jobs[cur].lut[k] # jobs[cur].lut[m]
      BY DEF Luts, LutsReserved, HandlePart
    <2>4. ASSUME NEW k \in Ahead'
          PROVE  ~ jobs'[cur].running[k] /\ \A r \in Running' : LutOf(r)' # jobs'[cur].lut[k]
      <3>1. jobs'[cur].lut[k] = jobs[cur].lut[k] /\ ~ jobs'[cur].running[k]
        BY <1>3, <2>2, <2>3
      <3>2. jobs[cur].lut[k] # l
        BY <1>4, <2>2, <2>3 DEF l
      <3>3. ASSUME NEW r \in Running'
            PROVE  LutOf(r)' # jobs'[cur].lut[k]
        <4>1. CASE r = new
          BY <4>1, <3>1, <3>2, <1>6, <1>7
        <4>2. CASE r # new
          BY <4>2, <3>1, <1>6, <1>8, <1>9, <2>2, <2>3
        <4> QED
          BY <4>1, <4>2
      <3> QED
        BY <3>1, <3>3
    <2>5. \A k, m \in Ahead' : k # m => jobs'[cur].lut[k] # jobs'[cur].lut[m]
      BY <1>3, <2>2, <2>3
    <2> QED
      BY <1>1, <1>3, <1>4, <2>4, <2>5 DEF LutsReserved
  <1> QED
    BY <1>13, <1>14, <1>15, <1>16 DEF Luts

LEMMA DisplayKeepsLuts ==
  ASSUME Types, Types', Luts, MainTask, raced' = {}
  PROVE  Luts'
  <1>1. CASE Cleanup
    BY <1>1, CleanupKeepsLuts
  <1>2. CASE Execute
    BY <1>2, ExecuteKeepsLuts
  <1>3. CASE HandlePart
    BY <1>3, HandleKeepsLuts
  <1>4. CASE ExecuteAbort
    <2>1. jobs[cur].state = "WAITING" /\ cur \in Slot
      BY Zenon, <1>4 DEF ExecuteAbort, Stale, Types
    <2>2. \A j \in Slot \ {cur} : jobs'[j] = jobs[j]
      BY <1>4, AbortDoes
    <2>3. jobs'[cur].state = "FREE"
      BY <1>4, AbortDoes
    <2>4. \A j \in Slot : jobs[j].state = "RUNNING" \/ jobs'[j].state = "RUNNING"
                           => jobs'[j] = jobs[j]
      BY <2>1, <2>2, <2>3
    <2>5. /\ Running' = Running
          /\ \A r \in Running : LutOf(r)' = LutOf(r) /\ PartOf(r)' = PartOf(r)
      BY <2>4, RunningKept
    <2>6. busy' = busy /\ pc' = "cleanup"
      BY Zenon, <1>4 DEF ExecuteAbort
    <2> QED
      BY SMTT(30), <2>5, <2>6 DEF Luts, LutsReserved, LutsApart, BusyKnown, PixelsApart
  <1>5. CASE Find \/ FindNone \/ InitDone \/ PartsDone
    <2>1. UNCHANGED <<jobs, busy>>
      BY <1>5 DEF Find, FindNone, InitDone, PartsDone
    <2>2. /\ Running' = Running
          /\ \A r \in Running : LutOf(r)' = LutOf(r) /\ PartOf(r)' = PartOf(r)
      BY <2>1 DEF Running, LutOf, PartOf, NumParts
    <2>3. LutsApart' /\ BusyKnown' /\ PixelsApart'
      BY <2>1, <2>2 DEF Luts, LutsApart, BusyKnown, PixelsApart
    <2>4. LutsReserved'
      <3>1. CASE InitDone
        <4>1. cur' = cur /\ index' = index /\ pc \in {"part", "init"}
          BY <3>1 DEF InitDone
        <4>2. Ahead' = Ahead
          BY <2>1, <4>1 DEF Ahead, NumParts
        <4> QED
          BY <2>1, <2>2, <4>1, <4>2 DEF Luts, LutsReserved
      <3>2. CASE ~ InitDone
        BY <1>5, <3>2 DEF Find, FindNone, PartsDone, LutsReserved
      <3> QED
        BY <3>1, <3>2
    <2> QED
      BY <2>3, <2>4 DEF Luts
  <1> QED
    BY <1>1, <1>2, <1>3, <1>4, <1>5 DEF MainTask

(* The display task drops a job only if it is not the one it has chosen.   *)
LEMMA DisplayLosesNone ==
  ASSUME Types, ChosenFits, MainTask, raced' = {}
  PROVE  lost' = lost
  <1>1. CASE ExecuteAbort
    <2>1. jobs[cur].state = "WAITING" /\ jobs[cur].number = chosen /\ pc = "execute"
      BY Zenon, <1>1 DEF ExecuteAbort, Stale
    <2>2. NumParts(cur) <= Cardinality(eink_find_free_luts)
      BY <2>1 DEF ChosenFits
    <2>3. NumParts(cur) > Cardinality(eink_find_free_luts)
      BY Zenon, <1>1 DEF ExecuteAbort
    <2>4. NumParts(cur) \in Nat /\ Cardinality(eink_find_free_luts) \in Nat
      BY JobFields, FreeLuts DEF Types
    <2> QED
      BY <2>2, <2>3, <2>4
  <1>2. CASE Execute
    BY <1>2, Zenon DEF Execute
  <1>3. CASE ~ ExecuteAbort /\ ~ Execute
    BY <1>3 DEF MainTask, Cleanup, Find, FindNone, HandlePart, InitDone, PartsDone, history
  <1> QED
    BY <1>1, <1>2, <1>3

LEMMA LutsFinish ==
  ASSUME Types, Types', Luts, NEW l \in Lut, LutFinishes(l)
  PROVE  Luts'
  <1>1. UNCHANGED <<jobs, pc, cur, index>>
    BY DEF LutFinishes, display
  <1>2. DOMAIN busy' \subseteq DOMAIN busy /\ \A m \in DOMAIN busy' : busy'[m] = busy[m]
    BY DEF LutFinishes
  <1>3. Running' = Running /\ Ahead' = Ahead
        /\ \A r \in Running : LutOf(r)' = LutOf(r) /\ PartOf(r)' = PartOf(r)
    BY <1>1 DEF Running, Ahead, LutOf, PartOf, NumParts
  <1>4. LutsReserved' /\ LutsApart'
    BY <1>1, <1>3 DEF Luts, LutsReserved, LutsApart
  <1>5. BusyKnown'
    BY <1>2, <1>3 DEF Luts, BusyKnown
  <1>6. PixelsApart'
    BY <1>2 DEF Luts, PixelsApart
  <1> QED
    BY <1>4, <1>5, <1>6 DEF Luts

-----------------------------------------------------------------------------
(* Once a slot has changed hands this is remembered.                       *)
LEMMA RacedKept ==
  ASSUME [Next]_vars, raced' = {}
  PROVE  raced = {}
  <1>1. CASE \E t \in Task : Application(t)
    BY Zenon, <1>1 DEF Application, Drawing, BeginScan, BeginBusy, BeginTake, AddPart, Commit,
                CommitInvalid, CommitEnd, history
  <1>2. CASE MainTask
    BY Zenon, <1>2 DEF MainTask, Cleanup, Find, FindNone, Execute, ExecuteAbort, HandlePart, InitDone,
                PartsDone, history
  <1>3. CASE (\E l \in Lut : LutFinishes(l)) \/ UNCHANGED vars
    BY <1>3 DEF LutFinishes, vars, history
  <1> QED
    BY SMTT(30), <1>1, <1>2, <1>3 DEF Next

LEMMA Starts == Init => IInv
  <1> SUFFICES ASSUME Init PROVE IInv
    OBVIOUS
  <1>1. NoUpdate \in AllUpdates /\ NoCookie \in Cookie
    <2>1. NoUpdate \in AllUpdates
      BY DEF AllUpdates
    <2>2. NoUpdate.cookie = NoCookie
      BY DEF NoUpdate
    <2> QED
      BY <2>1, <2>2 DEF Cookie
  <1>2. <<>> \in Parts
    BY EinkJobsAssumption DEF Parts
  <1>3. 1 \in Slot /\ 1 \in Lut
    BY EinkJobsAssumption DEF Slot, Lut
  <1>4. [k \in PartNo |-> 1] \in [PartNo -> Lut] /\ [k \in PartNo |-> FALSE] \in [PartNo -> BOOLEAN]
    BY <1>3
  <1>5. jobs \in [Slot -> Job] /\ \A s \in Slot : jobs[s].state = "FREE"
    <2> DEFINE free == [state |-> "FREE", cookie |-> NoCookie, number |-> 0, parts |-> <<>>,
                        lut |-> [k \in PartNo |-> 1], running |-> [k \in PartNo |-> FALSE]]
    <2>1. free \in Job /\ free.state = "FREE"
      BY <1>1, <1>2, <1>4 DEF Job
    <2>2. jobs = [s \in Slot |-> free]
      BY DEF Init
    <2> HIDE DEF free
    <2> QED
      BY <2>1, <2>2
  <1>6. DOMAIN busy = {} /\ busy \in [DOMAIN busy -> Part]
    BY DEF Init
  <1>7. Types
    <2>1. app \in [Task -> [pc : {"idle", "found", "filling", "committing"}, slot : Slot,
                           update : AllUpdates, added : Nat]]
      BY <1>1, <1>3 DEF Init
    <2>2. \A t \in Task : app[t].update \in Update[t] \cup {NoUpdate}
      BY DEF Init
    <2>3. /\ pc = "sleep" /\ cur = 1 /\ index = 1 /\ job_number = 0
          /\ cancelled = {} /\ chosen = 0
      BY DEF Init
    <2> QED
      BY <1>3, <1>5, <1>6, <2>1, <2>2, <2>3 DEF Types
  <1>8. /\ \A t \in Task : app[t].pc = "idle"
        /\ pc = "sleep" /\ cancelled = {} /\ lost = FALSE
    BY DEF Init
  <1>9. Held /\ Numbered
    BY <1>5, <1>8 DEF Held, Holds, Numbered, Queued, Committing
  <1>10. Running = {}
    BY <1>5 DEF Running
  <1>11. ChosenFits /\ LutsReserved /\ LutsApart /\ BusyKnown /\ PixelsApart
    BY <1>6, <1>8, <1>10 DEF ChosenFits, LutsReserved, LutsApart, BusyKnown, PixelsApart
  <1> QED
    BY <1>7, <1>8, <1>9, <1>11 DEF IInv, Undisturbed

LEMMA IInvStep ==
  ASSUME IInv, [Next]_vars
  PROVE  IInv'
  <1>1. Types /\ Types'
    BY TypesStep DEF IInv
  <1>2. SUFFICES ASSUME raced' = {} PROVE Undisturbed'
    BY <1>1 DEF IInv
  <1>3. /\ Held /\ Numbered /\ ChosenFits /\ Luts /\ lost = FALSE
    BY <1>2, RacedKept DEF IInv, Undisturbed, Luts
  <1>4. SUFFICES Held' /\ Numbered' /\ ChosenFits' /\ Luts' /\ lost' = FALSE
    BY DEF Undisturbed, Luts
  <1>5. CASE \E t \in Task : Application(t)
    <2>1. PICK t \in Task : Application(t)
      BY <1>5
    <2> QED
      BY <1>1, <1>2, <1>3, <2>1, TasksKeepHeld, TasksKeepNumbered, TasksKeepChosen, TasksKeepLuts
         DEF Luts
  <1>6. CASE MainTask
    BY <1>1, <1>2, <1>3, <1>6, DisplayKeepsQueue, DisplayKeepsChosen, DisplayKeepsLuts,
       DisplayLosesNone
  <1>7. CASE \E l \in Lut : LutFinishes(l)
    <2>1. PICK l \in Lut : LutFinishes(l)
      BY <1>7
    <2>2. Luts'
      BY <1>1, <1>3, <2>1, LutsFinish
    <2>3. UNCHANGED <<jobs, job_number, app, pc, cur, chosen, cancelled, lost>>
      BY <2>1 DEF LutFinishes, display, history
    <2>4. Held' /\ Numbered' /\ ChosenFits'
      BY <1>3, <2>3 DEF Held, Holds, Numbered, Queued, Committing, ChosenFits, NumParts,
                        eink_find_free_luts, Running, LutOf
    <2> QED
      BY <1>3, <2>2, <2>3, <2>4
  <1>8. CASE UNCHANGED vars
    <2>1. UNCHANGED <<jobs, job_number, busy, pc, cur, index, app, chosen, cancelled, lost>>
      BY <1>8 DEF vars, display, history
    <2>2. Held' /\ Numbered' /\ ChosenFits'
      BY <1>3, <2>1 DEF Held, Holds, Numbered, Queued, Committing, ChosenFits, NumParts,
                        eink_find_free_luts, Running, LutOf
    <2>3. Luts'
      BY <1>3, <2>1 DEF Luts, LutsReserved, LutsApart, BusyKnown, PixelsApart, Ahead, NumParts,
                        Running, LutOf, PartOf
    <2> QED
      BY <1>3, <2>1, <2>2, <2>3
  <1> QED
    BY <1>5, <1>6, <1>7, <1>8 DEF Next

(* The queue, the LUTs and the tasks keep the inductive invariant.         *)
THEOREM InvariantHolds == Spec => []IInv
  <1>1. IInv /\ [Next]_vars => IInv'
    BY IInvStep
  <1> QED
    BY Starts, <1>1, PTL DEF Spec

(* The same pixels are drawn twice at a time only by two special parts, in *)
(* a plus sign, or after a slot changed hands: eink_job_handle_part()      *)
(* waits for every LUT whose part overlaps in any other way.               *)
THEOREM SharedPixelsHaveCauses == Spec => []SharedPixelsCauses
  <1>1. IInv => SharedPixelsCauses
    BY DEF IInv, Undisturbed, PixelsApart, MayOverlap, SharedPixelsCauses
  <1> QED
    BY <1>1, InvariantHolds, PTL

(* A LUT at work belongs to exactly one running part, as long as no slot   *)
(* changed hands: eink_job_execute() hands out LUTs that no running part   *)
(* has, and a part keeps its LUT until it has been seen to finish.         *)
THEOREM LutsAreOwned == Spec => []LutOwned
  <1>1. IInv => LutOwned
    <2> SUFFICES ASSUME IInv, raced = {}, NEW l \in DOMAIN busy
                 PROVE  Cardinality({r \in Running : LutOf(r) = l}) = 1
      BY DEF LutOwned
    <2>1. LutsApart /\ BusyKnown
      BY DEF IInv, Undisturbed
    <2>2. PICK q \in Running : LutOf(q) = l
      BY <2>1 DEF BusyKnown
    <2>3. {r \in Running : LutOf(r) = l} = {q}
      BY <2>1, <2>2 DEF LutsApart
    <2> QED
      BY <2>3, FS_Singleton
  <1> QED
    BY <1>1, InvariantHolds, PTL

(* A job that a commit has cancelled is drawn only after a slot changed    *)
(* hands.                                                                  *)
THEOREM CancelledStayAway == Spec => []CancelledDrawnIfRaced
  <1>1. IInv => CancelledDrawnIfRaced
    BY DEF IInv, Undisturbed, Numbered, Queued, CancelledDrawnIfRaced
  <1> QED
    BY <1>1, InvariantHolds, PTL

(* A job is lost only after a slot changed hands.                          *)
THEOREM LossesHaveCauses == Spec => []LostOnlyAfterRace
  <1>1. IInv => LostOnlyAfterRace
    BY DEF IInv, Undisturbed, LostOnlyAfterRace
  <1> QED
    BY <1>1, InvariantHolds, PTL

-----------------------------------------------------------------------------
(* One waiting job under one cookie.                                       *)
CookieInv == raced = {} => CookieFree /\ OneWaitingPerCookie

LEMMA TasksKeepCookies ==
  ASSUME CookiesApart, Types, Types', Held, CookieFree, OneWaitingPerCookie, raced = {},
         NEW t \in Task, Application(t), raced' = {}
  PROVE  CookieFree' /\ OneWaitingPerCookie'
  <1>0. PICK s \in Slot : s = app[t].slot
    BY AppFields
  <1>1. \A u \in Task \ {t} : app'[u] = app[u]
    BY AppTypes
  <1>2. \A u \in Task : app[u].pc = "committing" /\ app[u].update.cookie # NoCookie =>
          \A j \in Slot : jobs[j].state = "WAITING" => jobs[j].cookie # app[u].update.cookie
    BY DEF CookieFree
  <1>3. \A i, j \in Slot : i # j /\ jobs[i].state = "WAITING" /\ jobs[j].state = "WAITING"
                             /\ jobs[i].cookie # NoCookie => jobs[i].cookie # jobs[j].cookie
    BY DEF OneWaitingPerCookie
  <1>4. ASSUME \A j \in Slot : jobs'[j].state = "WAITING" =>
                 jobs[j].state = "WAITING" /\ jobs'[j].cookie = jobs[j].cookie
        PROVE  OneWaitingPerCookie'
    BY <1>3, <1>4 DEF OneWaitingPerCookie
  <1>5. ASSUME \A j \in Slot : jobs'[j].state = "WAITING" =>
                 jobs[j].state = "WAITING" /\ jobs'[j].cookie = jobs[j].cookie,
               app'[t].pc # "committing" \/ app' = app
        PROVE  CookieFree'
    BY <1>1, <1>2, <1>5 DEF CookieFree
  <1>6. CASE BeginTake(t)
    <2>1. \A j \in Slot \ {s} : jobs'[j] = jobs[j]
      BY <1>0, <1>6, TakeDoes
    <2>2. jobs'[s].state = "FILLING" /\ app'[t].pc = "filling"
      BY <1>0, <1>6, TakeDoes, TaskMoves
    <2> QED
      BY <1>4, <1>5, <2>1, <2>2
  <1>7. CASE AddPart(t)
    <2>1. \A j \in Slot \ {s} : jobs'[j] = jobs[j]
      BY <1>0, <1>7, AddDoes
    <2>2. jobs'[s].state = jobs[s].state /\ jobs'[s].cookie = jobs[s].cookie
      BY <1>0, <1>7, AddDoes
    <2>3. app'[t].pc = "filling"
      BY <1>7, TaskMoves
    <2> QED
      BY <1>4, <1>5, <2>1, <2>2, <2>3
  <1>8. CASE Commit(t)
    <2>1. \A j \in Slot \ {s} : j \notin Superseded(s) => jobs'[j] = jobs[j]
      BY <1>0, <1>8, CommitDoes
    <2>2. jobs'[s].state = "FILLING" /\ \A j \in Superseded(s) : jobs'[j].state = "FREE"
      BY <1>0, <1>8, CommitDoes
    <2>3. \A j \in Slot : jobs'[j].state = "WAITING" =>
            /\ j # s /\ j \notin Superseded(s)
            /\ jobs[j].state = "WAITING" /\ jobs'[j].cookie = jobs[j].cookie
      BY <2>1, <2>2
    <2>4. app[t].pc = "filling" /\ app'[t].update = app[t].update
      BY <1>8, TaskMoves
    <2>5. jobs[s].cookie = app[t].update.cookie
      BY <1>0, <2>4 DEF Held, Holds
    <2>6. ASSUME app[t].update.cookie # NoCookie, NEW j \in Slot, jobs'[j].state = "WAITING"
          PROVE  jobs'[j].cookie # app[t].update.cookie
      BY <2>3, <2>5, <2>6 DEF Superseded
    <2>7. CookieFree'
      BY <1>1, <1>2, <2>3, <2>4, <2>6 DEF CookieFree
    <2> QED
      BY <1>4, <2>3, <2>7
  <1>9. CASE CommitEnd(t)
    <2>1. app[t].pc = "committing" /\ app'[t].pc = "idle"
      BY <1>9, TaskMoves
    <2>2. \A j \in Slot \ {s} : jobs'[j] = jobs[j]
      BY <1>0, <1>9, EndDoes
    <2>3. jobs'[s].cookie = jobs[s].cookie
      BY <1>0, <1>9, EndDoes
    <2>4. jobs[s].cookie = app[t].update.cookie
      BY <1>0, <2>1 DEF Held, Holds
    <2>5. \A u \in Task \ {t} : app[u].update.cookie = app[t].update.cookie
                                  => app[u].update.cookie = NoCookie
      <3> SUFFICES ASSUME NEW u \in Task, u # t,
                          app[u].update.cookie = app[t].update.cookie
                   PROVE  app[u].update.cookie = NoCookie
        OBVIOUS
      <3>1. NoUpdate.cookie = NoCookie
        BY DEF NoUpdate
      <3>2. app[u].update \in Update[u] \cup {NoUpdate} /\ app[t].update \in Update[t] \cup {NoUpdate}
        BY AppFields
      <3> QED
        BY <3>1, <3>2 DEF CookiesApart
    <2>6. CookieFree'
      <3> SUFFICES ASSUME NEW u \in Task, app'[u].pc = "committing",
                          app'[u].update.cookie # NoCookie,
                          NEW j \in Slot, jobs'[j].state = "WAITING"
                   PROVE  jobs'[j].cookie # app'[u].update.cookie
        BY DEF CookieFree
      <3>1. u # t /\ app'[u] = app[u]
        BY <1>1, <2>1
      <3>2. CASE j = s
        BY <3>1, <3>2, <2>3, <2>4, <2>5
      <3>3. CASE j # s
        BY <3>1, <3>3, <2>2, <1>2
      <3> QED
        BY <3>2, <3>3
    <2>7. OneWaitingPerCookie'
      <3> SUFFICES ASSUME NEW i \in Slot, NEW j \in Slot, i # j,
                          jobs'[i].state = "WAITING", jobs'[j].state = "WAITING",
                          jobs'[i].cookie = jobs'[j].cookie, jobs'[i].cookie # NoCookie
                   PROVE  FALSE
        BY DEF OneWaitingPerCookie
      <3>1. CASE i = s
        BY <3>1, <2>1, <2>2, <2>3, <2>4, <1>2
      <3>2. CASE j = s
        BY <3>2, <2>1, <2>2, <2>3, <2>4, <1>2
      <3>3. CASE i # s /\ j # s
        BY <3>3, <2>2, <1>3
      <3> QED
        BY <3>1, <3>2, <3>3
    <2> QED
      BY <2>6, <2>7
  <1>10. CASE BeginScan(t) \/ CommitInvalid(t) \/ BeginBusy(t)
    <2>1. jobs' = jobs
      BY <1>10 DEF BeginScan, CommitInvalid, BeginBusy
    <2>2. app'[t].pc # "committing" \/ app' = app
      BY <1>10, TaskMoves
    <2> QED
      BY <1>4, <1>5, <2>1, <2>2
  <1> QED
    BY <1>6, <1>7, <1>8, <1>9, <1>10 DEF Application, Drawing

LEMMA CookieStep ==
  ASSUME CookiesApart, IInv, IInv', CookieInv, [Next]_vars
  PROVE  CookieInv'
  <1>1. SUFFICES ASSUME raced' = {} PROVE CookieFree' /\ OneWaitingPerCookie'
    BY DEF CookieInv
  <1>2. raced = {} /\ Types /\ Types' /\ Held /\ CookieFree /\ OneWaitingPerCookie
    BY <1>1, RacedKept DEF IInv, Undisturbed, CookieInv
  <1>3. CASE \E t \in Task : Application(t)
    BY <1>1, <1>2, <1>3, TasksKeepCookies
  <1>4. ASSUME app' = app,
               \A j \in Slot : jobs'[j].state = "WAITING" =>
                 jobs[j].state = "WAITING" /\ jobs'[j].cookie = jobs[j].cookie
        PROVE  CookieFree' /\ OneWaitingPerCookie'
    BY <1>2, <1>4 DEF CookieFree, OneWaitingPerCookie
  <1>5. CASE MainTask
    <2>1. app' = app
      BY Zenon, <1>5 DEF MainTask, Cleanup, Find, FindNone, Execute, ExecuteAbort, HandlePart, InitDone,
                  PartsDone
    <2>2. CASE Cleanup
      <3>1. \A j \in Slot : jobs[j].state # "RUNNING" => jobs'[j] = jobs[j]
        BY <1>2, <2>2, CleanupDoes
      <3>2. \A j \in Slot : jobs[j].state = "RUNNING" => jobs'[j].state \in {"RUNNING", "FREE"}
        BY <1>2, <2>2, CleanupDoes
      <3> QED
        BY <1>4, <2>1, <3>1, <3>2
    <2>3. CASE Execute
      <3>1. \A j \in Slot \ {cur} : jobs'[j] = jobs[j]
        BY <1>2, <2>3, ExecuteDoes
      <3>2. jobs'[cur].state = "RUNNING"
        BY <1>2, <2>3, ExecuteDoes
      <3> QED
        BY <1>4, <2>1, <3>1, <3>2
    <2>4. CASE ExecuteAbort
      <3>1. \A j \in Slot \ {cur} : jobs'[j] = jobs[j]
        BY <1>2, <2>4, AbortDoes
      <3>2. jobs'[cur].state = "FREE"
        BY <1>2, <2>4, AbortDoes
      <3> QED
        BY <1>4, <2>1, <3>1, <3>2
    <2>5. CASE HandlePart
      <3>1. \A j \in Slot \ {cur} : jobs'[j] = jobs[j]
        BY <1>2, <2>5, HandleDoes
      <3>2. jobs'[cur].state = jobs[cur].state /\ jobs'[cur].cookie = jobs[cur].cookie
        BY <1>2, <2>5, HandleDoes
      <3> QED
        BY <1>4, <2>1, <3>1, <3>2
    <2>6. CASE Find \/ FindNone \/ InitDone \/ PartsDone
      BY <1>4, <2>1, <2>6 DEF Find, FindNone, InitDone, PartsDone
    <2> QED
      BY SMTT(30), <1>5, <2>2, <2>3, <2>4, <2>5, <2>6 DEF MainTask
  <1>6. CASE (\E l \in Lut : LutFinishes(l)) \/ UNCHANGED vars
    <2>1. UNCHANGED <<jobs, app>>
      BY <1>6 DEF LutFinishes, vars
    <2> QED
      BY <1>4, <2>1
  <1> QED
    BY <1>3, <1>5, <1>6 DEF Next

(* If no two tasks draw under the same cookie, there is one waiting job    *)
(* per cookie at most: a commit cancels the older ones before it queues    *)
(* its own, and no other task can put one of that cookie in between.       *)
THEOREM OneJobPerCookie ==
  ASSUME CookiesApart
  PROVE  Spec => []OneWaitingPerCookie
  <1>1. Init => CookieInv
    BY DEF Init, CookieInv, CookieFree, OneWaitingPerCookie
  <1>2. IInv /\ IInv' /\ CookieInv /\ [Next]_vars => CookieInv'
    BY CookieStep
  <1>3. CookieInv => OneWaitingPerCookie
    BY DEF CookieInv, OneWaitingPerCookie
  <1> QED
    BY <1>1, <1>2, <1>3, InvariantHolds, PTL DEF Spec
=============================================================================
