------------------------------ MODULE EinkJobs ------------------------------
(***************************************************************************)
(* The job queue of the e-ink display of the OpenPICC2,                    *)
(* firmware/at91sam7/openbeacon-openpicc2/application/eink/eink_mgmt.c.    *)
(*                                                                         *)
(* Application tasks fill a slot of jobs[] (eink_job_begin, _add, _commit) *)
(* and eink_main_task() (eink.c) moves committed jobs to the controller,   *)
(* which draws each part on a look-up table (LUT) of its own, many at a    *)
(* time.  Nothing but the cancellation in eink_job_commit() is in a        *)
(* critical section and the tasks are preemptive, so that the steps below  *)
(* interleave freely.  The controller is external: LUTs that finish at     *)
(* some time after they were started (status register 0x336).             *)
(***************************************************************************)
EXTENDS Integers, Sequences, FiniteSets, FiniteSetsExt

CONSTANTS
  EINK_MAX_JOB,        \* slots of jobs[] (32)
  EINK_MAX_JOB_PART,   \* parts of a slot (4), of which the last is never used
  NumLuts,             \* LUTs of the controller (16)
  Task,                \* application tasks that draw
  Update,              \* what each task draws: updates [cookie, parts]
  NoCookie,            \* the cookie 0
  MaxUpdates           \* bound: calls of eink_job_begin()

Slot   == 1 .. EINK_MAX_JOB
Lut    == 1 .. NumLuts
PartNo == 1 .. EINK_MAX_JOB_PART - 1
Mode   == {"FULL", "PART", "PART_SPECIAL", "INIT"}

(* A part as the application gives it; area = FALSE is a full screen.      *)
Part == [area : BOOLEAN, mode : Mode, x : Nat, y : Nat, w : Nat, h : Nat]

ASSUME EinkJobsAssumption ==
  /\ EINK_MAX_JOB \in Nat \ {0} /\ EINK_MAX_JOB_PART \in Nat \ {0, 1}
  /\ NumLuts \in Nat \ {0} /\ MaxUpdates \in Nat
  /\ \A t \in Task : \A u \in Update[t] : u.parts \in Seq(Part)

VARIABLES
  jobs,           \* jobs[]: state, cookie, job_number, parts, and lut and running of each part
  job_number,     \* the number the next commit takes
  busy,           \* the LUTs at work: part being drawn, by LUT
  pc, cur, index, \* eink_main_task(): where, the job found, the part to start
  app,            \* each application task: where, its slot, the update it draws, parts added
  begun,          \* bound: calls of eink_job_begin() so far
  cancelled,      \* history: numbers of the jobs a commit cancelled
  lost,           \* history: a job was given up with -EBUSY or -EINVAL
  chosen,         \* history: number of the job found, until it is executed
  raced           \* history: the unprotected windows that were hit

history == <<begun, cancelled, lost, chosen, raced>>
display == <<pc, cur, index>>
vars    == <<jobs, job_number, busy, display, app, history>>

-----------------------------------------------------------------------------
(* Geometry.  Bounds are inclusive at both ends, one pixel too far.        *)
rectangle_contains(p, x, y) == p.x <= x /\ x <= p.x + p.w /\ p.y <= y /\ y <= p.y + p.h

HasCornerOf(p, q) ==
  \E x \in {q.x, q.x + q.w}, y \in {q.y, q.y + q.h} : rectangle_contains(p, x, y)

(* Bug variant: one special part is enough to ignore a conflict.           *)
ConflictsUnlessSpecial(p, q) ==
  /\ ~ (p.mode = "PART_SPECIAL" \/ q.mode = "PART_SPECIAL")
  /\ HasCornerOf(p, q) \/ HasCornerOf(q, p)

(* eink_job_conflicts(): PART_SPECIAL parts never conflict with each other, *)
(* otherwise one rectangle holds a corner of the other.                     *)
eink_job_conflicts(p, q) ==
  /\ ~ (p.mode = "PART_SPECIAL" /\ q.mode = "PART_SPECIAL")
  /\ HasCornerOf(p, q) \/ HasCornerOf(q, p)

NumParts(s) == Len(jobs[s].parts)

(* The parts that occupy a LUT as far as the queue knows: <<slot, part>>.  *)
Running ==
  {r \in Slot \X PartNo : /\ jobs[r[1]].state = "RUNNING"
                          /\ r[2] <= NumParts(r[1])
                          /\ jobs[r[1]].running[r[2]]}

LutOf(r)  == jobs[r[1]].lut[r[2]]
PartOf(r) == jobs[r[1]].parts[r[2]]

(* eink_job_find_conflicting_luts(): a full screen conflicts with all.     *)
eink_job_find_conflicting_luts(s, k) ==
  LET p == jobs[s].parts[k]
  IN  {LutOf(r) : r \in {q \in Running \ {<<s, k>>} :
         ~ p.area \/ ~ PartOf(q).area \/ eink_job_conflicts(p, PartOf(q))}}

(* Bug variant: LUTs of jobs with more than one part are forgotten.        *)
FreeLutsFirstPart == Lut \ {LutOf(r) : r \in {q \in Running : q[2] = 1}}

eink_find_free_luts == Lut \ {LutOf(r) : r \in Running}

-----------------------------------------------------------------------------
NoPart == [area |-> FALSE, mode |-> "INIT", x |-> 0, y |-> 0, w |-> 0, h |-> 0]
NoUpdate == [cookie |-> NoCookie, parts |-> <<>>]

Init ==
  /\ jobs = [s \in Slot |->
       [state |-> "FREE", cookie |-> NoCookie, number |-> 0, parts |-> <<>>,
        lut |-> [k \in PartNo |-> 1], running |-> [k \in PartNo |-> FALSE]]]
  /\ job_number = 0
  /\ busy = [l \in {} |-> NoPart]
  /\ pc = "sleep" /\ cur = 1 /\ index = 1
  /\ app = [t \in Task |-> [pc |-> "idle", slot |-> 1, update |-> NoUpdate, added |-> 0]]
  /\ begun = 0 /\ cancelled = {} /\ lost = FALSE
  /\ chosen = 0 /\ raced = {}

-----------------------------------------------------------------------------
(* The application tasks.                                                  *)

FreeSlots == {s \in Slot : jobs[s].state = "FREE"}

(* eink_job_begin() 209-210: the scan ends at a slot that was free.        *)
BeginScan(t) ==
  /\ app[t].pc = "idle" /\ begun < MaxUpdates /\ FreeSlots # {}
  /\ \E u \in Update[t] :
       app' = [app EXCEPT ![t] = [pc |-> "found", slot |-> Min(FreeSlots),
                                  update |-> u, added |-> 0]]
  /\ begun' = begun + 1
  /\ UNCHANGED <<jobs, job_number, busy, display, cancelled, lost, chosen, raced>>

(* All slots are taken: -EBUSY and a NULL job, which eink_job_add() and    *)
(* eink_job_commit() then refuse; the callers ignore all three.            *)
BeginBusy(t) ==
  /\ app[t].pc = "idle" /\ begun < MaxUpdates /\ FreeSlots = {}
  /\ begun' = begun + 1
  /\ UNCHANGED <<jobs, job_number, busy, display, app, cancelled, lost, chosen, raced>>

(* eink_job_begin() 211-219: take the slot, whatever became of it.         *)
BeginTake(t) ==
  LET s == app[t].slot
  IN  /\ app[t].pc = "found"
      /\ jobs' = [jobs EXCEPT ![s].state = "FILLING", ![s].parts = <<>>,
                              ![s].cookie = app[t].update.cookie]
      /\ app' = [app EXCEPT ![t].pc = "filling"]
      /\ raced' = raced \cup (IF jobs[s].state # "FREE" THEN {"begin"} ELSE {})
      /\ UNCHANGED <<job_number, busy, display, begun, cancelled, lost, chosen>>

(* The last part of a job is never used.                                   *)
SlotFull(s) == NumParts(s) + 1 >= EINK_MAX_JOB_PART

(* eink_job_add() and eink_job_add_area(): the part goes to the end unless *)
(* the slot is full (-ENOSPC) or it is an area marked INIT (-EINVAL).       *)
AddPart(t) ==
  LET s == app[t].slot
      a == app[t]
      p == a.update.parts[a.added + 1]
  IN  /\ a.pc = "filling" /\ a.added < Len(a.update.parts)
      /\ jobs' = IF SlotFull(s) \/ (p.area /\ p.mode = "INIT")
                 THEN jobs
                 ELSE [jobs EXCEPT ![s].parts = Append(@, p)]
      /\ app' = [app EXCEPT ![t].added = @ + 1]
      /\ UNCHANGED <<job_number, busy, display, history>>

(* Bug variant: the first match ends the search.                           *)
SupersededFirst(s) ==
  IF jobs[s].cookie = NoCookie \/ jobs[1].state # "WAITING"
     \/ jobs[1].cookie # jobs[s].cookie
  THEN {} ELSE {1}

(* The waiting jobs a commit of slot s cancels.                            *)
Superseded(s) ==
  IF jobs[s].cookie = NoCookie THEN {}
  ELSE {j \in Slot : jobs[j].state = "WAITING" /\ jobs[j].cookie = jobs[s].cookie}

(* Bug variant: the jobs found are not freed.                              *)
CommittedOnly(s) == [jobs EXCEPT ![s].number = job_number]

Committed(s) ==
  [j \in Slot |-> IF j = s THEN [jobs[j] EXCEPT !.number = job_number]
                  ELSE IF j \in Superseded(s) THEN [jobs[j] EXCEPT !.state = "FREE"]
                  ELSE jobs[j]]

(* eink_job_commit() 299-310: check, number, cancel in a critical section. *)
Commit(t) ==
  LET s == app[t].slot
  IN  /\ app[t].pc = "filling" /\ app[t].added = Len(app[t].update.parts)
      /\ jobs[s].state = "FILLING"
      /\ jobs' = Committed(s)
      /\ job_number' = job_number + 1
      /\ cancelled' = cancelled \cup {jobs[j].number : j \in Superseded(s)}
      /\ app' = [app EXCEPT ![t].pc = "committing"]
      /\ UNCHANGED <<busy, display, begun, lost, chosen, raced>>

(* eink_job_commit() 299: the slot is no longer FILLING, -EINVAL.          *)
CommitInvalid(t) ==
  /\ app[t].pc = "filling" /\ app[t].added = Len(app[t].update.parts)
  /\ jobs[app[t].slot].state # "FILLING"
  /\ app' = [app EXCEPT ![t].pc = "idle"]
  /\ lost' = TRUE
  /\ UNCHANGED <<jobs, job_number, busy, display, begun, cancelled, chosen, raced>>

(* eink_job_commit() 311: the job joins the queue.                         *)
CommitEnd(t) ==
  /\ app[t].pc = "committing"
  /\ jobs' = [jobs EXCEPT ![app[t].slot].state = "WAITING"]
  /\ app' = [app EXCEPT ![t].pc = "idle"]
  /\ UNCHANGED <<job_number, busy, display, history>>

(* What a task has begun to draw, it goes on with.                         *)
Drawing(t) ==
  BeginTake(t) \/ AddPart(t) \/ Commit(t) \/ CommitInvalid(t) \/ CommitEnd(t)

Application(t) == BeginScan(t) \/ BeginBusy(t) \/ Drawing(t)

-----------------------------------------------------------------------------
(* eink_main_task() and the flush it runs every 10 ms.                     *)

StillRunning(s) ==
  [k \in PartNo |-> IF k <= NumParts(s) /\ jobs[s].running[k]
                    THEN jobs[s].lut[k] \in DOMAIN busy
                    ELSE jobs[s].running[k]]

(* Bug variant: the job is freed with its first finished part.             *)
CleanedUpEarly(s) ==
  IF jobs[s].state # "RUNNING" THEN jobs[s]
  ELSE LET still == StillRunning(s)
       IN  [jobs[s] EXCEPT !.running = still,
              !.state = IF \A k \in 1 .. NumParts(s) : still[k] THEN "RUNNING" ELSE "FREE"]

(* Bug variant: the parts that have finished keep their flag.              *)
CleanedUpNever(s) == jobs[s]

(* eink_job_cleanup_finished() *)
CleanedUp(s) ==
  IF jobs[s].state # "RUNNING" THEN jobs[s]
  ELSE LET still == StillRunning(s)
       IN  [jobs[s] EXCEPT !.running = still,
              !.state = IF \E k \in 1 .. NumParts(s) : still[k] THEN "RUNNING" ELSE "FREE"]

Cleanup ==
  /\ pc \in {"sleep", "cleanup"}
  /\ jobs' = [s \in Slot |-> CleanedUp(s)]
  /\ pc' = "find"
  /\ UNCHANGED <<job_number, busy, cur, index, app, history>>

(* Bug variant: a job is taken without a look at the LUTs left.            *)
EligibleWithoutLuts(s) ==
  /\ jobs[s].state = "WAITING"
  /\ \A k \in 1 .. NumParts(s) :
       IF jobs[s].parts[k].area
       THEN eink_job_find_conflicting_luts(s, k) = {}
       ELSE \A l \in Slot : jobs[l].state # "RUNNING"

(* eink_mgmt_find_runnable() *)
Eligible(s) ==
  /\ jobs[s].state = "WAITING"
  /\ NumParts(s) <= Cardinality(eink_find_free_luts)
  /\ \A k \in 1 .. NumParts(s) :
       IF jobs[s].parts[k].area
       THEN eink_job_find_conflicting_luts(s, k) = {}
       ELSE \A l \in Slot : jobs[l].state # "RUNNING"

Find ==
  /\ pc = "find"
  /\ \E s \in Slot :
       /\ Eligible(s)
       /\ \A j \in Slot : Eligible(j) => jobs[s].number <= jobs[j].number
       /\ cur' = s /\ chosen' = jobs[s].number
  /\ pc' = "execute"
  /\ UNCHANGED <<jobs, job_number, busy, index, app, begun, cancelled, lost, raced>>

(* Nothing can run: wait for the drawing engine and sleep for 10 ms.       *)
FindNone ==
  /\ pc = "find"
  /\ \A s \in Slot : ~ Eligible(s)
  /\ pc' = "sleep"
  /\ UNCHANGED <<jobs, job_number, busy, cur, index, app, history>>

(* Between the choice of a job and its execution the slot was given away.  *)
Stale ==
  IF jobs[cur].state = "WAITING" /\ jobs[cur].number = chosen THEN {} ELSE {"execute"}

(* eink_job_execute() 317-345: the n-th lowest free LUT for the n-th part. *)
NthLut(free, n) == CHOOSE l \in free : Cardinality({m \in free : m <= l}) = n

Execute ==
  LET free == eink_find_free_luts
  IN  /\ pc = "execute"
      /\ NumParts(cur) <= Cardinality(free)
      /\ jobs' = [jobs EXCEPT ![cur].state = "RUNNING",
           ![cur].lut = [k \in PartNo |-> IF k <= NumParts(cur) THEN NthLut(free, k) ELSE @[k]],
           ![cur].running = [k \in PartNo |-> k > NumParts(cur) /\ @[k]]]
      /\ index' = 1
      /\ pc' = "part"
      /\ chosen' = 0 /\ raced' = raced \cup Stale
      /\ UNCHANGED <<job_number, busy, cur, app, begun, cancelled, lost>>

(* eink_job_execute() 330-340: not enough LUTs, the job is dropped.        *)
ExecuteAbort ==
  LET free == eink_find_free_luts
      n    == Cardinality(free)
  IN  /\ pc = "execute"
      /\ NumParts(cur) > n
      /\ jobs' = [jobs EXCEPT ![cur].state = "FREE",
           ![cur].lut = [k \in PartNo |-> IF k <= n THEN NthLut(free, k) ELSE @[k]],
           ![cur].running = [k \in PartNo |-> k > n /\ @[k]]]
      /\ pc' = "cleanup"
      /\ lost' = TRUE
      /\ chosen' = 0 /\ raced' = raced \cup Stale
      /\ UNCHANGED <<job_number, busy, cur, index, app, begun, cancelled>>

(* eink_job_handle_part(): wait for the LUTs in the way, then draw.  The   *)
(* number of parts is read anew for each part.                             *)
HandlePart ==
  /\ pc = "part" /\ index <= NumParts(cur)
  /\ eink_job_find_conflicting_luts(cur, index) \cap DOMAIN busy = {}
  /\ LET p == jobs[cur].parts[index]
         l == jobs[cur].lut[index]
     IN  IF ~ p.area /\ p.mode = "INIT"
         THEN pc' = "init" /\ UNCHANGED busy
         ELSE /\ busy' = [m \in DOMAIN busy \cup {l} |-> IF m = l THEN p ELSE busy[m]]
              /\ UNCHANGED pc
  /\ jobs' = [jobs EXCEPT ![cur].running[index] = TRUE]
  /\ index' = index + 1
  /\ UNCHANGED <<job_number, cur, app, history>>

(* eink_wait_display_idle() after EINK_CMD_UPD_INIT.                       *)
InitDone ==
  /\ pc = "init" /\ DOMAIN busy = {}
  /\ pc' = "part"
  /\ UNCHANGED <<jobs, job_number, busy, cur, index, app, history>>

PartsDone ==
  /\ pc = "part" /\ index > NumParts(cur)
  /\ pc' = "cleanup"
  /\ UNCHANGED <<jobs, job_number, busy, cur, index, app, history>>

MainTask ==
  \/ Cleanup \/ Find \/ FindNone \/ Execute \/ ExecuteAbort
  \/ HandlePart \/ InitDone \/ PartsDone

(* External: a LUT has drawn its part.                                     *)
LutFinishes(l) ==
  /\ l \in DOMAIN busy
  /\ busy' = [m \in DOMAIN busy \ {l} |-> busy[m]]
  /\ UNCHANGED <<jobs, job_number, display, app, history>>

Next == (\E t \in Task : Application(t)) \/ MainTask \/ (\E l \in Lut : LutFinishes(l))

Spec == Init /\ [][Next]_vars

(* The tasks are scheduled again and again, and a LUT finishes.            *)
FairSpec ==
  /\ Spec
  /\ WF_vars(MainTask) /\ \A t \in Task : WF_vars(Drawing(t))
  /\ \A l \in Lut : WF_vars(LutFinishes(l))

-----------------------------------------------------------------------------
(* Two rectangles have a pixel in common; the full screen has all of them. *)
SharePixels(p, q) ==
  \/ ~ p.area \/ ~ q.area
  \/ /\ p.x < q.x + q.w /\ q.x < p.x + p.w
     /\ p.y < q.y + q.h /\ q.y < p.y + p.h

(* One is the upright and the other the crossbar of a plus sign.           *)
Spans(p, q) ==
  /\ p.x < q.x /\ q.x + q.w < p.x + p.w
  /\ q.y < p.y /\ p.y + p.h < q.y + q.h

Crossing(p, q) == p.area /\ q.area /\ (Spans(p, q) \/ Spans(q, p))

BothSpecial(p, q) == p.mode = "PART_SPECIAL" /\ q.mode = "PART_SPECIAL"

(* "No two running jobs may update the same pixels on the screen"          *)
(* (doc/eink-api.txt): what the controller draws at one time.              *)
NoSharedPixels ==
  \A l, m \in DOMAIN busy :
    l # m => ~ SharePixels(busy[l], busy[m]) \/ BothSpecial(busy[l], busy[m])

(* The two ways in which the same pixels are drawn twice at a time: a plus *)
(* sign, which eink_job_conflicts() overlooks, and a slot that changed     *)
(* hands while a task was about to use it.                                 *)
SharedPixelsCauses ==
  \A l, m \in DOMAIN busy :
    l # m /\ SharePixels(busy[l], busy[m])
      => BothSpecial(busy[l], busy[m]) \/ Crossing(busy[l], busy[m]) \/ raced # {}

(* Each LUT at work belongs to exactly one part that the queue knows to    *)
(* run, so that no LUT is started twice.                                   *)
LutOwned ==
  raced = {} => \A l \in DOMAIN busy : Cardinality({r \in Running : LutOf(r) = l}) = 1

(* "job_count_pending() only returns zero after all scheduled LUTs have    *)
(* finished operating and the corresponding jobs have been reaped"         *)
(* (eink.c 152-154), on which the controller is sent to standby.           *)
PendingZeroMeansIdle ==
  (\A s \in Slot : jobs[s].state = "FREE") => DOMAIN busy = {}

(* No cookie but 0 is used by two tasks (paint.c 412, ebook.c 196-211).    *)
CookiesApart ==
  \A t, u \in Task : t # u =>
    \A a \in Update[t], b \in Update[u] : a.cookie = b.cookie => a.cookie = NoCookie

(* A task that draws one thing under one cookie has one job of it queued,  *)
(* as long as no slot changes hands (eink_mgmt.c 301-309).                 *)
OneWaitingPerCookie ==
  \A s, j \in Slot :
    /\ s # j /\ jobs[s].state = "WAITING" /\ jobs[j].state = "WAITING"
    /\ jobs[s].cookie = jobs[j].cookie /\ jobs[s].cookie # NoCookie
    => raced # {}

(* "If there already is a job queued with that cookie this old job is      *)
(* canceled" (doc/eink-api.txt 31): it is drawn nevertheless only if it    *)
(* was cancelled, or its slot taken twice, in one of the two windows.      *)
CancelledDrawnIfRaced ==
  \A s \in Slot :
    jobs[s].state = "RUNNING" /\ jobs[s].number \in cancelled => raced # {}

(* An update that was given a slot is dropped only after a slot changed    *)
(* hands: the LUTs counted before a job is chosen are there when it runs.  *)
LostOnlyAfterRace == lost => raced # {}

(* No slot leaks: each one that was taken is free again some time later,   *)
(* drawn, dropped or cancelled, whatever the tasks do to each other.       *)
SlotsComeFree == \A s \in Slot : jobs[s].state # "FREE" ~> jobs[s].state = "FREE"
=============================================================================
