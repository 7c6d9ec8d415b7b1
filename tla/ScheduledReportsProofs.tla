---------------------- MODULE ScheduledReportsProofs ----------------------
(***************************************************************************)
(* Proofs about the delivery of scheduled reports, for any recipients,     *)
(* workers, runs and bounds: cancellations are final, and unless a tick    *)
(* outlives its lock at most one worker delivers.                          *)
(*                                                                         *)
(* The lock is a date in the schedule's row that everybody moves: the      *)
(* worker that finishes or fails, the owner who edits or resumes.  LockInv *)
(* says why no such move lets a second worker in: as long as one is past   *)
(* its claim, the date lies ahead or the schedule is off, and a request to *)
(* resume that would switch it on has seen as much or moves the date.      *)
(***************************************************************************)
EXTENDS ScheduledReports, TLAPS

\* A schedule is switched off by its last permitted failure, so a worker never
\* counts beyond it.
FailuresBelow ==
    /\ schedule.active => schedule.failures < MaxFailures
    /\ \A w \in Workers : worker[w].failures < MaxFailures

LockAhead == schedule.active => schedule.next > 0

\* What the owner's request has read still tells, or counts as overtaken.
ResumeHolds ==
    owner.at = "resuming" =>
       owner.due \/ schedule.next > 0 \/ (~owner.paused /\ ~schedule.active)
ResumeReadsPause == owner.at = "resuming" /\ owner.paused => ~schedule.active

LockInv ==
    ~overtaken =>
       /\ \A w \in Workers : worker[w].age = 0
       /\ \A w, x \in Claimed : w = x
       /\ Claimed # {} => LockAhead /\ ResumeHolds

IInv == TypeOK /\ FailuresBelow /\ LockInv /\ ResumeReadsPause

\* The values a worker computes from its own start are values of the types.
LEMMA Timers ==
    /\ 0 \in Timer /\ -MaxAge \in Timer /\ Period \in Timer
    /\ \A t \in Timer : Sooner(t) \in Timer
    /\ TypeOK => \A w \in Workers : In(w, 1) \in Timer /\ In(w, Period) \in Timer
<1>1. MaxAge \in Nat /\ Period \in Nat /\ Period > 1
  BY ConstantsAssumption
<1>2. 0 \in Timer /\ -MaxAge \in Timer /\ Period \in Timer /\ \A t \in Timer : Sooner(t) \in Timer
  BY <1>1 DEF Timer, Sooner
<1>3. ASSUME TypeOK, NEW w \in Workers PROVE In(w, 1) \in Timer /\ In(w, Period) \in Timer
  <2>1. worker[w].age \in 0..MaxAge
    BY <1>3 DEF TypeOK, Worker, Ages
  <2> QED BY <1>1, <2>1 DEF In, Timer
<1> QED BY <1>2, <1>3

LEMMA Idles == IdleWorker \in Worker /\ IdleOwner \in Owner /\ NoRow \in Row
<1>1. 0 \in 0..MaxFailures /\ 0 \in Ages /\ 0 \in Timer
  BY ConstantsAssumption, Timers DEF Ages
<1> QED BY <1>1 DEF IdleWorker, Worker, IdleOwner, Owner, NoRow, Row

LEMMA InitIInv == Init => IInv
<1> SUFFICES ASSUME Init PROVE IInv
  OBVIOUS
<1>1. 0 \in 0..MaxFailures /\ 0 \in Timer /\ 0 \in 0..MaxTroubles
  BY ConstantsAssumption, Timers
<1>2. schedule \in Schedule /\ schedule.failures = 0
  BY <1>1 DEF Init, Schedule
<1>3. TypeOK
  BY <1>1, <1>2, Idles DEF Init, TypeOK
<1>4. FailuresBelow
  BY <1>2, ConstantsAssumption DEF Init, FailuresBelow, IdleWorker
<1>5. LockInv /\ ResumeReadsPause
  BY DEF Init, LockInv, ResumeReadsPause, Claimed, IdleWorker, IdleOwner
<1> QED BY <1>3, <1>4, <1>5 DEF IInv

-----------------------------------------------------------------------------
(* Types, and the failures a schedule can count. *)

\* A step of one worker that changes its record as given.
LEMMA WorkerWrites ==
    ASSUME TypeOK, FailuresBelow, NEW w \in Workers, NEW e \in Worker,
           e.failures < MaxFailures, worker' = [worker EXCEPT ![w] = e]
    PROVE  /\ worker' \in [Workers -> Worker]
           /\ \A x \in Workers : worker'[x].failures < MaxFailures
BY DEF TypeOK, FailuresBelow

LEMMA EndsTyped ==
    ASSUME TypeOK, FailuresBelow, NEW w \in Workers, Ends(w)
    PROVE  /\ worker' \in [Workers -> Worker]
           /\ \A x \in Workers : worker'[x].failures < MaxFailures
<1>1. IdleWorker.failures < MaxFailures
  BY ConstantsAssumption DEF IdleWorker
<1> QED BY <1>1, Idles, WorkerWrites DEF Ends

LEMMA GoesTyped ==
    ASSUME TypeOK, FailuresBelow, NEW w \in Workers,
           NEW at \in {"finding", "creating", "sending", "claimed", "cleared", "handed",
                       "refused", "finalizing", "skipping", "closing"},
           Goes(w, at) \/ (at = "sending" /\ NextRow(w))
    PROVE  /\ worker' \in [Workers -> Worker]
           /\ \A x \in Workers : worker'[x].failures < MaxFailures
<1>1. worker[w] \in Worker
  BY DEF TypeOK
<1>2. CASE Goes(w, at)
  BY <1>1, <1>2 DEF TypeOK, FailuresBelow, Goes, Worker
<1>3. CASE at = "sending" /\ NextRow(w)
  BY <1>1, <1>3 DEF TypeOK, FailuresBelow, NextRow, Worker
<1> QED BY <1>2, <1>3

\* What a worker writes into the schedule.
LEMMA ScheduleWrites ==
    ASSUME TypeOK, FailuresBelow, NEW w \in Workers, NEW s,
           s = Recover(w) \/ s = FailureCounted(w) \/ s = [schedule EXCEPT !.next = In(w, 1)]
    PROVE  s \in Schedule /\ (s.active => schedule.active /\ s.failures < MaxFailures)
<1>1. schedule \in Schedule /\ worker[w].failures \in 0..MaxFailures /\ worker[w].failures < MaxFailures
  BY DEF TypeOK, FailuresBelow, Worker
<1>2. MaxFailures \in Nat \ {0} /\ worker[w].failures + 1 \in 0..MaxFailures
      /\ 0 \in 0..MaxFailures
  BY <1>1, ConstantsAssumption
<1>3. CASE s = Recover(w)
  <2>1. In(w, Period) \in Timer
    BY Timers
  <2>2. s = [schedule EXCEPT !.failures = 0, !.next = In(w, Period)]
    BY <1>3 DEF Recover
  <2>3. s \in Schedule /\ s.failures = 0 /\ s.active = schedule.active
    BY <1>1, <1>2, <2>1, <2>2 DEF Schedule
  <2> QED BY <1>2, <2>3
<1>4. CASE s = FailureCounted(w)
  <2>1. In(w, 1) \in Timer /\ -MaxAge \in Timer
    BY Timers
  <2> DEFINE n == worker[w].failures + 1
  <2>2. CASE n >= MaxFailures
    <3>1. s = [schedule EXCEPT !.failures = n, !.active = FALSE, !.next = -MaxAge]
      BY <1>4, <2>2 DEF FailureCounted
    <3>2. n \in 0..MaxFailures
      BY <1>2
    <3> HIDE DEF n
    <3> QED BY <1>1, <2>1, <3>1, <3>2 DEF Schedule
  <2>3. CASE ~(n >= MaxFailures)
    <3>1. s = [schedule EXCEPT !.failures = n, !.next = In(w, 1)]
      BY <1>4, <2>3 DEF FailureCounted
    <3>2. n \in 0..MaxFailures /\ n < MaxFailures
      BY <1>2, <2>3
    <3> HIDE DEF n
    <3> QED BY <1>1, <2>1, <3>1, <3>2 DEF Schedule
  <2> QED BY <2>2, <2>3
<1>5. CASE s = [schedule EXCEPT !.next = In(w, 1)]
  BY <1>1, <1>5, Timers DEF Schedule, FailuresBelow
<1> QED BY <1>3, <1>4, <1>5

LEMMA TroubleTyped ==
    ASSUME TypeOK, Trouble
    PROVE  troubles' \in 0..MaxTroubles
BY ConstantsAssumption DEF TypeOK, Trouble

\* What a worker, and the owner, writes into the rows and runs.
LEMMA RowWrites ==
    ASSUME TypeOK, NEW w \in Workers, NEW as \in {"sent", "failed", "suppressed"},
           NEW timer \in Timer, Mark(w, as, timer)
    PROVE  rows' \in [Runs -> [Recipients -> Row]]
<1> DEFINE mark == [status |-> as, timer |-> timer]
<1>1. mark \in Row
  BY DEF Row
<1> HIDE DEF mark
<1>2. rows' = rows \/ rows' = [rows EXCEPT ![worker[w].run][worker[w].row] = mark]
  BY DEF Mark, mark
<1>3. CASE worker[w].run \in Runs
  <2>1. [rows[worker[w].run] EXCEPT ![worker[w].row] = mark] \in [Recipients -> Row]
    BY <1>1, <1>3 DEF TypeOK
  <2> QED BY <1>2, <2>1 DEF TypeOK
<1>4. CASE worker[w].run \notin Runs
  BY <1>2, <1>4 DEF TypeOK
<1> QED BY <1>3, <1>4

LEMMA CancelWrites ==
    ASSUME TypeOK, CancelUnfinished
    PROVE  /\ rows' \in [Runs -> [Recipients -> Row]]
           /\ status' \in [Runs -> Incomplete \cup {"none", "sent", "cancelled"}]
<1> DEFINE cancelled == [status |-> "cancelled", timer |-> 0]
           entry(u, r) == IF rows[u][r].status \in {"pending", "sending", "failed"}
                          THEN cancelled ELSE rows[u][r]
<1>1. \A u \in Runs, r \in Recipients : entry(u, r) \in Row
  <2>1. cancelled \in Row
    BY Timers DEF Row
  <2> HIDE DEF cancelled
  <2> QED BY <2>1 DEF TypeOK
<1>2. rows' \in [Runs -> [Recipients -> Row]]
  <2>1. rows' = [u \in Runs |-> [r \in Recipients |-> entry(u, r)]]
    BY DEF CancelUnfinished
  <2> HIDE DEF entry
  <2> QED BY <1>1, <2>1, Zenon
<1> QED BY <1>2 DEF CancelUnfinished, TypeOK

\* The tick until the run is found.
LEMMA ClaimTypes ==
    ASSUME TypeOK, FailuresBelow, NEW w \in Workers,
           Select(w) \/ ClaimSchedule(w) \/ FindRun(w)
    PROVE  TypeOK' /\ FailuresBelow'
<1> DEFINE WorkersTyped == /\ worker' \in [Workers -> Worker]
                          /\ \A x \in Workers : worker'[x].failures < MaxFailures
<1>1. CASE Select(w)
  <2> DEFINE e == [IdleWorker EXCEPT !.at = "selected", !.recipients = schedule.recipients,
                                     !.failures = schedule.failures]
  <2>1. schedule \in Schedule
    BY DEF TypeOK
  <2>2. e \in Worker /\ e.failures < MaxFailures
    BY <1>1, <2>1, Idles DEF Select, FailuresBelow, Schedule, Lists, Worker, IdleWorker
  <2>3. worker' = [worker EXCEPT ![w] = e]
    BY <1>1 DEF Select
  <2> HIDE DEF e
  <2>4. WorkersTyped
    BY <2>2, <2>3, WorkerWrites
  <2> QED BY <1>1, <2>4 DEF Select, TypeOK, FailuresBelow
<1>2. CASE ClaimSchedule(w)
  <2>1. WorkersTyped
    BY <1>2, EndsTyped, GoesTyped DEF ClaimSchedule
  <2>2. schedule' = schedule \/ schedule' = [schedule EXCEPT !.next = In(w, 1)]
    BY <1>2 DEF ClaimSchedule
  <2>3. schedule' \in Schedule /\ (schedule'.active => schedule'.failures < MaxFailures)
    BY <2>2, ScheduleWrites DEF TypeOK, FailuresBelow
  <2> QED BY <1>2, <2>1, <2>3 DEF ClaimSchedule, TypeOK, FailuresBelow
<1>3. CASE FindRun(w)
  <2>1. worker[w] \in Worker
    BY DEF TypeOK
  <2>2. CASE Retryable(w) = {}
    <3>1. WorkersTyped
      BY <1>3, <2>2, GoesTyped DEF FindRun
    <3> QED BY <1>3, <3>1 DEF FindRun, TypeOK, FailuresBelow
  <2>3. CASE Retryable(w) # {}
    <3>1. PICK u \in Runs : worker' = [worker EXCEPT ![w].at = "sending", ![w].run = u,
                                        ![w].recipients = {}, ![w].todo = DueRows(w, u)]
      BY <1>3, <2>3 DEF FindRun, Newest, Retryable
    <3>2. DueRows(w, u) \subseteq Recipients
      BY DEF DueRows
    <3> HIDE DEF DueRows
    <3>3. WorkersTyped
      BY <2>1, <3>1, <3>2 DEF TypeOK, FailuresBelow, Worker
    <3> QED BY <1>3, <3>3 DEF FindRun, TypeOK, FailuresBelow
  <2> QED BY <2>2, <2>3
<1> QED BY <1>1, <1>2, <1>3

LEMMA RunTypes ==
    ASSUME TypeOK, FailuresBelow, NEW w \in Workers, CreateRun(w) \/ SkipReport(w)
    PROVE  TypeOK' /\ FailuresBelow'
<1>1. CASE CreateRun(w)
  <2>1. PICK u \in Runs, eligible \in SUBSET worker[w].recipients :
           /\ status' = [status EXCEPT ![u] = "processing"]
           /\ older' = [v \in Runs |-> IF v = u THEN Runs \ {u} ELSE older[v] \ {u}]
           /\ rows' = [rows EXCEPT ![u] = [r \in Recipients |->
                         IF r \notin worker[w].recipients THEN NoRow
                         ELSE [status |-> IF r \in eligible THEN "pending" ELSE "suppressed",
                               timer |-> 0]]]
           /\ worker' = [worker EXCEPT ![w].at = "sending", ![w].run = u,
                                       ![w].recipients = {}, ![w].todo = eligible]
    BY <1>1 DEF CreateRun
  <2>2. worker[w] \in Worker /\ eligible \subseteq Recipients
    BY DEF TypeOK, Worker
  <2>3. /\ worker' \in [Workers -> Worker]
        /\ \A x \in Workers : worker'[x].failures < MaxFailures
    BY <2>1, <2>2 DEF TypeOK, FailuresBelow, Worker
  <2>4. \A as \in {"pending", "suppressed"} : [status |-> as, timer |-> 0] \in Row
    BY Timers DEF Row
  <2>5. rows' \in [Runs -> [Recipients -> Row]]
    <3>1. [r \in Recipients |->
             IF r \notin worker[w].recipients THEN NoRow
             ELSE [status |-> IF r \in eligible THEN "pending" ELSE "suppressed",
                   timer |-> 0]] \in [Recipients -> Row]
      BY <2>4, Idles
    <3> QED BY <2>1, <3>1 DEF TypeOK
  <2>6. status' \in [Runs -> Incomplete \cup {"none", "sent", "cancelled"}]
        /\ older' \in [Runs -> SUBSET Runs]
    BY <2>1 DEF TypeOK, Incomplete
  <2> QED BY <1>1, <2>3, <2>5, <2>6 DEF CreateRun, TypeOK, FailuresBelow
<1>2. CASE SkipReport(w)
  <2>1. schedule' \in Schedule /\ (schedule'.active => schedule'.failures < MaxFailures)
    BY <1>2, ScheduleWrites DEF SkipReport, TypeOK, FailuresBelow
  <2> QED BY <1>2, <2>1, EndsTyped DEF SkipReport, TypeOK, FailuresBelow
<1> QED BY <1>1, <1>2

\* The deliveries.
LEMMA SendTypes ==
    ASSUME TypeOK, FailuresBelow, NEW w \in Workers,
           \/ ClaimRow(w) \/ CheckRow(w) \/ Suppress(w) \/ Deliver(w) \/ MarkDelivery(w)
    PROVE  TypeOK' /\ FailuresBelow'
<1>1. CASE ClaimRow(w)
  <2>1. PICK r \in worker[w].todo :
           \/ /\ rows' = [rows EXCEPT ![worker[w].run][r] =
                              [status |-> "sending", timer |-> In(w, 1)]]
              /\ worker' = [worker EXCEPT ![w].at = "claimed", ![w].row = r, ![w].todo = @ \ {r}]
           \/ /\ worker' = [worker EXCEPT ![w].todo = @ \ {r}]
              /\ UNCHANGED rows
    BY <1>1 DEF ClaimRow
  <2>2. worker[w] \in Worker /\ r \in Recipients
    BY DEF TypeOK, Worker
  <2>3. /\ worker' \in [Workers -> Worker]
        /\ \A x \in Workers : worker'[x].failures < MaxFailures
    <3>1. CASE worker' = [worker EXCEPT ![w].at = "claimed", ![w].row = r, ![w].todo = @ \ {r}]
      BY <2>2, <3>1 DEF TypeOK, FailuresBelow, Worker
    <3>2. CASE worker' = [worker EXCEPT ![w].todo = @ \ {r}]
      BY <2>2, <3>2 DEF TypeOK, FailuresBelow, Worker
    <3> QED BY <2>1, <3>1, <3>2
  <2>4. rows' \in [Runs -> [Recipients -> Row]]
    <3>1. [status |-> "sending", timer |-> In(w, 1)] \in Row
      BY Timers DEF Row
    <3> QED BY <2>1, <3>1 DEF TypeOK
  <2> QED BY <1>1, <2>3, <2>4 DEF ClaimRow, TypeOK, FailuresBelow
<1>2. CASE CheckRow(w) \/ Deliver(w)
  BY <1>2, GoesTyped DEF CheckRow, Deliver, TypeOK, FailuresBelow
<1>3. CASE Suppress(w) \/ MarkDelivery(w)
  <2>1. rows' \in [Runs -> [Recipients -> Row]]
    BY <1>3, RowWrites, Timers DEF Suppress, MarkDelivery
  <2> QED BY <1>3, <2>1, GoesTyped DEF Suppress, MarkDelivery, TypeOK, FailuresBelow
<1> QED BY <1>1, <1>2, <1>3

\* The end of a run.
LEMMA CloseTypes ==
    ASSUME TypeOK, FailuresBelow, NEW w \in Workers,
           ReadRun(w) \/ Finalize(w) \/ CloseRun(w) \/ Throw(w) \/ Crash(w)
    PROVE  TypeOK' /\ FailuresBelow'
<1> DEFINE Statuses == Incomplete \cup {"none", "sent", "cancelled"}
<1>1. CASE ReadRun(w)
  <2>1. \/ Ends(w)
        \/ \E as \in {"failed", "partial_failed", "sent", "cancelled"} :
              worker' = [worker EXCEPT ![w].at = "finalizing", ![w].seen = as]
    BY <1>1 DEF ReadRun
  <2>2. worker[w] \in Worker
    BY DEF TypeOK
  <2>3. /\ worker' \in [Workers -> Worker]
        /\ \A x \in Workers : worker'[x].failures < MaxFailures
    <3>1. CASE Ends(w)
      BY <3>1, EndsTyped
    <3>2. CASE ~Ends(w)
      <4>1. PICK as \in {"failed", "partial_failed", "sent", "cancelled"} :
              worker' = [worker EXCEPT ![w] = [worker[w] EXCEPT !.at = "finalizing", !.seen = as]]
        BY <2>1, <3>2
      <4>2. [worker[w] EXCEPT !.at = "finalizing", !.seen = as] \in Worker
        BY <2>2 DEF Worker
      <4>3. [worker[w] EXCEPT !.at = "finalizing", !.seen = as].failures = worker[w].failures
        BY <2>2 DEF Worker
      <4> QED BY <4>1, <4>2, <4>3, WorkerWrites DEF FailuresBelow
    <3> QED BY <3>1, <3>2
  <2> QED BY <1>1, <2>3 DEF ReadRun, TypeOK, FailuresBelow
<1>2. CASE Finalize(w) \/ CloseRun(w)
  <2>1. status' \in [Runs -> Statuses]
    <3>1. worker[w].seen \in Statuses
      BY DEF TypeOK, Worker, Incomplete
    <3>2. \E as \in Statuses : CloseAs(w, as) \/ UNCHANGED status
      BY <1>2, <3>1 DEF Finalize, CloseRun
    <3> QED BY <3>2 DEF CloseAs, TypeOK
  <2>2. schedule' \in Schedule /\ (schedule'.active => schedule'.failures < MaxFailures)
    BY <1>2, ScheduleWrites DEF Finalize, CloseRun, TypeOK, FailuresBelow
  <2>3. /\ worker' \in [Workers -> Worker]
        /\ \A x \in Workers : worker'[x].failures < MaxFailures
    BY <1>2, EndsTyped, GoesTyped DEF Finalize, CloseRun
  <2> QED BY <1>2, <2>1, <2>2, <2>3 DEF Finalize, CloseRun, TypeOK, FailuresBelow
<1>3. CASE Throw(w)
  <2>1. schedule' \in Schedule /\ (schedule'.active => schedule'.failures < MaxFailures)
    BY <1>3, ScheduleWrites DEF Throw, TypeOK, FailuresBelow
  <2> QED BY <1>3, <2>1, EndsTyped DEF Throw, TypeOK, FailuresBelow
<1>4. CASE Crash(w)
  <2>1. troubles' \in 0..MaxTroubles
    BY <1>4, TroubleTyped DEF Crash
  <2> QED BY <1>4, <2>1, EndsTyped DEF Crash, TypeOK, FailuresBelow
<1> QED BY <1>1, <1>2, <1>3, <1>4

\* The owner, and time.
LEMMA OwnerTypes ==
    ASSUME TypeOK, FailuresBelow, Edit \/ Pause \/ ReadSchedule \/ Resume
    PROVE  TypeOK' /\ FailuresBelow'
<1>1. schedule \in Schedule /\ 0 \in 0..MaxFailures /\ 0 < MaxFailures /\ Period \in Timer
  BY ConstantsAssumption, Timers DEF TypeOK
<1>2. schedule' \in Schedule /\ (schedule'.active => schedule'.failures < MaxFailures)
  <2>1. CASE Edit
    <3>1. PICK list \in Lists, next \in {schedule.next, Period} :
            schedule' = [schedule EXCEPT !.recipients = list, !.next = next, !.failures = 0]
      BY <2>1 DEF Edit
    <3>2. next \in Timer
      BY <1>1 DEF Schedule
    <3> QED BY <1>1, <3>1, <3>2 DEF Schedule
  <2>2. CASE Pause
    BY <1>1, <2>2 DEF Pause, Schedule
  <2>3. CASE Resume
    BY <1>1, <2>3 DEF Resume, Schedule
  <2>4. CASE ReadSchedule
    BY <1>1, <2>4 DEF ReadSchedule, FailuresBelow
  <2> QED BY <2>1, <2>2, <2>3, <2>4
<1>3. /\ rows' \in [Runs -> [Recipients -> Row]]
      /\ status' \in [Runs -> Incomplete \cup {"none", "sent", "cancelled"}]
  BY CancelWrites DEF Edit, Pause, ReadSchedule, Resume, TypeOK
<1>4. owner' \in Owner
  <2>1. [at |-> "resuming", paused |-> ~schedule.active, due |-> schedule.next <= 0] \in Owner
    BY DEF Owner
  <2> QED BY <2>1, Idles DEF Edit, Pause, ReadSchedule, Resume, TypeOK
<1>5. overtaken' \in BOOLEAN
  <2>1. (overtaken \/ owner.paused = schedule.active) \in BOOLEAN
    OBVIOUS
  <2> QED BY <2>1 DEF Edit, Pause, ReadSchedule, Resume, TypeOK
<1>7. troubles' \in 0..MaxTroubles
  BY TroubleTyped DEF Edit, Pause, ReadSchedule, Resume, TypeOK
<1>6. UNCHANGED <<older, worker>>
  BY DEF Edit, Pause, ReadSchedule, Resume
<1> QED BY <1>2, <1>3, <1>4, <1>5, <1>6, <1>7 DEF TypeOK, FailuresBelow

LEMMA WaitTypes ==
    ASSUME TypeOK, FailuresBelow, Wait
    PROVE  TypeOK' /\ FailuresBelow'
<1>1. schedule' \in Schedule /\ (schedule'.active => schedule'.failures < MaxFailures)
  <2>1. schedule' = [schedule EXCEPT !.next = Sooner(schedule.next)]
    BY DEF Wait
  <2>2. schedule \in Schedule
    BY DEF TypeOK
  <2>3. schedule.next \in Timer /\ Sooner(schedule.next) \in Timer
    BY <2>2, Timers DEF Schedule
  <2> QED BY <2>1, <2>2, <2>3 DEF FailuresBelow, Schedule
<1>2. rows' \in [Runs -> [Recipients -> Row]]
  <2> DEFINE entry(u, r) == IF rows[u][r].status \in {"sending", "failed"}
                            THEN [rows[u][r] EXCEPT !.timer = Sooner(@)]
                            ELSE rows[u][r]
  <2>1. \A u \in Runs, r \in Recipients : entry(u, r) \in Row
    <3> SUFFICES ASSUME NEW u \in Runs, NEW r \in Recipients PROVE entry(u, r) \in Row
      OBVIOUS
    <3>1. rows[u][r] \in Row
      BY DEF TypeOK
    <3>2. Sooner(rows[u][r].timer) \in Timer
      BY <3>1, Timers DEF Row
    <3> QED BY <3>1, <3>2 DEF Row
  <2>2. rows' = [u \in Runs |-> [r \in Recipients |-> entry(u, r)]]
    BY DEF Wait
  <2> HIDE DEF entry
  <2> QED BY <2>1, <2>2
<1>3. /\ worker' \in [Workers -> Worker]
      /\ \A w \in Workers : worker'[w].failures < MaxFailures
  <2>1. ASSUME NEW w \in Workers PROVE worker'[w] \in Worker /\ worker'[w].failures = worker[w].failures
    <3>1. worker[w] \in Worker
      BY DEF TypeOK
    <3>2. CASE w \in Working
      <4>1. worker[w].age + 1 \in Ages
        BY <3>1, <3>2, ConstantsAssumption DEF Wait, Worker, Ages
      <4>2. worker'[w] = [worker[w] EXCEPT !.age = worker[w].age + 1]
        BY <3>2 DEF Wait
      <4> QED BY <3>1, <4>1, <4>2 DEF Worker
    <3>3. CASE w \notin Working
      BY <3>1, <3>3 DEF Wait
    <3> QED BY <3>2, <3>3
  <2>2. worker' = [w \in Workers |-> worker'[w]]
    BY DEF Wait
  <2> QED BY <2>1, <2>2 DEF FailuresBelow
<1>4. overtaken' \in BOOLEAN /\ troubles' \in 0..MaxTroubles
  BY TroubleTyped DEF Wait, TypeOK
<1> QED BY <1>1, <1>2, <1>3, <1>4 DEF Wait, TypeOK, FailuresBelow

LEMMA StepTypes ==
    ASSUME TypeOK, FailuresBelow, [Next]_vars
    PROVE  TypeOK' /\ FailuresBelow'
<1>1. ASSUME NEW w \in Workers, Step(w) \/ Throw(w) \/ Crash(w) PROVE TypeOK' /\ FailuresBelow'
  BY <1>1, ClaimTypes, RunTypes, SendTypes, CloseTypes DEF Step
<1>2. CASE UNCHANGED vars
  BY <1>2 DEF vars, TypeOK, FailuresBelow
<1> QED BY <1>1, <1>2, OwnerTypes, WaitTypes DEF Next

-----------------------------------------------------------------------------
(* The lock. *)

\* A worker past its claim keeps others out, whatever it writes: the next report,
\* a retry one lock ahead, or the end of the schedule.
LEMMA DeliveryKeepsLock ==
    ASSUME IInv, NEW w \in Claimed, UNCHANGED <<owner, overtaken>>,
           Claimed' \subseteq Claimed,
           \A x \in Workers : worker'[x].age \in {worker[x].age, 0},
           \/ UNCHANGED schedule
           \/ schedule' = Recover(w)
           \/ schedule.active /\ schedule' = FailureCounted(w)
    PROVE  LockInv' /\ ResumeReadsPause'
<1>1. schedule \in Schedule /\ w \in Workers /\ Period > 1 /\ Period \in Nat
  BY ConstantsAssumption DEF IInv, TypeOK, Claimed
<1>2. schedule'.active => schedule.active
  BY <1>1 DEF Recover, FailureCounted, Schedule
<1>3. ASSUME ~overtaken
      PROVE  LockAhead' /\ ResumeHolds'
  <2>1. worker[w].age = 0 /\ LockAhead /\ ResumeHolds
    BY <1>1, <1>3 DEF IInv, LockInv
  <2>2. CASE UNCHANGED schedule
    BY <2>1, <2>2 DEF LockAhead, ResumeHolds
  <2>3. CASE schedule' = Recover(w)
    BY <1>1, <2>1, <2>3 DEF LockAhead, ResumeHolds, Recover, In, Schedule
  <2>4. CASE schedule.active /\ schedule' = FailureCounted(w)
    <3>1. owner.at = "resuming" => ~owner.paused
      BY <2>4 DEF IInv, ResumeReadsPause
    <3>2. schedule'.next = 1 \/ ~schedule'.active
      BY <1>1, <2>1, <2>4 DEF FailureCounted, In, Schedule
    <3> QED BY <3>1, <3>2 DEF LockAhead, ResumeHolds
  <2> QED BY <2>2, <2>3, <2>4
<1>4. LockInv'
  BY <1>3 DEF IInv, LockInv
<1>5. ResumeReadsPause'
  BY <1>2 DEF IInv, ResumeReadsPause
<1> QED BY <1>4, <1>5

\* Whose record a step of w changes.
LEMMA OneWorkerMoves ==
    ASSUME TypeOK, NEW w \in Workers, Step(w) \/ Throw(w) \/ Crash(w)
    PROVE  /\ \A x \in Workers \ {w} : worker'[x] = worker[x]
           /\ worker'[w].age \in {worker[w].age, 0}
<1> DEFINE Moved == /\ \A x \in Workers \ {w} : worker'[x] = worker[x]
                   /\ worker'[w].age \in {worker[w].age, 0}
<1>1. worker \in [Workers -> Worker] /\ worker[w] \in Worker
  BY DEF TypeOK
<1>2. ASSUME Ends(w) PROVE Moved
  <2>1. IdleWorker.age = 0
    BY DEF IdleWorker
  <2> QED BY <1>1, <1>2, <2>1 DEF Ends
<1>3. ASSUME NEW at, Goes(w, at) PROVE Moved
  <2>1. [worker[w] EXCEPT !.at = at].age = worker[w].age
    BY <1>1 DEF Worker
  <2> QED BY <1>1, <1>3, <2>1 DEF Goes
<1>4. ASSUME NextRow(w) PROVE Moved
  <2>1. [worker[w] EXCEPT !.at = "sending", !.row = NoOne].age = worker[w].age
    BY <1>1 DEF Worker
  <2> QED BY <1>1, <1>4, <2>1 DEF NextRow
<1>5. ASSUME Select(w) PROVE Moved
  <2> DEFINE e == [IdleWorker EXCEPT !.at = "selected", !.recipients = schedule.recipients,
                                     !.failures = schedule.failures]
  <2>1. e.age = 0
    BY DEF IdleWorker
  <2>2. worker' = [worker EXCEPT ![w] = e]
    BY <1>5 DEF Select
  <2> QED BY <1>1, <2>1, <2>2
<1>6. ASSUME FindRun(w) \/ CreateRun(w), ~Goes(w, "creating") PROVE Moved
  <2>1. PICK u, todo : worker' = [worker EXCEPT ![w].at = "sending", ![w].run = u,
                                               ![w].recipients = {}, ![w].todo = todo]
    BY <1>6 DEF FindRun, CreateRun
  <2> QED BY <1>1, <2>1 DEF Worker
<1>7. ASSUME ClaimRow(w) PROVE Moved
  <2>1. PICK r : \/ worker' = [worker EXCEPT ![w] =
                        [worker[w] EXCEPT !.at = "claimed", !.row = r, !.todo = @ \ {r}]]
                \/ worker' = [worker EXCEPT ![w] = [worker[w] EXCEPT !.todo = @ \ {r}]]
    BY <1>7 DEF ClaimRow
  <2>2. /\ [worker[w] EXCEPT !.at = "claimed", !.row = r, !.todo = @ \ {r}].age = worker[w].age
        /\ [worker[w] EXCEPT !.todo = @ \ {r}].age = worker[w].age
    BY <1>1 DEF Worker
  <2> QED BY <1>1, <2>1, <2>2
<1>8. ASSUME ReadRun(w), ~Ends(w) PROVE Moved
  <2>1. PICK as : worker' = [worker EXCEPT ![w] = [worker[w] EXCEPT !.at = "finalizing", !.seen = as]]
    BY <1>8 DEF ReadRun
  <2>2. [worker[w] EXCEPT !.at = "finalizing", !.seen = as].age = worker[w].age
    BY <1>1 DEF Worker
  <2> QED BY <1>1, <2>1, <2>2
<1>9. ASSUME ~Moved PROVE FALSE
  <2> HIDE DEF Moved
  <2>1. /\ ~Ends(w) /\ ~NextRow(w) /\ \A at : ~Goes(w, at)
        /\ ~Select(w) /\ ~FindRun(w) /\ ~CreateRun(w) /\ ~ClaimRow(w) /\ ~ReadRun(w)
    BY <1>2, <1>3, <1>4, <1>5, <1>6, <1>7, <1>8, <1>9
  <2> QED BY <2>1 DEF Step, ClaimSchedule, SkipReport, CheckRow, Suppress, Deliver, MarkDelivery,
                      Finalize, CloseRun, Throw, Crash
<1> QED BY <1>1, <1>9

LEMMA WorkerLock ==
    ASSUME IInv, NEW w \in Workers, Step(w) \/ Throw(w) \/ Crash(w)
    PROVE  LockInv' /\ ResumeReadsPause'
<1>1. /\ \A x \in Workers \ {w} : worker'[x] = worker[x]
      /\ \A x \in Workers : worker'[x].age \in {worker[x].age, 0}
  BY OneWorkerMoves DEF IInv
<1>2. UNCHANGED <<owner, overtaken>>
  BY DEF Step, Select, ClaimSchedule, FindRun, CreateRun, SkipReport, ClaimRow, CheckRow, Suppress,
         Deliver, MarkDelivery, ReadRun, Finalize, CloseRun, Throw, Crash
<1>3. CASE w \in Claimed
  <2>1. Claimed' \subseteq Claimed
    BY <1>1, <1>3 DEF Claimed
  <2>2. \/ UNCHANGED schedule
        \/ schedule' = Recover(w)
        \/ schedule.active /\ schedule' = FailureCounted(w)
    BY <1>3
       DEF Claimed, Step, Select, ClaimSchedule, FindRun, CreateRun, SkipReport, ClaimRow, CheckRow,
           Suppress, Deliver, MarkDelivery, ReadRun, Finalize, CloseRun, Throw, Crash
  <2> QED BY <1>1, <1>2, <1>3, <2>1, <2>2, DeliveryKeepsLock
<1>4. CASE w \notin Claimed
  <2>1. worker[w].at \in {"idle", "selected"}
    BY <1>4 DEF Claimed
  <2>2. CASE ClaimSchedule(w) /\ Claimable(w)
    <3>1. schedule \in Schedule /\ worker[w] \in Worker
      BY DEF IInv, TypeOK
    <3>2. /\ schedule.active /\ schedule.next <= -worker[w].age
          /\ schedule' = [schedule EXCEPT !.next = 1 - worker[w].age]
      BY <2>2 DEF ClaimSchedule, Claimable, Passed, In
    <3>3. ASSUME ~overtaken
          PROVE  Claimed = {} /\ schedule'.next = 1
      <4>1. worker[w].age = 0
        BY <3>3 DEF IInv, LockInv
      <4>2. schedule.next <= 0 /\ schedule.next \in Int
        BY <3>1, <3>2, <4>1, ConstantsAssumption DEF Schedule, Timer
      <4>3. Claimed = {}
        BY <3>2, <3>3, <4>2 DEF IInv, LockInv, LockAhead
      <4> QED BY <3>1, <3>2, <4>1, <4>3 DEF Schedule
    <3>4. Claimed' \subseteq Claimed \cup {w}
      BY <1>1 DEF Claimed
    <3>5. LockInv'
      BY <1>1, <1>2, <3>3, <3>4 DEF IInv, LockInv, LockAhead, ResumeHolds
    <3>6. schedule'.active = schedule.active
      BY <3>1, <3>2 DEF Schedule
    <3> QED BY <1>2, <3>5, <3>6 DEF IInv, ResumeReadsPause
  <2>3. CASE ~(ClaimSchedule(w) /\ Claimable(w))
    <3>1. UNCHANGED schedule /\ worker'[w].at \in {"idle", "selected"}
      <4>1. (Ends(w) /\ UNCHANGED schedule) \/ Select(w)
        BY <2>1, <2>3
           DEF Step, Select, ClaimSchedule, FindRun, CreateRun, SkipReport, ClaimRow, CheckRow,
               Suppress, Deliver, MarkDelivery, ReadRun, Finalize, CloseRun, Throw, Crash
      <4>2. ASSUME Select(w) PROVE worker'[w].at = "selected" /\ UNCHANGED schedule
        <5>1. [IdleWorker EXCEPT !.at = "selected", !.recipients = schedule.recipients,
                                 !.failures = schedule.failures].at = "selected"
          BY DEF IdleWorker
        <5> QED BY <4>2, <5>1 DEF Select, IInv, TypeOK
      <4>3. ASSUME Ends(w) PROVE worker'[w].at = "idle"
        BY <4>3 DEF Ends, IdleWorker, IInv, TypeOK
      <4> QED BY <4>1, <4>2, <4>3
    <3>2. Claimed' = Claimed
      BY <1>1, <1>4, <3>1 DEF Claimed
    <3> QED BY <1>1, <1>2, <3>1, <3>2
            DEF IInv, LockInv, LockAhead, ResumeHolds, ResumeReadsPause
  <2> QED BY <2>2, <2>3
<1> QED BY <1>3, <1>4

LEMMA OwnerLock ==
    ASSUME IInv, Edit \/ Pause \/ ReadSchedule \/ Resume
    PROVE  LockInv' /\ ResumeReadsPause'
<1>1. schedule \in Schedule /\ owner \in Owner /\ Period > 1 /\ Period \in Nat
  BY ConstantsAssumption DEF IInv, TypeOK
<1>2. UNCHANGED worker /\ Claimed' = Claimed
  BY DEF Edit, Pause, ReadSchedule, Resume, Claimed
<1>3. CASE Edit
  <2>1. schedule'.active = schedule.active /\ schedule'.next \in {schedule.next, Period}
    BY <1>1, <1>3 DEF Edit, Schedule
  <2>2. LockAhead => LockAhead'
    BY <1>1, <2>1 DEF LockAhead
  <2>3. UNCHANGED <<owner, overtaken>>
    BY <1>3 DEF Edit
  <2>4. ResumeHolds => ResumeHolds'
    BY <1>1, <2>1, <2>3 DEF ResumeHolds
  <2>5. ResumeReadsPause'
    BY <2>1, <2>3 DEF IInv, ResumeReadsPause
  <2> QED BY <1>2, <2>2, <2>3, <2>4, <2>5 DEF IInv, LockInv
<1>4. CASE Pause
  <2>1. ~schedule'.active /\ schedule'.next = schedule.next
    BY <1>1, <1>4 DEF Pause, Schedule
  <2>2. UNCHANGED <<owner, overtaken>>
    BY <1>4 DEF Pause
  <2>3. LockAhead' /\ ResumeReadsPause' /\ (ResumeHolds => ResumeHolds')
    BY <2>1, <2>2 DEF LockAhead, ResumeReadsPause, ResumeHolds
  <2> QED BY <1>2, <2>2, <2>3 DEF IInv, LockInv
<1>5. CASE ReadSchedule
  <2>1. schedule.next \in Int
    BY <1>1, ConstantsAssumption DEF Schedule, Timer
  <2>2. UNCHANGED <<schedule, overtaken>> /\ (owner'.paused <=> ~schedule.active)
        /\ (owner'.due <=> schedule.next <= 0)
    BY <1>5 DEF ReadSchedule
  <2>3. ResumeReadsPause' /\ (LockAhead => LockAhead')
    BY <2>2 DEF LockAhead, ResumeReadsPause
  <2>4. owner'.due \/ schedule'.next > 0
    BY <2>1, <2>2
  <2>5. ResumeHolds'
    BY <2>4 DEF ResumeHolds
  <2> QED BY <1>2, <2>2, <2>3, <2>5 DEF IInv, LockInv
<1>6. CASE Resume
  <2>1. schedule'.next = IF owner.due THEN Period ELSE schedule.next
    BY <1>1, <1>6 DEF Resume, Schedule
  <2>2. owner'.at = "idle" /\ owner.at = "resuming"
    BY <1>6 DEF Resume, IdleOwner
  <2>3. ASSUME ~overtaken', Claimed # {} PROVE ~overtaken /\ LockAhead'
    <3>1. ~overtaken /\ owner.paused # schedule.active
      BY <1>6, <2>3 DEF Resume
    <3>2. ResumeHolds
      BY <2>3, <3>1 DEF IInv, LockInv
    <3>3. owner.due \/ schedule.next > 0
      BY <1>1, <2>2, <3>1, <3>2 DEF ResumeHolds, Owner, Schedule
    <3> QED BY <1>1, <2>1, <3>1, <3>3 DEF LockAhead
  <2>4. ~overtaken' => ~overtaken
    BY <1>6 DEF Resume
  <2> QED BY <1>2, <2>2, <2>3, <2>4 DEF IInv, LockInv, ResumeHolds, ResumeReadsPause
<1> QED BY <1>3, <1>4, <1>5, <1>6

LEMMA WaitLock ==
    ASSUME IInv, Wait
    PROVE  LockInv' /\ ResumeReadsPause'
<1>1. schedule'.active = schedule.active /\ UNCHANGED owner
  BY DEF Wait, IInv, TypeOK, Schedule
<1>2. CASE Working = {}
  <2>1. \A w \in Workers : worker'[w] = worker[w] /\ worker[w].at = "idle"
    BY <1>2 DEF Wait, Working
  <2>2. Claimed' = {} /\ (overtaken' <=> overtaken)
    BY <1>2, <2>1 DEF Wait, Claimed
  <2> QED BY <1>1, <2>1, <2>2 DEF IInv, LockInv, ResumeReadsPause
<1>3. CASE Working # {}
  BY <1>1, <1>3 DEF Wait, IInv, LockInv, ResumeReadsPause
<1> QED BY <1>2, <1>3

LEMMA StepIInv == IInv /\ [Next]_vars => IInv'
<1> SUFFICES ASSUME IInv, [Next]_vars PROVE IInv'
  OBVIOUS
<1>1. TypeOK' /\ FailuresBelow'
  BY StepTypes DEF IInv
<1>2. LockInv' /\ ResumeReadsPause'
  <2>1. CASE UNCHANGED vars
    BY <2>1 DEF vars, IInv, LockInv, LockAhead, ResumeHolds, ResumeReadsPause, Claimed
  <2> QED BY <2>1, WorkerLock, OwnerLock, WaitLock DEF Next
<1> QED BY <1>1, <1>2 DEF IInv

LEMMA SpecIInv == Spec => []IInv
<1> QED BY InitIInv, StepIInv, PTL DEF Spec

\* Every row, timer and process keeps its type; no date leaves its range and no
\* worker counts a failure beyond the limit (recordScheduledReportFailure).
THEOREM TypeCorrect == Spec => []TypeOK
<1>1. IInv => TypeOK
  BY DEF IInv
<1> QED BY <1>1, SpecIInv, PTL

\* Unless a tick outlives its lock or overlaps a resume behind its back, at most
\* one worker delivers, however the owner moves the date under it
\* (claimScheduledReport).
THEOREM OneWorkerDelivers == Spec => []OneDeliverer
<1>1. IInv => OneDeliverer
  BY DEF IInv, LockInv, OneDeliverer
<1> QED BY <1>1, SpecIInv, PTL

-----------------------------------------------------------------------------
(* Cancellations. *)

Stays(u) == /\ status[u] = "cancelled" => status'[u] = "cancelled"
            /\ \A r \in Recipients : rows[u][r].status = "cancelled"
                                       => rows'[u][r].status = "cancelled"

\* The three statements that write a delivery's row, or a run's, look at its status.
LEMMA GuardedWrites ==
    ASSUME TypeOK, NEW w \in Workers, NEW u \in Runs
    PROVE  /\ \A as, timer : Mark(w, as, timer) =>
                 \A r \in Recipients : rows[u][r].status = "cancelled"
                                          => rows'[u][r].status = "cancelled"
           /\ ClaimRow(w) =>
                 \A r \in Recipients : rows[u][r].status = "cancelled"
                                          => rows'[u][r].status = "cancelled"
           /\ \A as : CloseAs(w, as) /\ status[u] = "cancelled" => status'[u] = "cancelled"
<1>1. rows[u] \in [Recipients -> Row] /\ rows \in [Runs -> [Recipients -> Row]]
  BY DEF TypeOK
<1>2. ASSUME NEW as, NEW timer, Mark(w, as, timer), NEW r \in Recipients,
             rows[u][r].status = "cancelled"
      PROVE  rows'[u][r].status = "cancelled"
  <2>1. CASE worker[w].run = u /\ worker[w].row = r
    BY <1>2, <2>1 DEF Mark
  <2>2. CASE ~(worker[w].run = u /\ worker[w].row = r)
    BY <1>1, <1>2, <2>2 DEF Mark
  <2> QED BY <2>1, <2>2
<1>3. ASSUME ClaimRow(w), NEW r \in Recipients, rows[u][r].status = "cancelled"
      PROVE  rows'[u][r].status = "cancelled"
  <2>1. PICK t : \/ UNCHANGED rows
                \/ /\ rows' = [rows EXCEPT ![worker[w].run][t] =
                                 [status |-> "sending", timer |-> In(w, 1)]]
                   /\ rows[worker[w].run][t].status # "cancelled"
    BY <1>3 DEF ClaimRow
  <2>2. CASE worker[w].run = u /\ t = r
    BY <1>3, <2>1, <2>2
  <2>3. CASE ~(worker[w].run = u /\ t = r)
    BY <1>1, <1>3, <2>1, <2>3
  <2> QED BY <2>2, <2>3
<1>4. ASSUME NEW as, CloseAs(w, as), status[u] = "cancelled"
      PROVE  status'[u] = "cancelled"
  BY <1>4 DEF CloseAs, TypeOK
<1> QED BY <1>2, <1>3, <1>4

\* Whatever a worker, however stale, writes after an edit or a pause: the runs and
\* deliveries that it cancelled stay cancelled (cancelIncompleteScheduledReportRuns).
THEOREM CancellationsStand == Spec => CancelledStays
<1> DEFINE Reused(u) == \E w \in Workers : worker[w].at = "creating" /\ worker'[w].run = u
<1>1. ASSUME IInv, [Next]_vars, NEW u \in Runs PROVE Reused(u) \/ Stays(u)
  <2>0. TypeOK
    BY <1>1 DEF IInv
  <2>1. ASSUME NEW w \in Workers, CreateRun(w) PROVE Reused(u) \/ Stays(u)
    <3>0. PICK v \in Runs : \E todo, new :
             /\ status' = [status EXCEPT ![v] = "processing"]
             /\ rows' = [rows EXCEPT ![v] = new]
             /\ worker' = [worker EXCEPT ![w].at = "sending", ![w].run = v,
                                         ![w].recipients = {}, ![w].todo = todo]
      BY <2>1 DEF CreateRun
    <3>1. PICK todo, new :
             /\ status' = [status EXCEPT ![v] = "processing"]
             /\ rows' = [rows EXCEPT ![v] = new]
             /\ worker' = [worker EXCEPT ![w].at = "sending", ![w].run = v,
                                         ![w].recipients = {}, ![w].todo = todo]
      BY <3>0
    <3>2. worker[w].at = "creating"
      BY <2>1 DEF CreateRun
    <3>3. CASE u = v
      <4>1. worker'[w].run = u
        BY <2>0, <3>1, <3>3 DEF TypeOK, Worker
      <4> QED BY <3>2, <4>1
    <3>4. CASE u # v
      BY <2>0, <3>1, <3>4 DEF Stays, TypeOK
    <3> QED BY <3>3, <3>4
  <2>2. ASSUME NEW w \in Workers,
               Suppress(w) \/ MarkDelivery(w) \/ ClaimRow(w) \/ Finalize(w) \/ CloseRun(w)
        PROVE  Stays(u)
    BY <2>0, <2>2, GuardedWrites
       DEF Stays, Suppress, MarkDelivery, ClaimRow, Finalize, CloseRun
  <2>3. ASSUME UNCHANGED <<status, rows>> PROVE Stays(u)
    BY <2>3 DEF Stays
  <2>4. ASSUME CancelUnfinished PROVE Stays(u)
    BY <2>0, <2>4 DEF CancelUnfinished, Stays, TypeOK, Incomplete
  <2>5. ASSUME Wait PROVE Stays(u)
    BY <2>0, <2>5 DEF Wait, Stays, TypeOK
  <2>6. ASSUME NEW w \in Workers, Step(w) \/ Throw(w) \/ Crash(w) PROVE Reused(u) \/ Stays(u)
    <3> HIDE DEF Reused
    <3>1. \/ CreateRun(w) \/ Suppress(w) \/ MarkDelivery(w) \/ ClaimRow(w) \/ Finalize(w)
          \/ CloseRun(w) \/ UNCHANGED <<status, rows>>
      BY <2>6 DEF Step, Select, ClaimSchedule, FindRun, SkipReport, CheckRow, Deliver, ReadRun,
                  Throw, Crash
    <3> QED BY <2>1, <2>2, <2>3, <3>1
  <2>7. ASSUME Edit \/ Pause \/ ReadSchedule \/ Resume PROVE Stays(u)
    BY <2>3, <2>4, <2>7 DEF Edit, Pause, ReadSchedule, Resume
  <2>8. ASSUME UNCHANGED vars PROVE Stays(u)
    BY <2>3, <2>8 DEF vars
  <2> QED BY <1>1, <2>5, <2>6, <2>7, <2>8 DEF Next
<1>2. IInv /\ [Next]_vars =>
        [\A u \in Runs :
           \/ \E w \in Workers :
                worker[w].at = "creating" /\ worker'[w].run = u
           \/ /\ status[u] = "cancelled" => status'[u] = "cancelled"
              /\ \A r \in Recipients : rows[u][r].status = "cancelled"
                                         => rows'[u][r].status = "cancelled"]_vars
  BY <1>1 DEF Stays
<1> QED BY <1>2, SpecIInv, PTL DEF Spec, CancelledStays

=============================================================================
