-------------------------- MODULE ScheduledReports --------------------------
(***************************************************************************)
(* One scheduled report and the workers that deliver it.  A worker selects *)
(* the due schedule, claims it by moving nextRunAt past a lock, resumes a  *)
(* run with a failed or abandoned delivery or creates a run with a row per *)
(* recipient, claims, checks, sends and marks each row, and finalizes the  *)
(* run.  Every statement is one of its own: none of it is a transaction.   *)
(* The owner edits, pauses and resumes the schedule meanwhile, and that    *)
(* cancels what is unfinished; a process may die at any moment.            *)
(*                                                                         *)
(* Time is counted in locks: the schedule's lock, a row's lock and the     *)
(* delay before a retry are all one unit (15 minutes in the code).  A      *)
(* timer is the time left until its date, negative once that has passed,   *)
(* and a worker computes every date from its own start, "age" units ago.   *)
(*                                                                         *)
(* Left out: the artifact's content (its failure is Throw), archived       *)
(* projects and lapsed subscriptions, the wording of reasons, counters     *)
(* shown to the owner, the digest queue behind a digest row (queueing an   *)
(* item is a delivery like a mail), and the deletion of a schedule.        *)
(***************************************************************************)
EXTENDS Integers

CONSTANTS
    Recipients, Workers,
    Runs,          \* run rows the model can tell apart
    NoRun, NoOne,
    Period,        \* time to the next regular report
    MaxFailures,   \* MAX_SCHEDULED_REPORT_DELIVERY_FAILURES, 3 in the code
    MaxAge,        \* bound on how long a worker's tick takes, in locks
    MaxTroubles    \* bound on crashes, late ticks and changes by the owner

ASSUME ConstantsAssumption ==
    /\ NoRun \notin Runs
    /\ NoOne \notin Recipients
    /\ Period \in Nat /\ Period > 1
    /\ MaxFailures \in Nat \ {0}
    /\ MaxAge \in Nat
    /\ MaxTroubles \in Nat

VARIABLES
    schedule,      \* the scheduled_reports row
    status,        \* scheduled_report_runs, by run
    older,         \* the runs created before each run
    rows,          \* scheduled_report_recipient_deliveries, by run
    worker,        \* the process that runs each worker's tick
    owner,         \* the owner's request to resume the schedule
    overtaken,     \* history: did a tick outlive its lock, or did a worker
                   \* disable the schedule behind a request to resume it?
    troubles

vars == <<schedule, status, older, rows, worker, owner, overtaken, troubles>>

Incomplete == {"processing", "failed", "partial_failed"}
Timer == -MaxAge..Period
Ages == 0..MaxAge
Lists == (SUBSET Recipients) \ {{}}

Schedule == [active : BOOLEAN, recipients : Lists,
             next : Timer,                 \* nextRunAt; null is long past
             failures : 0..MaxFailures]
Row == [status : {"none", "pending", "sending", "sent", "failed",
                  "suppressed", "cancelled"},
        timer : Timer]                     \* lockedUntil or nextAttemptAt
NoRow == [status |-> "none", timer |-> 0]
Worker == [at : {"idle", "selected", "finding", "creating", "sending",
                 "claimed", "cleared", "handed", "refused", "finalizing",
                 "skipping", "closing"},
           age : Ages,
           recipients : SUBSET Recipients, \* as the schedule was selected
           failures : 0..MaxFailures,
           run : Runs \cup {NoRun},
           todo : SUBSET Recipients,
           row : Recipients \cup {NoOne},
           seen : {"none", "failed", "partial_failed", "sent", "cancelled"}]
IdleWorker == [at |-> "idle", age |-> 0, recipients |-> {}, failures |-> 0,
               run |-> NoRun, todo |-> {}, row |-> NoOne, seen |-> "none"]
Owner == [at : {"idle", "resuming"}, paused : BOOLEAN, due : BOOLEAN]
IdleOwner == [at |-> "idle", paused |-> FALSE, due |-> FALSE]

Init ==
    /\ schedule \in [active : {TRUE}, recipients : Lists, next : {0},
                     failures : {0}]
    /\ status = [u \in Runs |-> "none"]
    /\ older = [u \in Runs |-> {}]
    /\ rows = [u \in Runs |-> [r \in Recipients |-> NoRow]]
    /\ worker = [w \in Workers |-> IdleWorker]
    /\ owner = IdleOwner
    /\ overtaken = FALSE
    /\ troubles = 0

-----------------------------------------------------------------------------
(* What a worker reads: dates are compared with the start of its tick. *)

Passed(w, timer) == timer <= -worker[w].age
In(w, units) == units - worker[w].age

\* Only failures are due; a lapsed lock is not.
WrongDueRows(w, u) == {r \in Recipients : /\ rows[u][r].status = "failed"
                                         /\ Passed(w, rows[u][r].timer)}

DueRows(w, u) == {r \in Recipients :
                    /\ rows[u][r].status \in {"failed", "sending"}
                    /\ Passed(w, rows[u][r].timer)}
Retryable(w) == {u \in Runs : status[u] \in Incomplete /\ DueRows(w, u) # {}}
Newest(S) == {u \in S : S \ {u} \subseteq older[u]}

Trouble == troubles < MaxTroubles /\ troubles' = troubles + 1

Goes(w, at) == worker' = [worker EXCEPT ![w].at = at]
Ends(w) == worker' = [worker EXCEPT ![w] = IdleWorker]
\* The outcome is written by id alone.
WrongMark(w, as, timer) ==
    rows' = [rows EXCEPT ![worker[w].run][worker[w].row] =
               [status |-> as, timer |-> timer]]

Mark(w, as, timer) ==
    LET u == worker[w].run
        r == worker[w].row
    IN rows' = IF rows[u][r].status = "sending"
               THEN [rows EXCEPT ![u][r] = [status |-> as, timer |-> timer]]
               ELSE rows
NextRow(w) == worker' = [worker EXCEPT ![w].at = "sending", ![w].row = NoOne]

-----------------------------------------------------------------------------
(* The worker's tick. *)

Select(w) ==
    /\ worker[w].at = "idle"
    /\ schedule.active /\ schedule.next <= 0
    /\ worker' = [worker EXCEPT ![w] =
                    [IdleWorker EXCEPT !.at = "selected",
                                       !.recipients = schedule.recipients,
                                       !.failures = schedule.failures]]
    /\ UNCHANGED <<schedule, status, older, rows, owner, overtaken, troubles>>

\* The claim does not look at the date again.
WrongClaimable(w) == schedule.active

Claimable(w) == schedule.active /\ Passed(w, schedule.next)

ClaimSchedule(w) ==
    /\ worker[w].at = "selected"
    /\ IF Claimable(w)
       THEN /\ schedule' = [schedule EXCEPT !.next = In(w, 1)]
            /\ Goes(w, "finding")
       ELSE Ends(w) /\ UNCHANGED schedule
    /\ UNCHANGED <<status, older, rows, owner, overtaken, troubles>>

FindRun(w) ==
    /\ worker[w].at = "finding"
    /\ IF Retryable(w) = {}
       THEN Goes(w, "creating")
       ELSE \E u \in Newest(Retryable(w)) :
              worker' = [worker EXCEPT ![w].at = "sending", ![w].run = u,
                                       ![w].recipients = {},
                                       ![w].todo = DueRows(w, u)]
    /\ UNCHANGED <<schedule, status, older, rows, owner, overtaken, troubles>>

\* A run nobody will touch again makes room for a new one: a bound of the model.
Forgotten(u) ==
    /\ \A w \in Workers : worker[w].run # u
    /\ \A r \in Recipients : rows[u][r].status \notin {"failed", "sending"}

CreateRun(w) ==
    /\ worker[w].at = "creating"
    /\ \E u \in Runs, eligible \in SUBSET worker[w].recipients :
         /\ eligible # {}
         /\ Forgotten(u)
         /\ status' = [status EXCEPT ![u] = "processing"]
         /\ older' = [v \in Runs |-> IF v = u THEN Runs \ {u} ELSE older[v] \ {u}]
         /\ rows' = [rows EXCEPT ![u] = [r \in Recipients |->
                       IF r \notin worker[w].recipients THEN NoRow
                       ELSE [status |-> IF r \in eligible THEN "pending"
                                        ELSE "suppressed",
                             timer |-> 0]]]
         /\ worker' = [worker EXCEPT ![w].at = "sending", ![w].run = u,
                                     ![w].recipients = {}, ![w].todo = eligible]
    /\ UNCHANGED <<schedule, owner, overtaken, troubles>>

Recover(w) == [schedule EXCEPT !.failures = 0, !.next = In(w, Period)]

\* No recipient is eligible any more.
SkipReport(w) ==
    /\ worker[w].at \in {"creating", "skipping"}
    /\ schedule' = IF schedule.active THEN Recover(w) ELSE schedule
    /\ Ends(w)
    /\ UNCHANGED <<status, older, rows, owner, overtaken, troubles>>

ClaimRow(w) ==
    /\ worker[w].at = "sending"
    /\ \E r \in worker[w].todo :
         LET row == rows[worker[w].run][r]
             free == \/ row.status \in {"pending", "failed"}
                     \/ row.status = "sending" /\ Passed(w, row.timer)
         IN IF free
            THEN /\ rows' = [rows EXCEPT ![worker[w].run][r] =
                               [status |-> "sending", timer |-> In(w, 1)]]
                 /\ worker' = [worker EXCEPT ![w].at = "claimed", ![w].row = r,
                                             ![w].todo = @ \ {r}]
            ELSE /\ worker' = [worker EXCEPT ![w].todo = @ \ {r}]
                 /\ UNCHANGED rows
    /\ UNCHANGED <<schedule, status, older, owner, overtaken, troubles>>

CheckRow(w) ==
    /\ worker[w].at = "claimed"
    /\ IF /\ rows[worker[w].run][worker[w].row].status = "sending"
          /\ schedule.active
       THEN Goes(w, "cleared")
       ELSE NextRow(w)
    /\ UNCHANGED <<schedule, status, older, rows, owner, overtaken, troubles>>

\* The recipient lost access or no longer wants the report.
Suppress(w) ==
    /\ worker[w].at = "cleared"
    /\ Mark(w, "suppressed", 0)
    /\ NextRow(w)
    /\ UNCHANGED <<schedule, status, older, owner, overtaken, troubles>>

\* The mail or the digest item goes out, or it does not.
Deliver(w) ==
    /\ worker[w].at = "cleared"
    /\ Goes(w, "handed") \/ Goes(w, "refused")
    /\ UNCHANGED <<schedule, status, older, rows, owner, overtaken, troubles>>

MarkDelivery(w) ==
    /\ \/ worker[w].at = "handed" /\ Mark(w, "sent", 0)
       \/ worker[w].at = "refused" /\ Mark(w, "failed", In(w, 1))
    /\ NextRow(w)
    /\ UNCHANGED <<schedule, status, older, owner, overtaken, troubles>>

ReadRun(w) ==
    /\ worker[w].at = "sending" /\ worker[w].todo = {}
    /\ LET u == worker[w].run
           any(as) == \E r \in Recipients : rows[u][r].status = as
           as == IF any("failed")
                 THEN IF any("sent") \/ any("suppressed")
                      THEN "partial_failed" ELSE "failed"
                 ELSE IF any("suppressed") /\ ~any("sent")
                      THEN "cancelled" ELSE "sent"
       IN IF status[u] = "cancelled"
          THEN Ends(w)
          ELSE worker' = [worker EXCEPT ![w].at = "finalizing", ![w].seen = as]
    /\ UNCHANGED <<schedule, status, older, rows, owner, overtaken, troubles>>

\* recordScheduledReportFailure: one failure more than when it was selected.
FailureCounted(w) ==
    LET n == worker[w].failures + 1
    IN IF n >= MaxFailures
       THEN [schedule EXCEPT !.failures = n, !.active = FALSE, !.next = -MaxAge]
       ELSE [schedule EXCEPT !.failures = n, !.next = In(w, 1)]

CloseAs(w, as) ==
    status' = IF status[worker[w].run] = "cancelled" THEN status
              ELSE [status EXCEPT ![worker[w].run] = as]

Finalize(w) ==
    /\ worker[w].at = "finalizing"
    /\ \/ /\ worker[w].seen # "cancelled"
          /\ schedule.active
          /\ schedule' = IF worker[w].seen = "sent" THEN Recover(w)
                         ELSE FailureCounted(w)
          /\ Goes(w, "closing")
          /\ UNCHANGED status
       \/ /\ worker[w].seen # "cancelled"
          /\ ~schedule.active
          /\ Ends(w)
          /\ UNCHANGED <<schedule, status>>
       \/ /\ worker[w].seen = "cancelled"
          /\ CloseAs(w, "cancelled")
          /\ Goes(w, "skipping")
          /\ UNCHANGED schedule
    /\ UNCHANGED <<older, rows, owner, overtaken, troubles>>

CloseRun(w) ==
    /\ worker[w].at = "closing"
    /\ CloseAs(w, worker[w].seen)
    /\ Ends(w)
    /\ UNCHANGED <<schedule, older, rows, owner, overtaken, troubles>>

\* Any statement after the claim may fail; the failure is recorded.
Throw(w) ==
    /\ worker[w].at \notin {"idle", "selected"}
    /\ schedule' = IF schedule.active THEN FailureCounted(w) ELSE schedule
    /\ Ends(w)
    /\ UNCHANGED <<status, older, rows, owner, overtaken, troubles>>

Crash(w) ==
    /\ worker[w].at # "idle"
    /\ Trouble
    /\ Ends(w)
    /\ UNCHANGED <<schedule, status, older, rows, owner, overtaken>>

-----------------------------------------------------------------------------
(* The owner. *)

CancelUnfinished ==
    /\ rows' = [u \in Runs |-> [r \in Recipients |->
                  IF rows[u][r].status \in {"pending", "sending", "failed"}
                  THEN [status |-> "cancelled", timer |-> 0]
                  ELSE rows[u][r]]]
    /\ status' = [u \in Runs |-> IF status[u] \in Incomplete THEN "cancelled"
                                 ELSE status[u]]

Edit ==
    /\ Trouble
    /\ CancelUnfinished
    /\ \E list \in Lists, next \in {schedule.next, Period} :
         schedule' = [schedule EXCEPT !.recipients = list, !.next = next,
                                      !.failures = 0]
    /\ UNCHANGED <<older, worker, owner, overtaken>>

Pause ==
    /\ Trouble
    /\ CancelUnfinished
    /\ schedule' = [schedule EXCEPT !.active = FALSE, !.failures = 0]
    /\ UNCHANGED <<older, worker, owner, overtaken>>

\* The request to resume reads the schedule before its transaction.
ReadSchedule ==
    /\ Trouble
    /\ owner.at = "idle"
    /\ owner' = [at |-> "resuming", paused |-> ~schedule.active,
                 due |-> schedule.next <= 0]
    /\ UNCHANGED <<schedule, status, older, rows, worker, overtaken>>

Resume ==
    /\ owner.at = "resuming"
    /\ owner' = IdleOwner
    /\ schedule' = [schedule EXCEPT !.active = TRUE, !.failures = 0,
                      !.next = IF owner.due THEN Period ELSE @]
    /\ IF owner.paused THEN CancelUnfinished ELSE UNCHANGED <<status, rows>>
    /\ overtaken' = (overtaken \/ owner.paused = schedule.active)
    /\ UNCHANGED <<older, worker, troubles>>

-----------------------------------------------------------------------------

Sooner(timer) == IF timer > -MaxAge THEN timer - 1 ELSE timer
Working == {w \in Workers : worker[w].at # "idle"}

Wait ==
    /\ \A w \in Working : worker[w].age < MaxAge
    /\ schedule' = [schedule EXCEPT !.next = Sooner(@)]
    /\ rows' = [u \in Runs |-> [r \in Recipients |->
                  IF rows[u][r].status \in {"sending", "failed"}
                  THEN [rows[u][r] EXCEPT !.timer = Sooner(@)]
                  ELSE rows[u][r]]]
    /\ worker' = [w \in Workers |->
                    IF w \in Working THEN [worker[w] EXCEPT !.age = @ + 1]
                    ELSE worker[w]]
    /\ IF Working = {} THEN UNCHANGED <<overtaken, troubles>>
       ELSE Trouble /\ overtaken' = TRUE
    /\ UNCHANGED <<status, older, owner>>

Step(w) ==
    \/ Select(w) \/ ClaimSchedule(w)
    \/ FindRun(w) \/ CreateRun(w) \/ SkipReport(w)
    \/ ClaimRow(w) \/ CheckRow(w) \/ Suppress(w) \/ Deliver(w)
    \/ MarkDelivery(w)
    \/ ReadRun(w) \/ Finalize(w) \/ CloseRun(w)

Next ==
    \/ \E w \in Workers : Step(w) \/ Throw(w) \/ Crash(w)
    \/ Edit \/ Pause \/ ReadSchedule \/ Resume
    \/ Wait

\* The workers' interval timers keep running and time passes.
Fairness ==
    /\ \A w \in Workers : WF_vars(Step(w))
    /\ WF_vars(Resume)
    /\ WF_vars(Wait)

Spec == Init /\ [][Next]_vars /\ Fairness

-----------------------------------------------------------------------------
(* Properties. *)

\* Rows and processes keep their shape.
TypeOK ==
    /\ schedule \in Schedule
    /\ status \in [Runs -> Incomplete \cup {"none", "sent", "cancelled"}]
    /\ older \in [Runs -> SUBSET Runs]
    /\ rows \in [Runs -> [Recipients -> Row]]
    /\ worker \in [Workers -> Worker]
    /\ owner \in Owner
    /\ overtaken \in BOOLEAN
    /\ troubles \in 0..MaxTroubles

\* An edit or a pause is final for the report under way: no worker, however
\* stale what it read, brings a cancelled run or a cancelled row back.
CancelledStays ==
    [][\A u \in Runs :
         \/ \E w \in Workers :      \* the row is another run's from now on
              worker[w].at = "creating" /\ worker'[w].run = u
         \/ /\ status[u] = "cancelled" => status'[u] = "cancelled"
            /\ \A r \in Recipients : rows[u][r].status = "cancelled"
                                       => rows'[u][r].status = "cancelled"]_vars

\* Unless a tick outlives its lock, at most one worker is past its claim of the
\* schedule: no recipient's delivery is ever under way in two of them, also when
\* the owner edits, pauses and resumes the schedule under the worker.
Claimed == {w \in Workers : worker[w].at \notin {"idle", "selected"}}
OneDeliverer == ~overtaken => \A w, x \in Claimed : w = x

\* A delivery that failed or was abandoned by a dead worker is taken up again
\* until it is sent, suppressed or cancelled, or the schedule is switched off:
\* as long as no worker outlives its lock and no resume is overtaken.
RowsSettle ==
    \A u \in Runs, r \in Recipients :
        rows[u][r].status \in {"failed", "sending"}
          ~> \/ rows[u][r].status \notin {"failed", "sending", "pending"}
             \/ ~schedule.active
             \/ overtaken

=============================================================================
