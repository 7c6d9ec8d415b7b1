--------------------------- MODULE HandoverExport ---------------------------
(***************************************************************************)
(* The handover-export worker: a requested project archive is a database   *)
(* row that out-of-process workers claim under a lease, assemble into an   *)
(* object store and publish by compare-and-swap on the lease token; a      *)
(* requester may cancel it, and a retention sweep removes expired archives *)
(* and superseded objects.                                                 *)
(*                                                                         *)
(* One step of this module is one database statement or one storage call   *)
(* of lib/handover/{exportRunner,exportLease,exportSweeper}.ts: everything *)
(* between two awaits.  A thrown database error outside runExportJob's try *)
(* and the death of the process leave the same state, and are both Crash.  *)
(***************************************************************************)
EXTENDS Integers, FiniteSets

CONSTANTS
    NumExports,        \* exports are 1..NumExports, numbered by requestedAt
    Workers,           \* worker processes, each running one tick at a time
    Tokens,            \* lease tokens; randomUUID never repeats a live one
    Members,           \* ledger rows of every export
    NoToken,           \* SQL NULL, in leaseToken and in fileUrl
    SweepBatch,        \* batchSize of one sweep pass (200 in the code)
    MaxAttempts,       \* runs of one export before it fails (3 in the code)
    MaxFaults,         \* bound on crashes, stalls and failed calls
    LostAnswers,       \* may the publish commit and its answer be lost?
    Holds              \* may legal holds be placed and released?

ASSUME ConstantsAssumption ==
    /\ NumExports \in Nat \ {0}
    /\ NoToken \notin Tokens
    /\ SweepBatch \in Nat \ {0}
    /\ MaxAttempts \in Nat \ {0}
    /\ MaxFaults \in Nat
    /\ LostAnswers \in BOOLEAN
    /\ Holds \in BOOLEAN

Exports == 1..NumExports
TokenOrNull == Tokens \cup {NoToken}

VARIABLES
    (* the handover_exports row *)
    status, leaseToken, lapsed, backingOff, failureCount, fileUrl, memberState,
    (* what the clock has passed: expiresAt, requestedAt + ORPHAN_GRACE_MS *)
    expired, aged,
    held,              \* latest artifact_legal_holds row is 'placed'
    (* object storage: <<e, t>> is handover-exports/{project}/e/t.zip *)
    objects,
    (* the workers' local state *)
    pc, job, token, failures, left, cause, batch,
    faults             \* how many of the MaxFaults have happened

rowVars == <<status, leaseToken, lapsed, backingOff, failureCount, fileUrl,
             memberState>>
clockVars == <<expired, aged, held>>
runVars == <<job, token, failures, left, cause>>
workVars == <<pc, runVars, batch>>
vars == <<rowVars, clockVars, objects, workVars, faults>>

Claimable == {"queued", "snapshotting", "processing"}
Terminal == {"complete", "failed", "cancelled"}
Statuses == Claimable \cup Terminal \cup {"none"}      \* "none": not requested

JobPcs == {"claim", "read", "start", "assemble", "publish", "withdraw",
           "mark", "clean", "fail"}
SweepPcs == {"sweepExpired", "sweepHeld", "sweepRemove", "sweepNull",
             "sweepOrphans", "sweepList"}
Pcs == JobPcs \cup SweepPcs \cup {"idle", "ticked"}
Causes == {"none", "aborted", "error", "cap"}

-----------------------------------------------------------------------------
(* Rows, leases and objects. *)

Pair(e) == <<e, fileUrl[e]>>

(* A definition named Wrong... is a bug the code does not have; PROJECT.json  *)
(* substitutes it for the definition below it to show what a property tells. *)

\* Lapsed leases are not taken over.
WrongUnleased(e) == leaseToken[e] = NoToken

\* The lease predicate that claimExport and findNextExportJob share.
Unleased(e) == leaseToken[e] = NoToken \/ lapsed[e]

\* findNextExportJob's where clause.
Eligible == {e \in Exports : status[e] \in Claimable /\ Unleased(e)
                             /\ ~backingOff[e]}

\* A claim may take the previous holder's token over.
WrongFresh(t) == \A e \in Exports : fileUrl[e] # t

\* crypto.randomUUID: a token nothing refers to any more may be drawn again.
Fresh(t) == /\ \A e \in Exports : leaseToken[e] # t /\ fileUrl[e] # t
                                  /\ <<e, t>> \notin objects
            /\ \A w \in Workers : token[w] # t /\ \A b \in batch[w] : b[2] # t

\* fencedUpdate's where clause: the row still carries this worker's token.
Fenced(w) == leaseToken[job[w]] = token[w]

ReleaseLease(e) == /\ leaseToken' = [leaseToken EXCEPT ![e] = NoToken]
                   /\ lapsed' = [lapsed EXCEPT ![e] = FALSE]

\* The published object is not spared.
WrongOrphans(p) == {o \in objects : o[1] = p[1]}

\* The objects a pass may delete below an export's prefix.
Orphans(p) == {o \in objects : o[1] = p[1] /\ o # p}

Goto(w, p) == pc' = [pc EXCEPT ![w] = p]

\* A run's local variables die with it.
ForgetRun(w) ==
    /\ job' = [job EXCEPT ![w] = 1]
    /\ token' = [token EXCEPT ![w] = NoToken]
    /\ failures' = [failures EXCEPT ![w] = 0]
    /\ left' = [left EXCEPT ![w] = {}]
    /\ cause' = [cause EXCEPT ![w] = "none"]

\* runExportJob returns and the tick goes on.
EndJob(w) == Goto(w, "ticked") /\ ForgetRun(w)

Fault == faults < MaxFaults /\ faults' = faults + 1

-----------------------------------------------------------------------------
Init ==
    /\ status = [e \in Exports |-> "none"]
    /\ leaseToken = [e \in Exports |-> NoToken]
    /\ lapsed = [e \in Exports |-> FALSE]
    /\ backingOff = [e \in Exports |-> FALSE]
    /\ failureCount = [e \in Exports |-> 0]
    /\ fileUrl = [e \in Exports |-> NoToken]
    /\ memberState = [e \in Exports |-> [m \in Members |-> "pending"]]
    /\ expired = [e \in Exports |-> FALSE]
    /\ aged = [e \in Exports |-> FALSE]
    /\ held = [e \in Exports |-> FALSE]
    /\ objects = {}
    /\ pc = [w \in Workers |-> "idle"]
    /\ job = [w \in Workers |-> 1]
    /\ token = [w \in Workers |-> NoToken]
    /\ failures = [w \in Workers |-> 0]
    /\ left = [w \in Workers |-> {}]
    /\ cause = [w \in Workers |-> "none"]
    /\ batch = [w \in Workers |-> {}]
    /\ faults = 0

-----------------------------------------------------------------------------
(* Requests. *)

\* createFrozenExport: the row and its ledger in one transaction.
CreateExport(e) ==
    /\ status[e] = "none"
    /\ \A d \in 1..(e - 1) : status[d] # "none"
    /\ status' = [status EXCEPT ![e] = "queued"]
    /\ UNCHANGED <<leaseToken, lapsed, backingOff, failureCount, fileUrl,
                   memberState, clockVars, objects, workVars, faults>>

\* Cancels by id alone.
WrongCancellation(e) ==
    /\ status[e] # "none"
    /\ status' = [status EXCEPT ![e] = "cancelled"]
    /\ ReleaseLease(e)
    /\ UNCHANGED <<backingOff, failureCount, fileUrl, memberState, clockVars,
                   objects, workVars, faults>>

\* requestExportCancellation: a compare-and-swap on status, not on the token.
RequestCancellation(e) ==
    /\ status[e] \in Claimable
    /\ status' = [status EXCEPT ![e] = "cancelled"]
    /\ ReleaseLease(e)
    /\ UNCHANGED <<backingOff, failureCount, fileUrl, memberState, clockVars,
                   objects, workVars, faults>>

\* placeLegalHold / releaseLegalHold: the latest event wins.
SetHold(e, h) ==
    /\ Holds
    /\ status[e] # "none"
    /\ held[e] # h
    /\ held' = [held EXCEPT ![e] = h]
    /\ UNCHANGED <<rowVars, expired, aged, objects, workVars, faults>>

-----------------------------------------------------------------------------
(* The passing of time. *)

\* leaseExpiresAt passes.  A lease whose holder still runs lapses only when
\* that holder stalls past LEASE_TTL_MS, which is a fault.
Holder(e, w) == pc[w] \in JobPcs \ {"claim"} /\ job[w] = e /\ Fenced(w)
LeaseLapses(e) ==
    /\ leaseToken[e] # NoToken
    /\ ~lapsed[e]
    /\ lapsed' = [lapsed EXCEPT ![e] = TRUE]
    /\ IF \E w \in Workers : Holder(e, w) THEN Fault ELSE UNCHANGED faults
    /\ UNCHANGED <<status, leaseToken, backingOff, failureCount, fileUrl,
                   memberState, clockVars, objects, workVars>>

\* nextAttemptAt passes.
BackoffEnds(e) ==
    /\ backingOff[e]
    /\ backingOff' = [backingOff EXCEPT ![e] = FALSE]
    /\ UNCHANGED <<status, leaseToken, lapsed, failureCount, fileUrl,
                   memberState, clockVars, objects, workVars, faults>>

\* expiresAt, which only publishExport sets, passes.
Expires(e) ==
    /\ status[e] = "complete"
    /\ ~expired[e]
    /\ expired' = [expired EXCEPT ![e] = TRUE]
    /\ UNCHANGED <<rowVars, aged, held, objects, workVars, faults>>

\* requestedAt falls behind the orphan sweep's cutoff, oldest export first.
Ages(e) ==
    /\ status[e] # "none"
    /\ ~aged[e]
    /\ \A d \in 1..(e - 1) : aged[d]
    /\ aged' = [aged EXCEPT ![e] = TRUE]
    /\ UNCHANGED <<rowVars, expired, held, objects, workVars, faults>>

-----------------------------------------------------------------------------
(* One job: findNextExportJob and runExportJob. *)

FindNextExportJob(w) ==
    /\ pc[w] = "idle"
    /\ \E e \in Eligible :
         /\ \A d \in Eligible : e <= d
         /\ job' = [job EXCEPT ![w] = e]
    /\ Goto(w, "claim")
    /\ UNCHANGED <<rowVars, clockVars, objects, token, failures, left, cause,
                   batch, faults>>

\* claimExport won: a new token every claim.  The claim does not look at
\* nextAttemptAt again, so a job that failed since the scan is taken at once.
ClaimExport(w) ==
    LET e == job[w] IN
    /\ pc[w] = "claim"
    /\ status[e] \in Claimable
    /\ Unleased(e)
    /\ \E t \in Tokens :
         /\ Fresh(t)
         /\ leaseToken' = [leaseToken EXCEPT ![e] = t]
         /\ token' = [token EXCEPT ![w] = t]
    /\ lapsed' = [lapsed EXCEPT ![e] = FALSE]
    /\ Goto(w, "read")
    /\ UNCHANGED <<status, backingOff, failureCount, fileUrl, memberState,
                   clockVars, objects, job, failures, left, cause, batch,
                   faults>>

\* claimExport lost: 'not_claimed'.
LoseClaim(w) ==
    /\ pc[w] = "claim"
    /\ status[job[w]] \notin Claimable \/ ~Unleased(job[w])
    /\ EndJob(w)
    /\ UNCHANGED <<rowVars, clockVars, objects, batch, faults>>

\* findUnique: the worker's copy of failureCount, used when the run fails.
ReadRow(w) ==
    /\ pc[w] = "read"
    /\ failures' = [failures EXCEPT ![w] = failureCount[job[w]]]
    /\ Goto(w, "start")
    /\ UNCHANGED <<rowVars, clockVars, objects, job, token, left, cause, batch,
                   faults>>

\* setExportStatus(processing), fenced; then the upload of the stream opens.
SetProcessing(w) ==
    LET e == job[w] IN
    /\ pc[w] = "start"
    /\ Fenced(w)
    /\ status' = [status EXCEPT ![e] = "processing"]
    /\ left' = [left EXCEPT ![w] = Members]
    /\ Goto(w, "assemble")
    /\ UNCHANGED <<leaseToken, lapsed, backingOff, failureCount, fileUrl,
                   memberState, clockVars, objects, job, token, failures,
                   cause, batch, faults>>

FencedOut(w) ==
    /\ pc[w] = "start"
    /\ ~Fenced(w)
    /\ EndJob(w)
    /\ UNCHANGED <<rowVars, clockVars, objects, batch, faults>>

\* The stream breaks: lib-storage aborts its own multipart upload, and the
\* catch block of runExportJob runs with the error.
BreakOff(w, why) ==
    /\ cause' = [cause EXCEPT ![w] = why]
    /\ Goto(w, "clean")

\* One member is written (or left out, its object is missing); the last
\* member always renews the lease and another one renews it when a tick is due.
ProcessMember(w, m, beat) ==
    /\ pc[w] = "assemble"
    /\ m \in left[w]
    /\ left[w] = {m} => beat
    /\ left' = [left EXCEPT ![w] = @ \ {m}]
    /\ IF beat /\ ~Fenced(w)
         THEN /\ BreakOff(w, "aborted")
              /\ UNCHANGED lapsed
         ELSE /\ lapsed' = IF beat THEN [lapsed EXCEPT ![job[w]] = FALSE]
                                   ELSE lapsed
              /\ UNCHANGED <<cause, pc>>
    /\ UNCHANGED <<status, leaseToken, backingOff, failureCount, fileUrl,
                   memberState, clockVars, objects, job, token, failures,
                   batch, faults>>

\* The multipart upload completes: the archive becomes an object.
FinishUpload(w) ==
    /\ pc[w] = "assemble"
    /\ left[w] = {}
    /\ objects' = objects \cup {<<job[w], token[w]>>}
    /\ Goto(w, "publish")
    /\ UNCHANGED <<rowVars, clockVars, runVars, batch, faults>>

\* A read, a heartbeat or the upload throws ("error"), or the archive
\* outgrows its byte cap ("cap", the only terminal error).
AssemblyFails(w, why) ==
    /\ pc[w] = "assemble"
    /\ Fault
    /\ BreakOff(w, why)
    /\ UNCHANGED <<rowVars, clockVars, objects, job, token, failures, left,
                   batch>>

\* publishExport's statement.
Publish(w) ==
    LET e == job[w] IN
    /\ Fenced(w)
    /\ status' = [status EXCEPT ![e] = "complete"]
    /\ fileUrl' = [fileUrl EXCEPT ![e] = token[w]]
    /\ ReleaseLease(e)
    /\ UNCHANGED <<backingOff, failureCount, memberState>>

PublishExport(w) ==
    /\ pc[w] = "publish"
    /\ Publish(w)
    /\ Goto(w, "mark")
    /\ UNCHANGED <<clockVars, objects, runVars, batch, faults>>

\* The statement is rejected: the worker was fenced out.
PublishRejected(w) ==
    /\ pc[w] = "publish"
    /\ ~Fenced(w)
    /\ Goto(w, "withdraw")
    /\ UNCHANGED <<rowVars, clockVars, objects, runVars, batch, faults>>

\* The call throws, before the statement took effect or, when answers may be
\* lost, after it.  Both land in the catch block.
PublishThrows(w) ==
    /\ pc[w] = "publish"
    /\ Fault
    /\ UNCHANGED rowVars \/ (LostAnswers /\ Publish(w))
    /\ cause' = [cause EXCEPT ![w] = "error"]
    /\ Goto(w, "clean")
    /\ UNCHANGED <<clockVars, objects, job, token, failures, left, batch>>

\* removeQuietly: the delete may fail and the run goes on all the same.
RemoveQuietly(w) ==
    \/ objects' = objects \ {<<job[w], token[w]>>} /\ UNCHANGED faults
    \/ Fault /\ UNCHANGED objects

WithdrawArchive(w) ==
    /\ pc[w] = "withdraw"
    /\ RemoveQuietly(w)
    /\ EndJob(w)
    /\ UNCHANGED <<rowVars, clockVars, batch>>

\* markMembersWritten: every member still pending becomes written.
MarkMembersWritten(w) ==
    /\ pc[w] = "mark"
    /\ memberState' = [memberState EXCEPT ![job[w]] =
                         [m \in Members |-> IF @[m] = "pending"
                                            THEN "written" ELSE @[m]]]
    /\ EndJob(w)
    /\ UNCHANGED <<status, leaseToken, lapsed, backingOff, failureCount,
                   fileUrl, clockVars, objects, batch, faults>>

\* markMembersWritten throws.  It is awaited inside the same try.
MarkThrows(w) ==
    /\ LostAnswers
    /\ pc[w] = "mark"
    /\ Fault
    /\ cause' = [cause EXCEPT ![w] = "error"]
    /\ Goto(w, "clean")
    /\ UNCHANGED <<rowVars, clockVars, objects, job, token, failures, left,
                   batch>>

\* finishFailedRun: the object goes first; an aborted run writes nothing else.
CleanUp(w) ==
    /\ pc[w] = "clean"
    /\ RemoveQuietly(w)
    /\ IF cause[w] = "aborted" THEN EndJob(w)
                               ELSE Goto(w, "fail") /\ UNCHANGED runVars
    /\ UNCHANGED <<rowVars, clockVars, batch>>

\* Retries without a limit.
WrongRetryable(w) == cause[w] # "cap"

\* failExport, fenced: back to the queue behind a backoff, or failed for good.
Retryable(w) == cause[w] # "cap" /\ failures[w] < MaxAttempts - 1
FailExport(w) ==
    LET e == job[w] IN
    /\ pc[w] = "fail"
    /\ IF Fenced(w)
         THEN /\ status' = [status EXCEPT ![e] = IF Retryable(w) THEN "queued"
                                                                 ELSE "failed"]
              /\ failureCount' = [failureCount EXCEPT ![e] = @ + 1]
              /\ backingOff' = [backingOff EXCEPT ![e] = Retryable(w)]
              /\ ReleaseLease(e)
         ELSE UNCHANGED <<status, failureCount, backingOff, leaseToken,
                          lapsed>>
    /\ EndJob(w)
    /\ UNCHANGED <<fileUrl, memberState, clockVars, objects, batch, faults>>

\* The process dies, or a call outside every try throws.  Whatever was in
\* flight stays where it is; a new process starts its loop from the top.
Crash(w) ==
    /\ pc[w] \notin {"idle", "ticked"}
    /\ Fault
    /\ Goto(w, "idle")
    /\ ForgetRun(w)
    /\ batch' = [batch EXCEPT ![w] = {}]
    /\ UNCHANGED <<rowVars, clockVars, objects>>

-----------------------------------------------------------------------------
(* The retention sweep, when it is due: after a job, or in an empty tick. *)

EndTick(w) ==
    /\ pc[w] = "ticked"
    /\ Goto(w, "idle")
    /\ UNCHANGED <<rowVars, clockVars, objects, runVars, batch, faults>>

StartSweep(w) ==
    /\ pc[w] = "ticked" \/ (pc[w] = "idle" /\ Eligible = {})
    /\ Goto(w, "sweepExpired")
    /\ UNCHANGED <<rowVars, clockVars, objects, runVars, batch, faults>>

\* A query's page: any SweepBatch of its rows, or all when there are fewer.
Page(rows) == {B \in SUBSET rows : \/ Cardinality(B) = SweepBatch
                                   \/ B = rows /\ Cardinality(B) < SweepBatch}

\* sweepExpiredArchives' query, which has no order.
ReadExpired(w) ==
    /\ pc[w] = "sweepExpired"
    /\ \E B \in Page({e \in Exports : expired[e] /\ fileUrl[e] # NoToken}) :
         /\ batch' = [batch EXCEPT ![w] = {Pair(e) : e \in B}]
         /\ Goto(w, IF B = {} THEN "sweepOrphans" ELSE "sweepHeld")
    /\ UNCHANGED <<rowVars, clockVars, objects, runVars, faults>>

\* The filter keeps the held rows instead of the free ones.
WrongFilterHeld(w) ==
    /\ pc[w] = "sweepHeld"
    /\ batch' = [batch EXCEPT ![w] = {b \in @ : held[b[1]]}]
    /\ Goto(w, "sweepRemove")
    /\ UNCHANGED <<rowVars, clockVars, objects, runVars, faults>>

\* filterHeldArtifactIds: one read for the whole batch.
FilterHeld(w) ==
    /\ pc[w] = "sweepHeld"
    /\ batch' = [batch EXCEPT ![w] = {b \in @ : ~held[b[1]]}]
    /\ Goto(w, "sweepRemove")
    /\ UNCHANGED <<rowVars, clockVars, objects, runVars, faults>>

\* The object of one row is removed.  A delete that throws skips the row; one
\* whose per-key error S3 only reports in the response does not throw.  job[w]
\* remembers which row the loop is at.
RemoveExpired(w, b) ==
    /\ pc[w] = "sweepRemove"
    /\ b \in batch[w]
    /\ \/ /\ \/ objects' = objects \ {b} /\ UNCHANGED faults
             \/ UNCHANGED objects /\ Fault
          /\ job' = [job EXCEPT ![w] = b[1]]
          /\ Goto(w, "sweepNull")
       \/ Fault /\ UNCHANGED <<objects, job, pc>>
    /\ batch' = [batch EXCEPT ![w] = @ \ {b}]
    /\ UNCHANGED <<rowVars, clockVars, token, failures, left, cause>>

\* The row survives with a null fileUrl: an update on the id alone.
ForgetArchive(w) ==
    /\ pc[w] = "sweepNull"
    /\ fileUrl' = [fileUrl EXCEPT ![job[w]] = NoToken]
    /\ Goto(w, "sweepRemove")
    /\ ForgetRun(w)
    /\ UNCHANGED <<status, leaseToken, lapsed, backingOff, failureCount,
                   memberState, clockVars, objects, batch, faults>>

ExpiredDone(w) ==
    /\ pc[w] = "sweepRemove"
    /\ batch[w] = {}
    /\ Goto(w, "sweepOrphans")
    /\ UNCHANGED <<rowVars, clockVars, objects, runVars, batch, faults>>

\* Only failed runs are thought to leave objects behind.
WrongReadTerminal(w) ==
    LET rows == {e \in Exports : status[e] = "failed" /\ aged[e]} IN
    /\ pc[w] = "sweepOrphans"
    /\ \E B \in Page(rows) :
         /\ \A e \in B, d \in rows \ B : d < e
         /\ batch' = [batch EXCEPT ![w] = {Pair(e) : e \in B}]
    /\ Goto(w, "sweepList")
    /\ UNCHANGED <<rowVars, clockVars, objects, runVars, faults>>

\* sweepOrphanedLeaseObjects' query: the newest terminal exports past the
\* grace period, with the fileUrl each row shows now.
ReadTerminal(w) ==
    LET rows == {e \in Exports : status[e] \in Terminal /\ aged[e]} IN
    /\ pc[w] = "sweepOrphans"
    /\ \E B \in Page(rows) :
         /\ \A e \in B, d \in rows \ B : d < e
         /\ batch' = [batch EXCEPT ![w] = {Pair(e) : e \in B}]
    /\ Goto(w, "sweepList")
    /\ UNCHANGED <<rowVars, clockVars, objects, runVars, faults>>

\* List the prefix and delete all but the published object.  Listing and
\* deleting are one step: keys are written once and never reused.
RemoveOrphans(w, b) ==
    /\ pc[w] = "sweepList"
    /\ b \in batch[w]
    /\ \/ objects' = objects \ Orphans(b) /\ UNCHANGED faults
       \/ Orphans(b) # {} /\ Fault /\ UNCHANGED objects
    /\ batch' = [batch EXCEPT ![w] = @ \ {b}]
    /\ UNCHANGED <<rowVars, clockVars, pc, runVars>>

SweepDone(w) ==
    /\ pc[w] = "sweepList"
    /\ batch[w] = {}
    /\ Goto(w, "idle")
    /\ UNCHANGED <<rowVars, clockVars, objects, runVars, batch, faults>>

-----------------------------------------------------------------------------
RequestStep(e) ==
    \/ CreateExport(e)
    \/ RequestCancellation(e)
    \/ \E h \in BOOLEAN : SetHold(e, h)

ClockStep(e) == LeaseLapses(e) \/ BackoffEnds(e) \/ Expires(e) \/ Ages(e)

JobStep(w) ==
    \/ FindNextExportJob(w) \/ ClaimExport(w) \/ LoseClaim(w) \/ ReadRow(w)
    \/ SetProcessing(w) \/ FencedOut(w)
    \/ \E m \in Members, beat \in BOOLEAN : ProcessMember(w, m, beat)
    \/ FinishUpload(w)
    \/ PublishExport(w) \/ PublishRejected(w)
    \/ WithdrawArchive(w) \/ MarkMembersWritten(w)
    \/ CleanUp(w) \/ FailExport(w) \/ EndTick(w)

FailureStep(w) ==
    \/ \E why \in {"error", "cap"} : AssemblyFails(w, why)
    \/ PublishThrows(w) \/ MarkThrows(w) \/ Crash(w)

SweepStep(w) ==
    \/ StartSweep(w) \/ ReadExpired(w) \/ FilterHeld(w)
    \/ \E b \in batch[w] : RemoveExpired(w, b)
    \/ ForgetArchive(w) \/ ExpiredDone(w) \/ ReadTerminal(w)
    \/ \E b \in batch[w] : RemoveOrphans(w, b)
    \/ SweepDone(w)

Next ==
    \/ \E e \in Exports : RequestStep(e) \/ ClockStep(e)
    \/ \E w \in Workers : JobStep(w) \/ FailureStep(w) \/ SweepStep(w)

Spec == Init /\ [][Next]_vars

\* A worker's loop runs again after every tick and every restart, and sweeps
\* whenever the sweep is due and no job is waiting; clocks advance.  Nobody
\* has to request, cancel or hold anything, and nothing has to go wrong.
Fairness ==
    /\ \A w \in Workers : WF_vars(JobStep(w)) /\ WF_vars(SweepStep(w))
    /\ \A e \in Exports : /\ WF_vars(LeaseLapses(e) /\ UNCHANGED faults)
                          /\ WF_vars(BackoffEnds(e))
                          /\ WF_vars(Expires(e))
                          /\ WF_vars(Ages(e))

FairSpec == Spec /\ Fairness

-----------------------------------------------------------------------------
(* Types. *)

TypeOK ==
    /\ status \in [Exports -> Statuses]
    /\ leaseToken \in [Exports -> TokenOrNull]
    /\ lapsed \in [Exports -> BOOLEAN]
    /\ backingOff \in [Exports -> BOOLEAN]
    /\ failureCount \in [Exports -> Nat]
    /\ fileUrl \in [Exports -> TokenOrNull]
    /\ memberState \in [Exports -> [Members -> {"pending", "written"}]]
    /\ expired \in [Exports -> BOOLEAN]
    /\ aged \in [Exports -> BOOLEAN]
    /\ held \in [Exports -> BOOLEAN]
    /\ objects \subseteq Exports \X Tokens
    /\ pc \in [Workers -> Pcs]
    /\ job \in [Workers -> Exports]
    /\ token \in [Workers -> TokenOrNull]
    /\ failures \in [Workers -> Nat]
    /\ left \in [Workers -> SUBSET Members]
    /\ cause \in [Workers -> Causes]
    /\ batch \in [Workers -> SUBSET (Exports \X TokenOrNull)]
    /\ faults \in 0..MaxFaults

-----------------------------------------------------------------------------
(* Safety. *)

Working(w) == pc[w] \in JobPcs \ {"claim"}

\* The lease: two workers never both carry the token of the same export, so at
\* most one of them can still publish, fail or renew it, however late the other
\* one wakes up (exportLease.ts, claimExport and fencedUpdate).
OneHolder ==
    \A v, w \in Workers :
        Working(v) /\ Working(w) /\ job[v] = job[w] /\ Fenced(v) /\ Fenced(w)
            => v = w

Offered(e) == status[e] = "complete" /\ fileUrl[e] # NoToken

\* A completed export that has not expired can be downloaded: the object its
\* fileUrl names exists, whatever superseded workers, failed runs and sweeps
\* of other workers delete meanwhile (exportRunner.ts, exportSweeper.ts).
OfferedArchiveExists ==
    \A e \in Exports : Offered(e) /\ ~expired[e] => Pair(e) \in objects

\* finishFailedRun: a job goes back to the queue at most twice, so no export
\* fails more than MaxAttempts times although the count it decides on was read
\* before the run (exportRunner.ts, failureCount >= 2).
AttemptsBounded ==
    \A e \in Exports :
        /\ failureCount[e] <= MaxAttempts
        /\ status[e] \in Claimable => failureCount[e] < MaxAttempts

\* The detailed system implements the requester's view: every outcome is final
\* and an archive is offered by publication alone (spec Rev 3 AT-135).
Lifecycle == INSTANCE ExportLifecycle WITH
    outcome <- [e \in Exports |-> IF status[e] \in Claimable THEN "open"
                                                             ELSE status[e]],
    archive <- [e \in Exports |-> fileUrl[e] # NoToken]

ImplementsLifecycle == Lifecycle!LifecycleSpec

\* Not so: "A hold REFUSES the sweep" (exportSweeper.ts:111) would keep the bytes
\* of an archive that the row still names.  The holds are read once for a batch.
HeldArchiveExists ==
    \A e \in Exports : Offered(e) /\ held[e] => Pair(e) \in objects

(* Liveness. *)

\* Every requested export settles: a worker's crash, stall or failed run never
\* strands it, the lease lapses and another run takes it (findNextExportJob).
ExportsSettle ==
    \A e \in Exports :
        status[e] \in Claimable ~> status[e] \in Terminal

\* Superseded objects do not stay for ever: whatever a settled export does not
\* point at is deleted by some sweep (exportSweeper.ts:139, "For every export
\* that has reached a terminal state").
OrphansCollected ==
    \A e \in Exports, t \in Tokens :
        status[e] \in Terminal /\ <<e, t>> \in objects /\ fileUrl[e] # t
            ~> <<e, t>> \notin objects

\* An archive that expired and is not held loses its fileUrl by some sweep
\* (exportSweeper.ts:90 and :112, "the next pass picks it up").
ExpiredArchivesRetired ==
    \A e \in Exports : expired[e] ~> fileUrl[e] = NoToken \/ held[e]

=============================================================================
