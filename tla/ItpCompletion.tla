---------------------------- MODULE ItpCompletion ----------------------------
(***************************************************************************)
(* The checklist of one lot (routes/itp): items are completed, failed,     *)
(* verified and rejected, a failed item raises an NCR in its transaction,  *)
(* and after each result the lot's status follows the checklist            *)
(* (updateLotStatusFromITP) until the lot is conformed.                    *)
(*                                                                         *)
(* Requests overlap.  Recording a result reads and writes inside one       *)
(* transaction that holds the instance's row lock; verifying, rejecting    *)
(* and progressing read first and write later without any lock.  Items     *)
(* gated by a hold point and its conditions are in HoldPointRelease.       *)
(***************************************************************************)
EXTENDS FiniteSets, Naturals

CONSTANTS
    Items,
    TestItems,         \* items whose evidence is a test result
    Users,
    Subcontractors,    \* the users whose results wait for verification
    Devices,           \* the users whose edit may be queued offline
    Requests,          \* requests in flight at once
    ResultsInPlay,     \* the results that are recorded
    HandStatuses,      \* the statuses a person gives the lot by hand
    MaxNcrs,           \* bound on the NCRs raised for one item
    None

ASSUME ConstantsAssumption ==
    /\ TestItems \subseteq Items
    /\ Subcontractors \subseteq Users
    /\ Devices \subseteq Users
    /\ ResultsInPlay \subseteq {"pending", "completed", "not_applicable", "failed"}
    /\ HandStatuses \subseteq {"not_started", "in_progress", "awaiting_test", "hold_point",
                               "ncr_raised", "completed"}   \* validStatuses
    /\ MaxNcrs \in Nat \ {0}
    /\ None \notin Users

VARIABLES
    lotStatus,
    overridden,        \* conformanceOverriddenAt is set
    item,              \* the completion row of each item
    raised, open,      \* NCRs raised for the item, and those not closed
    marked,            \* items some NCR's rectificationNotes still names
    queued,            \* a device's queued edit and the row it was based on
    request

vars == <<lotStatus, overridden, item, raised, open, marked, queued, request>>
ncrVars == <<raised, open, marked>>

LotStatuses == {"not_started", "in_progress", "awaiting_test", "hold_point",
                "ncr_raised", "completed", "conformed", "claimed"}
Terminal == {"conformed", "claimed"}
Results == {"pending", "completed", "not_applicable", "failed"}
Accepting == {"completed", "not_applicable"}
Verifications == {"none", "pending_verification", "verified", "rejected"}

Row == [status : Results \cup {"none"}, ver : Verifications, by : Users \cup {None}]
NoRow == [status |-> "none", ver |-> "none", by |-> None]

\* What expectedPreviousCompletion compares (status, notes and completedAt; the
\* latter two by who completed the row).
Base(row) == [status |-> row.status, by |-> row.by]
Bases == [status : Results \cup {"none"}, by : Users \cup {None}]

Edit == [item : Items, to : Results, base : Bases]
NoEdit == [item |-> None, to |-> "pending", base |-> Base(NoRow)]

Idle == [at |-> "idle", item |-> None, user |-> None, to |-> "pending",
         resubmits |-> FALSE, move |-> "not_started"]
Request == [at : {"idle", "recording", "verifying", "rejecting", "progressing",
                  "moving"},
            item : Items \cup {None}, user : Users \cup {None}, to : Results,
            resubmits : BOOLEAN, move : LotStatuses \ Terminal]

Init ==
    /\ lotStatus = "not_started"
    /\ overridden = FALSE
    /\ item = [i \in Items |-> NoRow]
    /\ raised = [i \in Items |-> 0]
    /\ open = [i \in Items |-> 0]
    /\ marked = {}
    /\ queued = [u \in Devices |-> NoEdit]
    /\ request = [r \in Requests |-> Idle]

-----------------------------------------------------------------------------
(* Recording a result: POST /completions. *)

At(r, a) == request[r].at = a
Become(r, q) == request' = [request EXCEPT ![r] = q]

Finished(status) == status \in {"completed", "not_applicable", "failed"}

\* "none" stands for the undefined verification of a head contractor's result.
Computed(u, to) == IF u \in Subcontractors /\ Finished(to)
                   THEN "pending_verification" ELSE "none"

\* Nothing serializes two results of one checklist.
WrongUnlocked(r) == TRUE

\* SELECT ... FROM itp_instances FOR UPDATE.
Unlocked(r) == \A q \in Requests : ~At(q, "recording")

\* A submission that awaits review may be overwritten by anybody.
WrongRecordable(row, u, to) ==
    /\ row.ver # "verified"
    /\ row.status = "failed" => to = "failed"

\* The conflicts a result meets: verified, awaiting verification, failed.
Recordable(row, u, to) ==
    /\ row.ver # "verified"
    /\ row.ver = "pending_verification" => Computed(u, to) = "pending_verification"
    /\ row.status = "failed" => to = "failed"

BeginRecord(r, i, u, to) ==
    /\ At(r, "idle") /\ Unlocked(r)
    /\ Recordable(item[i], u, to)
    /\ Become(r, [Idle EXCEPT !.at = "recording", !.item = i, !.user = u,
                              !.to = to, !.resubmits = item[i].ver = "rejected"])

\* Online; a device with a queued edit is offline.
Record(r, i, u, to) ==
    /\ u \in Devices => queued[u] = NoEdit
    /\ BeginRecord(r, i, u, to)
    /\ UNCHANGED <<lotStatus, overridden, item, ncrVars, queued>>

\* The row somebody else wrote meanwhile is not compared.
WrongExpected(row, base) == TRUE

\* assertExpectedPreviousItpCompletion.
Expected(row, base) == Base(row) = base

\* The device is back online and its edit is posted with the row it saw.
Replay(r, u) ==
    LET e == queued[u]
    IN /\ e.item # None
       /\ Expected(item[e.item], e.base)
       /\ BeginRecord(r, e.item, u, e.to)
       /\ UNCHANGED <<lotStatus, overridden, item, ncrVars, queued>>

\* A 409: the client drops the edit and shows the server's row.
Discard(u) ==
    LET e == queued[u]
    IN /\ e.item # None
       /\ ~(Expected(item[e.item], e.base) /\ Recordable(item[e.item], u, e.to))
       /\ \A r \in Requests : ~(At(r, "recording") /\ request[r].user = u)
       /\ queued' = [queued EXCEPT ![u] = NoEdit]
       /\ UNCHANGED <<lotStatus, overridden, item, ncrVars, request>>

EnqueueEdit(u, i, to) ==
    /\ queued[u] = NoEdit
    /\ \A r \in Requests : request[r].user # u
    /\ queued' = [queued EXCEPT ![u] = [item |-> i, to |-> to, base |-> Base(item[i])]]
    /\ UNCHANGED <<lotStatus, overridden, item, ncrVars, request>>

\* The update's data: a rejected row is resubmitted, any other keeps its
\* verification unless one was computed (resolveItpRecompletionVerificationFields).
Recorded(row, q) ==
    LET computed == Computed(q.user, q.to)
    IN [status |-> q.to,
        by |-> IF Finished(q.to) THEN q.user ELSE None,
        ver |-> IF q.resubmits \/ computed # "none" THEN computed ELSE row.ver]

\* The NCR of a failed item is left to a later transaction.
WrongRaises(i, to) == FALSE

\* shouldCreateFailedItpNcr: no NCR of the lot names the item any more.
Raises(i, to) == to = "failed" /\ i \notin marked

WriteRecord(r) ==
    LET q == request[r]
        i == q.item
    IN /\ q.at = "recording"
       /\ item' = [item EXCEPT ![i] = Recorded(item[i], q)]
       /\ IF Raises(i, q.to)
          THEN /\ raised' = [raised EXCEPT ![i] = @ + 1]
               /\ open' = [open EXCEPT ![i] = @ + 1]
               /\ marked' = marked \cup {i}
               /\ lotStatus' = "ncr_raised"
          ELSE UNCHANGED <<ncrVars, lotStatus>>
       /\ queued' = [u \in Devices |-> IF u = q.user THEN NoEdit ELSE queued[u]]
       /\ Become(r, IF q.to \in Accepting THEN [Idle EXCEPT !.at = "progressing"] ELSE Idle)
       /\ UNCHANGED overridden

-----------------------------------------------------------------------------
(* Verification and rejection: read, then an unconditional update. *)

BeginVerify(r, i, u) ==
    /\ At(r, "idle")
    /\ item[i].status \in Accepting
    /\ item[i].ver \notin {"verified", "rejected"}
    /\ item[i].by # u
    /\ Become(r, [Idle EXCEPT !.at = "verifying", !.item = i, !.user = u])
    /\ UNCHANGED <<lotStatus, overridden, item, ncrVars, queued>>

BeginReject(r, i, u) ==
    /\ At(r, "idle")
    /\ item[i].ver = "pending_verification"
    /\ item[i].by # u
    /\ Become(r, [Idle EXCEPT !.at = "rejecting", !.item = i, !.user = u])
    /\ UNCHANGED <<lotStatus, overridden, item, ncrVars, queued>>

Verify(r) ==
    LET q == request[r]
    IN /\ q.at = "verifying"
       /\ item' = [item EXCEPT ![q.item].ver = "verified"]
       /\ Become(r, [Idle EXCEPT !.at = "progressing"])
       /\ UNCHANGED <<lotStatus, overridden, ncrVars, queued>>

Reject(r) ==
    LET q == request[r]
    IN /\ q.at = "rejecting"
       /\ item' = [item EXCEPT ![q.item].ver = "rejected"]
       /\ Become(r, Idle)
       /\ UNCHANGED <<lotStatus, overridden, ncrVars, queued>>

-----------------------------------------------------------------------------
(* updateLotStatusFromITP. *)

Accepted(i) == item[i].status \in Accepting
               /\ item[i].ver \notin {"pending_verification", "rejected"}
AllAccepted(is) == \A i \in is : Accepted(i)

\* The status the checklist calls for; the lot's own when nothing changes.
Target ==
    CASE lotStatus \in {"not_started", "in_progress"} /\ AllAccepted(Items)
           -> "completed"
      [] lotStatus \in {"not_started", "in_progress"} /\ ~AllAccepted(Items)
         /\ TestItems # {} /\ TestItems # Items /\ AllAccepted(Items \ TestItems)
           -> "awaiting_test"
      [] lotStatus = "not_started" /\ (\E i \in Items : Accepted(i))
         /\ ~(TestItems # {} /\ TestItems # Items /\ AllAccepted(Items \ TestItems))
         /\ ~AllAccepted(Items)
           -> "in_progress"
      [] lotStatus = "awaiting_test" /\ TestItems # {} /\ AllAccepted(TestItems)
           -> "completed"
      [] OTHER -> lotStatus

ReadProgress(r) ==
    /\ At(r, "progressing")
    /\ Become(r, IF Target = lotStatus \/ lotStatus \in Terminal \cup {"ncr_raised"}
                 THEN Idle ELSE [Idle EXCEPT !.at = "moving", !.move = Target])
    /\ UNCHANGED <<lotStatus, overridden, item, ncrVars, queued>>

MoveLot(r) ==
    /\ At(r, "moving")
    /\ lotStatus' = request[r].move
    /\ Become(r, Idle)
    /\ UNCHANGED <<overridden, item, ncrVars, queued>>

-----------------------------------------------------------------------------
(* NCRs and conformance, as far as the checklist tells them apart. *)

NoOpenNcr == \A i \in Items : open[i] = 0

\* Closing the last open NCR gives an NCR-raised lot back.
CloseNcr(i) ==
    /\ open[i] > 0
    /\ open' = [open EXCEPT ![i] = @ - 1]
    /\ lotStatus' = IF lotStatus = "ncr_raised" /\ NoOpenNcr' THEN "in_progress" ELSE lotStatus
    /\ UNCHANGED <<overridden, item, raised, marked, queued, request>>

\* Rectification notes replace the text that named the item; MaxNcrs bounds how
\* often, since the item's next failure raises another NCR.
ReplaceNotes(i) ==
    /\ open[i] > 0 /\ i \in marked /\ raised[i] < MaxNcrs
    /\ marked' = marked \ {i}
    /\ UNCHANGED <<lotStatus, overridden, item, raised, open, queued, request>>

\* buildItpChecklistCompleteness: a failed item is finished.
ChecklistComplete ==
    \A i \in Items : /\ Finished(item[i].status)
                     /\ item[i].ver \notin {"pending_verification", "rejected"}

Conform(force) ==
    /\ lotStatus \notin Terminal
    /\ force \/ (ChecklistComplete /\ NoOpenNcr)
    /\ lotStatus' = "conformed"
    /\ overridden' = (overridden \/ force)
    /\ UNCHANGED <<item, ncrVars, queued, request>>

\* override-status; leaving conformed clears the conformance stamp.
OverrideStatus(s) ==
    /\ lotStatus # "claimed"
    /\ lotStatus' = s
    /\ overridden' = (overridden /\ lotStatus # "conformed")
    /\ UNCHANGED <<item, ncrVars, queued, request>>

-----------------------------------------------------------------------------
Recording(r) ==
    \/ \E i \in Items, u \in Users, to \in ResultsInPlay : Record(r, i, u, to)
    \/ \E u \in Devices : Replay(r, u)
    \/ WriteRecord(r)

Reviewing(r) ==
    \/ \E i \in Items, u \in Users \ Subcontractors : BeginVerify(r, i, u) \/ BeginReject(r, i, u)
    \/ Verify(r) \/ Reject(r)

Next ==
    \/ \E r \in Requests : Recording(r) \/ Reviewing(r) \/ ReadProgress(r) \/ MoveLot(r)
    \/ \E u \in Devices : Discard(u) \/ \E i \in Items, to \in ResultsInPlay : EnqueueEdit(u, i, to)
    \/ \E i \in Items : CloseNcr(i) \/ ReplaceNotes(i)
    \/ \E force \in BOOLEAN : Conform(force)
    \/ \E s \in HandStatuses : OverrideStatus(s)

Spec == Init /\ [][Next]_vars

-----------------------------------------------------------------------------
(* Properties. *)

TypeOK ==
    /\ lotStatus \in LotStatuses
    /\ overridden \in BOOLEAN
    /\ item \in [Items -> Row]
    /\ raised \in [Items -> 0..MaxNcrs]
    /\ open \in [Items -> 0..MaxNcrs]
    /\ marked \subseteq Items
    /\ queued \in [Devices -> Edit \cup {NoEdit}]
    /\ request \in [Requests -> Request]

\* A failed result stands: no overlapping result that was checked before the
\* failure replaces it afterwards (the row lock of POST /completions).
FailureStands ==
    [][\A i \in Items : item[i].status = "failed" => item'[i].status = "failed"]_vars

\* A result awaiting review is still the finished result of the subcontractor
\* who submitted it, whatever is recorded, queued and replayed beside it
\* (assertPendingVerificationNotDowngraded).
SubmissionsKeepAuthor ==
    \A i \in Items : item[i].ver = "pending_verification" =>
        item[i].by \in Subcontractors /\ Finished(item[i].status)

\* An edit queued offline only ever replaces the result its author saw
\* (assertExpectedPreviousItpCompletion).
EditsReplaceWhatWasSeen ==
    [][\A u \in Devices :
          LET e == queued[u]
          IN e.item # None /\ queued'[u] = NoEdit /\ item' # item
                => Base(item[e.item]) = e.base]_vars

\* Without an override, a lot is conformed over a failed item only when an NCR
\* was raised for the failure and closed (POST /completions, lotConformable).
FailuresAnsweredBeforeConformance ==
    [][lotStatus # "conformed" /\ lotStatus' = "conformed" /\ ~overridden'
          => \A i \in Items : item[i].status = "failed" => raised[i] > 0 /\ open[i] = 0]_vars

\* Not so: "Only completed or not applicable ITP completions can be verified"
\* (completionVerificationRoutes).  The item may fail between check and update.
VerifiedIsFinished ==
    \A i \in Items : item[i].ver = "verified" => item[i].status \in Accepting

\* Not so: "Don't auto-progress lots that are conformed, claimed, or have NCRs"
\* (lotProgression.ts).  The lot may be conformed between the read and the write.
ProgressLeavesDecidedLots ==
    [][\A r \in Requests : At(r, "moving") /\ request'[r] = Idle
          => lotStatus \notin Terminal \cup {"ncr_raised"}]_vars

=============================================================================
