------------------------ MODULE ItpCompletionProofs ------------------------
(***************************************************************************)
(* Proofs about the checklist of a lot, for any items, users, devices and  *)
(* overlapping requests: submissions keep their author, failed results     *)
(* stand and are answered before the lot is conformed, and a queued edit   *)
(* replaces only what its author saw.                                      *)
(*                                                                         *)
(* A result is checked when its request takes the checklist's lock and     *)
(* written when it gives the lock back.  Verifications and rejections      *)
(* write without the lock in between, so the check is not simply still     *)
(* true at the write.  ChecksHold says what of it survives them.           *)
(***************************************************************************)
EXTENDS ItpCompletion, TLAPS

\* What a request under the lock may rely on: a failure still asks for a
\* failure and a submission for a submission, and an edit that was queued is
\* the one being recorded, over the row its author saw.
Holds(r) ==
    LET q == request[r]
        row == item[q.item]
    IN  /\ q.item \in Items /\ q.user \in Users
        /\ row.status = "failed" => q.to = "failed"
        /\ row.ver = "pending_verification" => Computed(q.user, q.to) = "pending_verification"
        /\ q.user \in Devices /\ queued[q.user].item # None =>
              queued[q.user].item = q.item /\ queued[q.user].base = Base(row)

ChecksHold == \A r \in Requests : At(r, "recording") => Holds(r)

OneRecorder ==
    \A r, q \in Requests : At(r, "recording") /\ At(q, "recording") => r = q

ReviewsName == \A r \in Requests : request[r].at \in {"verifying", "rejecting"} =>
                                      request[r].item \in Items

\* The NCRs of an item: a failed item has one, so has one that an NCR names,
\* and one that no NCR names may get another.
FailuresRaise ==
    \A i \in Items :
        /\ open[i] <= raised[i]
        /\ item[i].status = "failed" \/ i \in marked => raised[i] > 0
        /\ i \notin marked => raised[i] < MaxNcrs

IInv == /\ TypeOK /\ ReviewsName /\ ChecksHold /\ OneRecorder
        /\ FailuresRaise /\ SubmissionsKeepAuthor

\* What becomes of a request that has written: it is over, or progresses the lot.
LEMMA IdleTyped ==
    /\ Idle \in Request /\ Idle.at = "idle"
    /\ [Idle EXCEPT !.at = "progressing"] \in Request
    /\ [Idle EXCEPT !.at = "progressing"].at = "progressing"
BY DEF Idle, Request, Results, LotStatuses, Terminal

LEMMA InitIInv == Init => IInv
<1> SUFFICES ASSUME Init PROVE IInv
  OBVIOUS
<1>1. TypeOK
  <2>1. NoRow \in Row
    BY DEF NoRow, Row, Verifications
  <2>2. 0 \in 0..MaxNcrs
    BY ConstantsAssumption
  <2> QED BY <2>1, <2>2, IdleTyped DEF Init, TypeOK, LotStatuses
<1>2. ReviewsName /\ ChecksHold /\ OneRecorder
  BY DEF Init, ReviewsName, ChecksHold, OneRecorder, At, Idle
<1>3. FailuresRaise
  BY ConstantsAssumption DEF Init, FailuresRaise, NoRow
<1>4. SubmissionsKeepAuthor
  BY DEF Init, SubmissionsKeepAuthor, NoRow
<1> QED BY <1>1, <1>2, <1>3, <1>4 DEF IInv

-----------------------------------------------------------------------------
(* Steps that write no row of the checklist. *)

\* A request that did not take the lock keeps what it relied on.
LEMMA RowsUntouched ==
    ASSUME IInv, UNCHANGED item,
           \A r \in Requests : request'[r] = request[r] \/ request'[r].at \notin
                                  {"recording", "verifying", "rejecting"},
           \A u \in Devices : queued'[u] = queued[u]
    PROVE  ReviewsName' /\ ChecksHold' /\ OneRecorder' /\ SubmissionsKeepAuthor'
<1>1. ReviewsName'
  BY DEF IInv, ReviewsName
<1>2. ChecksHold'
  BY DEF IInv, ChecksHold, Holds, At, Base, Computed
<1>3. OneRecorder'
  BY DEF IInv, OneRecorder, At
<1>4. SubmissionsKeepAuthor'
  BY DEF IInv, SubmissionsKeepAuthor
<1> QED BY <1>1, <1>2, <1>3, <1>4

LEMMA BeginRecordStep ==
    ASSUME IInv, NEW r \in Requests, NEW i \in Items, NEW u \in Users, NEW to \in Results,
           BeginRecord(r, i, u, to),
           u \in Devices => \/ queued[u].item = None
                            \/ queued[u].item = i /\ queued[u].base = Base(item[i]),
           UNCHANGED <<lotStatus, overridden, item, ncrVars, queued>>
    PROVE  IInv'
<1> DEFINE q == [Idle EXCEPT !.at = "recording", !.item = i, !.user = u, !.to = to,
                             !.resubmits = item[i].ver = "rejected"]
<1>1. q \in Request /\ q.at = "recording" /\ q.item = i /\ q.user = u /\ q.to = to
  BY DEF Idle, Request, LotStatuses, Terminal
<1>2. request' = [request EXCEPT ![r] = q] /\ request \in [Requests -> Request]
  BY DEF BeginRecord, Become, IInv, TypeOK
<1> HIDE DEF q
<1>3. request' \in [Requests -> Request] /\ request'[r] = q
      /\ \A s \in Requests \ {r} : request'[s] = request[s]
  BY <1>1, <1>2
<1>4. TypeOK'
  BY <1>3 DEF IInv, TypeOK, ncrVars
<1>5. ReviewsName'
  BY <1>1, <1>3 DEF IInv, ReviewsName
<1>6. ChecksHold'
  <2> SUFFICES ASSUME NEW s \in Requests, At(s, "recording")' PROVE Holds(s)'
    BY DEF ChecksHold
  <2>1. CASE s # r
    BY <1>3, <2>1 DEF IInv, ChecksHold, Holds, At, Base, Computed
  <2>2. CASE s = r
    BY <1>1, <1>3, <2>2 DEF BeginRecord, Recordable, Holds, Base, Computed
  <2> QED BY <2>1, <2>2
<1>7. OneRecorder'
  BY <1>3 DEF IInv, OneRecorder, At, BeginRecord, Unlocked
<1>8. FailuresRaise' /\ SubmissionsKeepAuthor'
  BY DEF IInv, FailuresRaise, SubmissionsKeepAuthor, ncrVars
<1> QED BY <1>4, <1>5, <1>6, <1>7, <1>8 DEF IInv

LEMMA RecordStep ==
    ASSUME IInv, NEW r \in Requests, NEW i \in Items, NEW u \in Users, NEW to \in ResultsInPlay,
           Record(r, i, u, to)
    PROVE  IInv'
<1>1. to \in Results
  BY ConstantsAssumption DEF Results
<1>2. u \in Devices => queued[u].item = None
  BY DEF Record, NoEdit
<1> QED BY <1>1, <1>2, BeginRecordStep DEF Record

LEMMA ReplayStep ==
    ASSUME IInv, NEW r \in Requests, NEW u \in Devices, Replay(r, u)
    PROVE  IInv'
<1>1. u \in Users
  BY ConstantsAssumption
<1>2. queued[u] \in Edit
  BY DEF IInv, TypeOK, Replay, NoEdit
<1>3. queued[u].item \in Items /\ queued[u].to \in Results
  BY <1>2 DEF Edit
<1>4. queued[u].base = Base(item[queued[u].item])
  BY DEF Replay, Expected
<1> QED BY <1>1, <1>3, <1>4, BeginRecordStep DEF Replay

LEMMA WriteRecordStep ==
    ASSUME IInv, NEW r \in Requests, WriteRecord(r)
    PROVE  IInv'
<1> DEFINE q == request[r]
           i == q.item
           row == Recorded(item[i], q)
<1>1. At(r, "recording") /\ Holds(r) /\ q \in Request /\ i \in Items /\ q.user \in Users
  BY DEF WriteRecord, At, IInv, ChecksHold, Holds, TypeOK
<1>2. /\ q.to \in Results /\ item[i] \in Row
      /\ item \in [Items -> Row] /\ item' = [item EXCEPT ![i] = row]
  BY <1>1 DEF WriteRecord, IInv, TypeOK, Request
<1>3. /\ row.status = q.to
      /\ row.by = IF Finished(q.to) THEN q.user ELSE None
      /\ row.ver \in {Computed(q.user, q.to), item[i].ver}
      /\ Computed(q.user, q.to) # "none" => row.ver = Computed(q.user, q.to)
      /\ row = [status |-> row.status, by |-> row.by, ver |-> row.ver]
  BY DEF Recorded
<1>4. row \in Row
  BY <1>1, <1>2, <1>3 DEF Row, Verifications, Computed
<1>5. item'[i] = row /\ item' \in [Items -> Row] /\ \A j \in Items \ {i} : item'[j] = item[j]
  BY <1>2, <1>4, <1>1
<1> HIDE DEF row
<1>6. /\ request' \in [Requests -> Request]
      /\ request'[r].at \notin {"recording", "verifying", "rejecting"}
      /\ \A s \in Requests \ {r} : request'[s] = request[s]
  <2>1. \E p \in {Idle, [Idle EXCEPT !.at = "progressing"]} : request' = [request EXCEPT ![r] = p]
    BY DEF WriteRecord, Become
  <2>2. \A p \in {Idle, [Idle EXCEPT !.at = "progressing"]} :
            p \in Request /\ p.at \notin {"recording", "verifying", "rejecting"}
    BY IdleTyped
  <2> QED BY <2>1, <2>2 DEF IInv, TypeOK
<1>7. \A s \in Requests : request'[s].at # "recording"
  BY <1>1, <1>6 DEF IInv, OneRecorder, At
<1>8. ReviewsName' /\ ChecksHold' /\ OneRecorder'
  BY <1>6, <1>7 DEF IInv, ReviewsName, ChecksHold, OneRecorder, At
<1>9. /\ queued' \in [Devices -> Edit \cup {NoEdit}]
      /\ overridden' \in BOOLEAN /\ lotStatus' \in LotStatuses
  BY DEF WriteRecord, IInv, TypeOK, LotStatuses
<1>10. /\ raised' \in [Items -> 0..MaxNcrs] /\ open' \in [Items -> 0..MaxNcrs]
       /\ marked' \subseteq Items /\ FailuresRaise'
  <2>1. CASE Raises(i, q.to)
    <3>1. /\ raised' = [raised EXCEPT ![i] = @ + 1] /\ open' = [open EXCEPT ![i] = @ + 1]
          /\ marked' = marked \cup {i} /\ i \notin marked
      BY <2>1 DEF WriteRecord, Raises
    <3>2. raised[i] < MaxNcrs /\ open[i] <= raised[i] /\ raised[i] \in Nat /\ open[i] \in Nat
          /\ MaxNcrs \in Nat
      BY <1>1, <3>1, ConstantsAssumption DEF IInv, TypeOK, FailuresRaise
    <3>3. raised' \in [Items -> 0..MaxNcrs] /\ open' \in [Items -> 0..MaxNcrs]
      <4>1. raised[i] + 1 \in 0..MaxNcrs /\ open[i] + 1 \in 0..MaxNcrs
        BY <3>2
      <4> QED BY <3>1, <4>1 DEF IInv, TypeOK
    <3>4. FailuresRaise'
      BY <1>1, <1>5, <3>1, <3>2, ConstantsAssumption DEF IInv, TypeOK, FailuresRaise
    <3> QED BY <1>1, <3>1, <3>3, <3>4 DEF IInv, TypeOK
  <2>2. CASE ~Raises(i, q.to)
    <3>1. UNCHANGED ncrVars
      BY <2>2 DEF WriteRecord
    <3>2. row.status = "failed" => i \in marked
      BY <1>3, <2>2 DEF Raises
    <3> QED BY <1>5, <3>1, <3>2 DEF IInv, TypeOK, FailuresRaise, ncrVars
  <2> QED BY <2>1, <2>2
<1>11. SubmissionsKeepAuthor'
  <2>1. row.ver = "pending_verification" => Computed(q.user, q.to) = "pending_verification"
    BY <1>1, <1>3 DEF Holds
  <2>2. row.ver = "pending_verification" => row.by \in Subcontractors /\ Finished(row.status)
    BY <1>3, <2>1 DEF Computed
  <2> QED BY <1>5, <2>2 DEF IInv, SubmissionsKeepAuthor
<1> QED BY <1>5, <1>6, <1>8, <1>9, <1>10, <1>11 DEF IInv, TypeOK

-----------------------------------------------------------------------------
(* Reviews: the check, and the write that no lock protects. *)

LEMMA BeginReviewStep ==
    ASSUME IInv, NEW r \in Requests, NEW i \in Items, NEW u \in Users,
           BeginVerify(r, i, u) \/ BeginReject(r, i, u)
    PROVE  IInv'
<1>1. PICK at \in {"verifying", "rejecting"} :
         request' = [request EXCEPT ![r] = [Idle EXCEPT !.at = at, !.item = i, !.user = u]]
  BY DEF BeginVerify, BeginReject, Become
<1> DEFINE q == [Idle EXCEPT !.at = at, !.item = i, !.user = u]
<1>2. q \in Request /\ q.at = at /\ q.item = i
  BY DEF Idle, Request, Results, LotStatuses, Terminal
<1> HIDE DEF q
<1>3. /\ request' \in [Requests -> Request] /\ request'[r] = q
      /\ \A s \in Requests \ {r} : request'[s] = request[s]
  BY <1>1, <1>2 DEF IInv, TypeOK, q
<1>4. UNCHANGED <<lotStatus, overridden, item, ncrVars, queued>>
  BY DEF BeginVerify, BeginReject
<1>5. TypeOK' /\ FailuresRaise' /\ SubmissionsKeepAuthor'
  BY <1>3, <1>4 DEF IInv, TypeOK, FailuresRaise, SubmissionsKeepAuthor, ncrVars
<1>6. ReviewsName'
  BY <1>2, <1>3 DEF IInv, ReviewsName
<1>7. ChecksHold' /\ OneRecorder'
  BY <1>2, <1>3, <1>4 DEF IInv, ChecksHold, OneRecorder, At, Holds, Base, Computed
<1> QED BY <1>5, <1>6, <1>7 DEF IInv

LEMMA ReviewStep ==
    ASSUME IInv, NEW r \in Requests, Verify(r) \/ Reject(r)
    PROVE  IInv'
<1> DEFINE i == request[r].item
<1>1. i \in Items
  BY DEF Verify, Reject, IInv, ReviewsName
<1>2. PICK v \in {"verified", "rejected"} : item' = [item EXCEPT ![i].ver = v]
  BY DEF Verify, Reject
<1>3. item[i] \in Row /\ item \in [Items -> Row]
  BY <1>1 DEF IInv, TypeOK
<1>4. /\ item' \in [Items -> Row] /\ item'[i].ver = v
      /\ item'[i].status = item[i].status /\ item'[i].by = item[i].by
      /\ \A j \in Items \ {i} : item'[j] = item[j]
  BY <1>1, <1>2, <1>3 DEF Row, Verifications
<1>5. \A j \in Items : /\ item'[j].status = item[j].status /\ Base(item'[j]) = Base(item[j])
                       /\ item'[j].ver = "pending_verification" => item'[j] = item[j]
  BY <1>4 DEF Base
<1>6. /\ request' \in [Requests -> Request]
      /\ request'[r].at \notin {"recording", "verifying", "rejecting"}
      /\ \A s \in Requests \ {r} : request'[s] = request[s]
  <2>1. \E p \in {Idle, [Idle EXCEPT !.at = "progressing"]} : request' = [request EXCEPT ![r] = p]
    BY DEF Verify, Reject, Become
  <2>2. \A p \in {Idle, [Idle EXCEPT !.at = "progressing"]} :
            p \in Request /\ p.at \notin {"recording", "verifying", "rejecting"}
    BY IdleTyped
  <2> QED BY <2>1, <2>2 DEF IInv, TypeOK
<1>7. UNCHANGED <<lotStatus, overridden, ncrVars, queued>>
  BY DEF Verify, Reject
<1>8. TypeOK'
  BY <1>4, <1>6, <1>7 DEF IInv, TypeOK, ncrVars
<1>9. ReviewsName' /\ OneRecorder'
  BY <1>6 DEF IInv, ReviewsName, OneRecorder, At
<1>10. ChecksHold'
  <2> SUFFICES ASSUME NEW s \in Requests, At(s, "recording")' PROVE Holds(s)'
    BY DEF ChecksHold
  <2>1. s # r /\ request'[s] = request[s] /\ Holds(s)
    BY <1>6 DEF At, IInv, ChecksHold
  <2> QED BY <1>5, <1>7, <2>1 DEF Holds, Computed
<1>11. FailuresRaise' /\ SubmissionsKeepAuthor'
  BY <1>5, <1>7 DEF IInv, FailuresRaise, SubmissionsKeepAuthor, ncrVars
<1> QED BY <1>8, <1>9, <1>10, <1>11 DEF IInv

-----------------------------------------------------------------------------
(* The lot, its NCRs and the device. *)

LEMMA ProgressStep ==
    ASSUME IInv, NEW r \in Requests, ReadProgress(r) \/ MoveLot(r)
    PROVE  IInv'
<1>1. Target # lotStatus => Target \in LotStatuses \ Terminal
  BY DEF Target, LotStatuses, Terminal
<1>2. \E p : /\ p \in Request /\ p.at \notin {"recording", "verifying", "rejecting"}
            /\ request' = [request EXCEPT ![r] = p]
  <2>1. Target # lotStatus => [Idle EXCEPT !.at = "moving", !.move = Target] \in Request
    BY <1>1 DEF Idle, Request, Results
  <2> QED BY <2>1, IdleTyped DEF ReadProgress, MoveLot, Become, Idle
<1>3. /\ request' \in [Requests -> Request]
      /\ request'[r].at \notin {"recording", "verifying", "rejecting"}
      /\ \A s \in Requests \ {r} : request'[s] = request[s]
  BY <1>2 DEF IInv, TypeOK
<1>4. lotStatus' \in LotStatuses
  BY DEF ReadProgress, MoveLot, IInv, TypeOK, Request
<1>5. UNCHANGED <<overridden, item, ncrVars, queued>>
  BY DEF ReadProgress, MoveLot
<1>6. TypeOK' /\ FailuresRaise'
  BY <1>3, <1>4, <1>5 DEF IInv, TypeOK, FailuresRaise, ncrVars
<1> QED BY <1>3, <1>5, <1>6, RowsUntouched DEF IInv

LEMMA NcrStep ==
    ASSUME IInv, NEW i \in Items, CloseNcr(i) \/ ReplaceNotes(i)
    PROVE  IInv'
<1>1. /\ open[i] \in 0..MaxNcrs /\ raised[i] \in 0..MaxNcrs /\ open[i] > 0
      /\ open[i] <= raised[i] /\ MaxNcrs \in Nat
  BY ConstantsAssumption DEF IInv, TypeOK, FailuresRaise, CloseNcr, ReplaceNotes
<1>2. TypeOK' /\ FailuresRaise'
  <2>1. CASE CloseNcr(i)
    BY <1>1, <2>1 DEF CloseNcr, IInv, TypeOK, FailuresRaise, LotStatuses
  <2>2. CASE ReplaceNotes(i)
    BY <1>1, <2>2 DEF ReplaceNotes, IInv, TypeOK, FailuresRaise
  <2> QED BY <2>1, <2>2
<1>3. UNCHANGED <<item, queued, request>>
  BY DEF CloseNcr, ReplaceNotes
<1> QED BY <1>2, <1>3, RowsUntouched DEF IInv

LEMMA LotStep ==
    ASSUME IInv, (\E force \in BOOLEAN : Conform(force)) \/ (\E s \in HandStatuses : OverrideStatus(s))
    PROVE  IInv'
<1>1. lotStatus' \in LotStatuses /\ overridden' \in BOOLEAN /\ UNCHANGED <<item, ncrVars, queued, request>>
  BY ConstantsAssumption DEF Conform, OverrideStatus, LotStatuses, IInv, TypeOK
<1>2. TypeOK' /\ FailuresRaise'
  BY <1>1 DEF IInv, TypeOK, FailuresRaise, ncrVars
<1> QED BY <1>1, <1>2, RowsUntouched DEF IInv

LEMMA DeviceStep ==
    ASSUME IInv, NEW u \in Devices,
           Discard(u) \/ \E i \in Items, to \in ResultsInPlay : EnqueueEdit(u, i, to)
    PROVE  IInv'
<1>1. UNCHANGED <<lotStatus, overridden, item, ncrVars, request>>
  BY DEF Discard, EnqueueEdit
<1>2. \E e \in Edit \cup {NoEdit} : queued' = [queued EXCEPT ![u] = e]
  <2>1. ASSUME NEW i \in Items, NEW to \in ResultsInPlay, EnqueueEdit(u, i, to)
        PROVE  [item |-> i, to |-> to, base |-> Base(item[i])] \in Edit
    <3>1. item[i] \in Row
      BY DEF IInv, TypeOK
    <3>2. Base(item[i]) \in Bases
      BY <3>1 DEF Base, Bases, Row
    <3> QED BY <3>2, ConstantsAssumption DEF Edit, Results
  <2> QED BY <2>1 DEF Discard, EnqueueEdit
<1>3. \A r \in Requests : At(r, "recording") => request[r].user # u
  BY DEF Discard, EnqueueEdit
<1>4. TypeOK' /\ FailuresRaise' /\ ReviewsName' /\ OneRecorder' /\ SubmissionsKeepAuthor'
  BY <1>1, <1>2 DEF IInv, TypeOK, FailuresRaise, ReviewsName, OneRecorder, SubmissionsKeepAuthor,
                    ncrVars, At
<1>5. ChecksHold'
  BY <1>1, <1>2, <1>3 DEF IInv, TypeOK, ChecksHold, Holds, At, Base, Computed
<1> QED BY <1>4, <1>5 DEF IInv

-----------------------------------------------------------------------------
(* The invariant and what it gives. *)

LEMMA StepIInv == IInv /\ [Next]_vars => IInv'
<1> SUFFICES ASSUME IInv, [Next]_vars PROVE IInv'
  OBVIOUS
<1>1. ASSUME NEW r \in Requests, Recording(r) PROVE IInv'
  BY <1>1, RecordStep, ReplayStep, WriteRecordStep DEF Recording
<1>2. ASSUME NEW r \in Requests, Reviewing(r) PROVE IInv'
  BY <1>2, BeginReviewStep, ReviewStep DEF Reviewing
<1>3. ASSUME NEW r \in Requests, ReadProgress(r) \/ MoveLot(r) PROVE IInv'
  BY <1>3, ProgressStep
<1>4. ASSUME NEW u \in Devices,
             Discard(u) \/ \E i \in Items, to \in ResultsInPlay : EnqueueEdit(u, i, to)
      PROVE  IInv'
  BY <1>4, DeviceStep
<1>5. ASSUME NEW i \in Items, CloseNcr(i) \/ ReplaceNotes(i) PROVE IInv'
  BY <1>5, NcrStep
<1>6. CASE (\E force \in BOOLEAN : Conform(force)) \/ (\E s \in HandStatuses : OverrideStatus(s))
  BY <1>6, LotStep
<1>7. CASE UNCHANGED vars
  <2>1. TypeOK' /\ FailuresRaise'
    BY <1>7 DEF IInv, TypeOK, FailuresRaise, vars
  <2> QED BY <1>7, <2>1, RowsUntouched DEF IInv, vars
<1> QED BY <1>1, <1>2, <1>3, <1>4, <1>5, <1>6, <1>7 DEF Next

LEMMA SpecIInv == Spec => []IInv
<1> QED BY InitIInv, StepIInv, PTL DEF Spec

\* Every variable has its type; in particular an item never raises more NCRs
\* than MaxNcrs, and never closes one it did not raise.
THEOREM TypeCorrect == Spec => []TypeOK
<1>1. IInv => TypeOK
  BY DEF IInv
<1> QED BY <1>1, SpecIInv, PTL

\* A result that waits for review stays the finished result of its subcontractor,
\* however submissions, amendments, reviews and replayed edits overlap
\* (assertPendingVerificationNotDowngraded).
THEOREM SubmissionsKept == Spec => []SubmissionsKeepAuthor
<1>1. IInv => SubmissionsKeepAuthor
  BY DEF IInv
<1> QED BY <1>1, SpecIInv, PTL

\* The only writer of a status is the request under the lock.
LEMMA StatusWrites ==
    ASSUME IInv, [Next]_vars, NEW i \in Items, item'[i].status # item[i].status
    PROVE  \E r \in Requests : WriteRecord(r)
<1>1. item' # item
  OBVIOUS
<1>2. ASSUME NEW r \in Requests, Verify(r) \/ Reject(r) PROVE item'[i].status = item[i].status
  <2>1. item[i] \in Row /\ item \in [Items -> Row]
    BY DEF IInv, TypeOK
  <2>2. \E v : item' = [item EXCEPT ![request[r].item].ver = v]
    BY <1>2 DEF Verify, Reject
  <2> QED BY <2>1, <2>2 DEF Row
<1> QED BY <1>1, <1>2
        DEF Next, vars, Recording, Reviewing, Record, Replay, BeginVerify, BeginReject, ReadProgress,
            MoveLot, Discard, EnqueueEdit, CloseNcr, ReplaceNotes, Conform, OverrideStatus

\* What the request under the lock writes, over a row of which its check holds.
LEMMA WritesChecked ==
    ASSUME IInv, NEW r \in Requests, WriteRecord(r)
    PROVE  LET q == request[r]
           IN  /\ Holds(r) /\ q.item \in Items
               /\ item'[q.item].status = q.to
               /\ \A i \in Items \ {q.item} : item'[i] = item[i]
               /\ queued' = [u \in Devices |-> IF u = q.user THEN NoEdit ELSE queued[u]]
<1>1. Holds(r) /\ request[r].item \in Items
  BY DEF IInv, ChecksHold, At, WriteRecord, Holds
<1> QED BY <1>1 DEF WriteRecord, Recorded, IInv, TypeOK

\* A failed result is never replaced, whatever was checked before it failed
\* (POST /completions under the row lock of the checklist).
THEOREM FailuresStand == Spec => FailureStands
<1>1. IInv /\ [Next]_vars =>
        [\A i \in Items : item[i].status = "failed" => item'[i].status = "failed"]_vars
  <2> SUFFICES ASSUME IInv, [Next]_vars, NEW i \in Items, item[i].status = "failed",
                      item'[i].status # "failed"
               PROVE  FALSE
    OBVIOUS
  <2>1. PICK r \in Requests : WriteRecord(r)
    BY StatusWrites
  <2>2. i = request[r].item
    BY <2>1, WritesChecked
  <2> QED BY <2>1, <2>2, WritesChecked DEF Holds
<1> QED BY <1>1, SpecIInv, PTL DEF Spec, FailureStands

\* When a queued edit reaches the checklist, the row it replaces is the one its
\* author saw (assertExpectedPreviousItpCompletion).
THEOREM EditsReplaceTheSeen == Spec => EditsReplaceWhatWasSeen
<1> DEFINE Seen == \A u \in Devices :
               LET e == queued[u]
               IN e.item # None /\ queued'[u] = NoEdit /\ item' # item
                     => Base(item[e.item]) = e.base
<1>1. ASSUME IInv, [Next]_vars PROVE Seen
  <2> SUFFICES ASSUME NEW u \in Devices, queued[u].item # None, queued'[u] = NoEdit, item' # item
               PROVE  Base(item[queued[u].item]) = queued[u].base
    OBVIOUS
  <2>1. queued'[u] # queued[u]
    BY DEF NoEdit
  <2>2. PICK r \in Requests : WriteRecord(r)
    BY <1>1, <2>1
       DEF Next, vars, Recording, Reviewing, Record, Replay, BeginVerify, BeginReject, Verify, Reject,
           ReadProgress, MoveLot, Discard, EnqueueEdit, CloseNcr, ReplaceNotes, Conform, OverrideStatus
  <2>3. u = request[r].user
    BY <1>1, <2>1, <2>2, WritesChecked
  <2> QED BY <1>1, <2>2, <2>3, WritesChecked DEF Holds
<1>2. IInv /\ [Next]_vars => [Seen]_vars
  BY <1>1
<1> QED BY <1>2, SpecIInv, PTL DEF Spec, EditsReplaceWhatWasSeen

\* Without an override a lot is conformed over a failed item only when the NCR
\* of the failure was raised and is closed (POST /completions, lotConformable).
THEOREM FailuresAnswered == Spec => FailuresAnsweredBeforeConformance
<1> DEFINE Answered == lotStatus # "conformed" /\ lotStatus' = "conformed" /\ ~overridden'
               => \A i \in Items : item[i].status = "failed" => raised[i] > 0 /\ open[i] = 0
<1>1. ASSUME IInv, [Next]_vars PROVE Answered
  <2> SUFFICES ASSUME lotStatus # "conformed", lotStatus' = "conformed", ~overridden',
                      NEW i \in Items, item[i].status = "failed"
               PROVE  raised[i] > 0 /\ open[i] = 0
    OBVIOUS
  <2>1. raised[i] > 0
    BY <1>1 DEF IInv, FailuresRaise
  <2>2. PICK force \in BOOLEAN : Conform(force)
    <3>1. ASSUME NEW r \in Requests, MoveLot(r) PROVE FALSE
      BY <1>1, <3>1 DEF MoveLot, IInv, TypeOK, Request, Terminal
    <3>2. ASSUME NEW s \in HandStatuses, OverrideStatus(s) PROVE FALSE
      BY <3>2, ConstantsAssumption DEF OverrideStatus
    <3>3. ASSUME NEW r \in Requests, Recording(r) \/ Reviewing(r) \/ ReadProgress(r) PROVE FALSE
      BY <3>3 DEF Recording, Reviewing, Record, Replay, WriteRecord, BeginVerify, BeginReject,
                  Verify, Reject, ReadProgress
    <3> QED BY <1>1, <3>1, <3>2, <3>3 DEF Next, vars, Discard, EnqueueEdit, CloseNcr, ReplaceNotes
  <2>3. NoOpenNcr
    BY <2>2 DEF Conform
  <2> QED BY <2>1, <2>3 DEF NoOpenNcr
<1>2. IInv /\ [Next]_vars => [Answered]_vars
  BY <1>1
<1> QED BY <1>2, SpecIInv, PTL DEF Spec, FailuresAnsweredBeforeConformance

=============================================================================
