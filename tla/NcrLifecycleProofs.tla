------------------------- MODULE NcrLifecycleProofs -------------------------
(***************************************************************************)
(* Proofs about NCRs: the variables keep their types, a closed major NCR   *)
(* was approved by somebody other than its closer, and a notification      *)
(* claim has one holder, for any number of lots, NCRs, users and requests. *)
(*                                                                         *)
(* The closure's guard is evaluated on a snapshot.  What makes it hold at  *)
(* the commit is that every handler that writes an NCR's row refuses the   *)
(* closures in flight on that row, so a closure that is not stale still    *)
(* sees the row it decided on (SnapshotsHold).                             *)
(***************************************************************************)
EXTENDS NcrLifecycle, TLAPS

\* A closure in flight that is not stale rests on the row as it still is.
Rests(c) ==
    closer[c].ncr # None /\ ~closer[c].stale =>
        /\ ncr[closer[c].ncr].status = "verification"
        /\ closer[c].ncr \in Major => ncr[closer[c].ncr].approver \notin {None, closer[c].user}

SnapshotsHold == \A c \in Closers : Rests(c)

\* Only existing major NCRs are notified, and a screened creation has no row.
SendersHoldMajors ==
    /\ \A s \in Senders : sender[s] # None => sender[s] \in Major /\ ncr[sender[s]].status # "none"
    /\ \A n \in screened : ncr[n].status = "none"

IInv == TypeOK /\ SendersHoldMajors /\ SnapshotsHold /\ MajorClosedIndependently /\ OneNotifier

-----------------------------------------------------------------------------
(* Rows and closures. *)

\* What independence asks of a row.
Independent(n, row) ==
    n \in Major /\ row.status \in Closed => row.approver # None /\ row.approver # row.closer

\* The closures that go on after a write of NCR n are those of other NCRs.
Spares(n) ==
    \A c \in Closers : closer'[c].ncr # None /\ ~closer'[c].stale =>
        closer'[c] = closer[c] /\ closer[c].ncr # n

\* A commit keeps the closures well typed.
LEMMA ConflictsType ==
    ASSUME NEW rows, NEW b \in BOOLEAN, closer \in [Closers -> Closing], Conflicts(rows, b)
    PROVE  closer' \in [Closers -> Closing]
BY DEF Conflicts, Closing

\* A commit that writes row n refuses the closures of n, and leaves the
\* others as they are unless it refuses them too.
LEMMA ConflictsSpare ==
    ASSUME NEW rows, NEW b \in BOOLEAN, closer \in [Closers -> Closing],
           NEW n \in rows, Conflicts(rows, b)
    PROVE  Spares(n)
<1> SUFFICES ASSUME NEW c \in Closers, closer'[c].ncr # None, ~closer'[c].stale
             PROVE  closer'[c] = closer[c] /\ closer[c].ncr # n
  BY DEF Spares
<1>1. closer'[c] = IF closer[c].ncr # None
           /\ rows \cap (Written(c) \cup IF b THEN ReadBy(c) ELSE {}) # {}
        THEN [closer[c] EXCEPT !.stale = TRUE] ELSE closer[c]
  BY DEF Conflicts
<1>2. closer[c] \in Closing
  OBVIOUS
<1>3. closer'[c] = closer[c]
  BY <1>1, <1>2 DEF Closing
<1>4. ASSUME closer[c].ncr = n PROVE FALSE
  <2>1. n \in rows \cap (Written(c) \cup IF b THEN ReadBy(c) ELSE {})
    BY <1>4 DEF Written
  <2>2. closer[c].ncr # None
    BY <1>3
  <2>3. closer'[c] = [closer[c] EXCEPT !.stale = TRUE]
    BY <1>1, <2>1, <2>2
  <2> QED BY <2>3, <1>2 DEF Closing
<1> QED BY <1>3, <1>4

\* Commits that write no row of a closure leave it on the row it read.
LEMMA ConflictsKeep ==
    ASSUME NEW rows, NEW b \in BOOLEAN, closer \in [Closers -> Closing],
           Conflicts(rows, b), ncr' = ncr, SnapshotsHold
    PROVE  SnapshotsHold'
<1> SUFFICES ASSUME NEW c \in Closers, closer'[c].ncr # None, ~closer'[c].stale
             PROVE  closer'[c] = closer[c]
  BY DEF SnapshotsHold, Rests
<1>1. closer[c] \in Closing
  OBVIOUS
<1> QED BY <1>1 DEF Conflicts, Closing

\* A write of one independent row that spares the other closures keeps what
\* closures and closed NCRs are about.
LEMMA OneRow ==
    ASSUME TypeOK, SnapshotsHold, MajorClosedIndependently,
           NEW n \in Ncrs, NEW row \in NcrRow, SetNcr(n, row), Independent(n, row), Spares(n)
    PROVE  SnapshotsHold' /\ MajorClosedIndependently'
<1>1. ncr' = [ncr EXCEPT ![n] = row] /\ ncr \in [Ncrs -> NcrRow]
  BY DEF SetNcr, TypeOK
<1>2. ncr'[n] = row /\ \A m \in Ncrs \ {n} : ncr'[m] = ncr[m]
  BY <1>1
<1>3. \A m \in Major : m \in Ncrs
  BY ConstantsAssumption
<1>4. MajorClosedIndependently'
  BY <1>2, <1>3 DEF MajorClosedIndependently, Independent
<1>5. ASSUME NEW c \in Closers PROVE Rests(c)'
  <2> SUFFICES ASSUME closer'[c].ncr # None, ~closer'[c].stale
               PROVE  /\ ncr'[closer'[c].ncr].status = "verification"
                      /\ closer'[c].ncr \in Major =>
                            ncr'[closer'[c].ncr].approver \notin {None, closer'[c].user}
    BY DEF Rests
  <2>1. closer'[c] = closer[c] /\ closer[c].ncr # n
    BY DEF Spares
  <2>2. closer[c].ncr \in Ncrs
    BY <2>1 DEF TypeOK, Closing
  <2>3. ncr'[closer[c].ncr] = ncr[closer[c].ncr]
    BY <1>2, <2>1, <2>2
  <2> QED BY <2>1, <2>3 DEF SnapshotsHold, Rests
<1> QED BY <1>4, <1>5 DEF SnapshotsHold

\* So does a write of one row for the notification, if it leaves the column
\* alone, the row exists and no creation of it is under way any more.
LEMMA OneRowNotified ==
    ASSUME TypeOK, SendersHoldMajors, OneNotifier, sender' = sender,
           NEW n \in Ncrs, NEW row \in NcrRow, SetNcr(n, row),
           row.status # "none", row.notified = ncr[n].notified,
           screened' \subseteq screened, n \notin screened'
    PROVE  SendersHoldMajors' /\ OneNotifier'
<1>1. ncr' = [ncr EXCEPT ![n] = row] /\ ncr \in [Ncrs -> NcrRow]
  BY DEF SetNcr, TypeOK
<1>2. ncr'[n] = row /\ \A m \in Ncrs \ {n} : ncr'[m] = ncr[m]
  BY <1>1
<1>3. \A s \in Senders : sender[s] # None => sender[s] \in Ncrs
  BY DEF TypeOK
<1>4. screened \subseteq Ncrs
  BY DEF TypeOK
<1>5. OneNotifier'
  BY <1>2, <1>3 DEF OneNotifier
<1> QED BY <1>2, <1>3, <1>4, <1>5 DEF SendersHoldMajors

\* A workflow move of a row that is not closed keeps the whole invariant.
LEMMA MoveKeeps ==
    ASSUME IInv, NEW n \in Ncrs, NEW row \in NcrRow, Move(n, row), n \notin screened,
           row.status \notin Closed \cup {"none"}, row.notified = ncr[n].notified
    PROVE  IInv'
<1> USE DEF IInv
<1>1. SetNcr(n, row) /\ Conflicts({n}, FALSE)
      /\ UNCHANGED <<lotStatus, linked, evidence, told, screened, removing, sender>>
  BY DEF Move
<1>2. Spares(n) /\ closer' \in [Closers -> Closing]
  BY <1>1, ConflictsSpare, ConflictsType DEF TypeOK
<1>3. Independent(n, row)
  BY DEF Independent
<1>4. SnapshotsHold' /\ MajorClosedIndependently'
  BY <1>1, <1>2, <1>3, OneRow
<1>5. SendersHoldMajors' /\ OneNotifier'
  BY <1>1, OneRowNotified
<1>6. TypeOK'
  BY <1>1, <1>2 DEF TypeOK, SetNcr
<1> QED BY <1>4, <1>5, <1>6

\* Steps that change no NCR row and no claim keep the claims.
LEMMA RowsKept ==
    ASSUME IInv, UNCHANGED <<ncr, sender>>, screened' = screened
    PROVE  SendersHoldMajors' /\ OneNotifier' /\ MajorClosedIndependently'
BY DEF IInv, SendersHoldMajors, OneNotifier, MajorClosedIndependently

\* Moving lots keeps the lots' statuses.
LEMMA LotsType ==
    ASSUME TypeOK, NEW ls, NEW s \in LotStatuses, SetLots(ls, s)
    PROVE  lotStatus' \in [Lots -> LotStatuses]
BY DEF TypeOK, SetLots

-----------------------------------------------------------------------------
LEMMA InitIInv == Init => IInv
BY ConstantsAssumption DEF Init, IInv, TypeOK, SendersHoldMajors, SnapshotsHold, Rests,
   MajorClosedIndependently, OneNotifier, NoNcr, NcrRow, NcrStatuses, LotStatuses, Closed,
   NoClosing, Closing

(* Creation, review and evidence. *)

LEMMA WorkflowStep ==
    ASSUME IInv, NEW n \in Ncrs, Workflow(n)
    PROVE  IInv'
<1>0. /\ TypeOK /\ SendersHoldMajors /\ SnapshotsHold /\ MajorClosedIndependently /\ OneNotifier
      /\ ncr[n] \in NcrRow
  BY DEF IInv, TypeOK
<1>1. ASSUME NEW ls \in SUBSET Lots, Screen(n, ls) PROVE IInv'
  <2>1. TypeOK'
    BY <1>0, <1>1 DEF TypeOK, Screen
  <2>2. SnapshotsHold' /\ MajorClosedIndependently' /\ OneNotifier'
    BY <1>0, <1>1 DEF Screen, SnapshotsHold, Rests, MajorClosedIndependently, OneNotifier
  <2>3. SendersHoldMajors'
    BY <1>0, <1>1 DEF Screen, SendersHoldMajors
  <2> QED BY <2>1, <2>2, <2>3 DEF IInv
<1>2. ASSUME Raise(n) PROVE IInv'
  <2> DEFINE row == [NoNcr EXCEPT !.status = "open"]
             rows == {n} \cup Movable(linked[n])
  <2>1. /\ SetNcr(n, row) /\ SetLots(Movable(linked[n]), "ncr_raised") /\ Conflicts(rows, FALSE)
        /\ screened' = screened \ {n} /\ n \in screened
        /\ UNCHANGED <<linked, evidence, told, removing, sender>>
    BY <1>2 DEF Raise
  <2>2. row \in NcrRow /\ row.status = "open" /\ row.notified = FALSE
    BY DEF NoNcr, NcrRow, NcrStatuses, Closed
  <2>3. Independent(n, row)
    BY <2>2 DEF Independent, Closed
  <2>4. closer \in [Closers -> Closing] /\ n \in rows
    BY <1>0 DEF TypeOK
  <2> HIDE DEF row, rows
  <2>5. Spares(n) /\ closer' \in [Closers -> Closing]
    BY <2>1, <2>4, ConflictsSpare, ConflictsType
  <2>6. SnapshotsHold' /\ MajorClosedIndependently'
    BY <1>0, <2>1, <2>2, <2>3, <2>5, OneRow
  <2>7. ncr' = [ncr EXCEPT ![n] = row] /\ ncr \in [Ncrs -> NcrRow]
    BY <1>0, <2>1 DEF SetNcr, TypeOK
  <2>8. ncr'[n] = row /\ \A m \in Ncrs \ {n} : ncr'[m] = ncr[m]
    BY <2>7
  <2>9. \A s \in Senders : sender[s] # None => sender[s] \in Ncrs \ {n}
    BY <1>0, <2>1 DEF TypeOK, SendersHoldMajors
  <2>10. OneNotifier'
    BY <1>0, <2>1, <2>8, <2>9 DEF OneNotifier
  <2>11. SendersHoldMajors'
    <3>1. \A m \in screened' : m \in Ncrs \ {n} /\ m \in screened
      BY <1>0, <2>1 DEF TypeOK
    <3> QED BY <1>0, <2>1, <2>8, <2>9, <3>1 DEF SendersHoldMajors
  <2>12. lotStatus' \in [Lots -> LotStatuses]
    BY <1>0, <2>1, LotsType DEF LotStatuses
  <2>13. TypeOK'
    BY <1>0, <2>1, <2>2, <2>5, <2>7, <2>12 DEF TypeOK
  <2> QED BY <2>6, <2>10, <2>11, <2>13 DEF IInv
<1>3. ASSUME NEW st \in NcrStatuses \ (Closed \cup {"none"}), NEW b \in BOOLEAN,
             ncr[n].status # "none",
             Move(n, [ncr[n] EXCEPT !.status = st, !.reviewed = b])
      PROVE  IInv'
  <2>1. [ncr[n] EXCEPT !.status = st, !.reviewed = b] \in NcrRow
    BY <1>0 DEF NcrRow
  <2>2. n \notin screened
    BY <1>0, <1>3 DEF SendersHoldMajors
  <2>3. [ncr[n] EXCEPT !.status = st, !.reviewed = b].notified = ncr[n].notified
        /\ [ncr[n] EXCEPT !.status = st, !.reviewed = b].status = st
    BY <1>0 DEF NcrRow
  <2> QED BY <1>3, <2>1, <2>2, <2>3, MoveKeeps
<1>4. ASSUME NEW st \in NcrStatuses, Move(n, [ncr[n] EXCEPT !.status = st])
      PROVE  \E b \in BOOLEAN : Move(n, [ncr[n] EXCEPT !.status = st, !.reviewed = b])
  <2>1. [ncr[n] EXCEPT !.status = st] = [ncr[n] EXCEPT !.status = st, !.reviewed = ncr[n].reviewed]
        /\ ncr[n].reviewed \in BOOLEAN
    BY <1>0 DEF NcrRow
  <2> QED BY <1>4, <2>1
<1>5. {"open", "investigating", "rectification", "verification"}
        \subseteq NcrStatuses \ (Closed \cup {"none"}) /\ NcrStatuses \ (Closed \cup {"none"}) \subseteq NcrStatuses
  BY DEF NcrStatuses, Closed
<1>6. ASSUME Respond(n) \/ AcceptResponse(n) \/ RequestRevision(n) \/ Submit(n)
             \/ RejectRectification(n)
      PROVE  IInv'
  <2>1. ncr[n].status # "none"
    BY <1>6 DEF Respond, AcceptResponse, Acceptable, RequestRevision, Submit, RejectRectification
  <2>2. CASE AcceptResponse(n) \/ RequestRevision(n)
    BY <1>3, <1>5, <2>1, <2>2 DEF AcceptResponse, RequestRevision
  <2>3. CASE Respond(n)
    <3>1. Move(n, [ncr[n] EXCEPT !.status = "investigating"])
      BY <2>3 DEF Respond
    <3> QED BY <1>3, <1>4, <1>5, <2>1, <3>1
  <2>4. CASE Submit(n)
    <3>1. Move(n, [ncr[n] EXCEPT !.status = "verification"])
      BY <2>4 DEF Submit
    <3> QED BY <1>3, <1>4, <1>5, <2>1, <3>1
  <2>5. CASE RejectRectification(n)
    <3>1. Move(n, [ncr[n] EXCEPT !.status = "rectification"])
      BY <2>5 DEF RejectRectification
    <3> QED BY <1>3, <1>4, <1>5, <2>1, <3>1
  <2> QED BY <1>6, <2>2, <2>3, <2>4, <2>5
<1>7. ASSUME Reopen(n) PROVE IInv'
  <2> DEFINE row == [ncr[n] EXCEPT !.status = "rectification", !.approver = None,
                                   !.closer = None, !.waived = FALSE]
             rows == {n} \cup Movable(linked[n])
  <2>1. /\ SetNcr(n, row) /\ SetLots(Movable(linked[n]), "ncr_raised") /\ Conflicts(rows, FALSE)
        /\ ncr[n].status \in Closed
        /\ UNCHANGED <<linked, evidence, told, screened, removing, sender>>
    BY <1>7 DEF Reopen
  <2>2. row \in NcrRow /\ row.status = "rectification" /\ row.notified = ncr[n].notified
    BY <1>0 DEF NcrRow, NcrStatuses
  <2>3. Independent(n, row)
    BY <2>2 DEF Independent, Closed
  <2>4. closer \in [Closers -> Closing] /\ n \in rows
    BY <1>0 DEF TypeOK
  <2>5. n \notin screened
    BY <1>0, <2>1 DEF SendersHoldMajors, Closed
  <2> HIDE DEF row, rows
  <2>6. Spares(n) /\ closer' \in [Closers -> Closing]
    BY <2>1, <2>4, ConflictsSpare, ConflictsType
  <2>7. SnapshotsHold' /\ MajorClosedIndependently'
    BY <1>0, <2>1, <2>2, <2>3, <2>6, OneRow
  <2>8. SendersHoldMajors' /\ OneNotifier'
    BY <1>0, <2>1, <2>2, <2>5, OneRowNotified
  <2>9. lotStatus' \in [Lots -> LotStatuses]
    BY <1>0, <2>1, LotsType DEF LotStatuses
  <2>10. TypeOK'
    BY <1>0, <2>1, <2>2, <2>6, <2>9 DEF TypeOK, SetNcr
  <2> QED BY <2>7, <2>8, <2>10 DEF IInv
<1>8. ASSUME NEW k \in EvidenceKinds, AddEvidence(n, k) \/ BeginRemoval(n, k) \/ Remove(n, k)
      PROVE  IInv'
  <2>1. UNCHANGED <<lotStatus, ncr, linked, told, screened, closer, sender>>
    BY <1>8 DEF AddEvidence, BeginRemoval, Remove, rowVars, requestVars
  <2>2. SendersHoldMajors' /\ OneNotifier' /\ MajorClosedIndependently'
    BY <2>1, RowsKept
  <2>3. SnapshotsHold'
    BY <1>0, <2>1 DEF SnapshotsHold, Rests
  <2>4. evidence' \in [Ncrs -> SUBSET EvidenceKinds] /\ removing' \subseteq Ncrs \X EvidenceKinds
    BY <1>0, <1>8 DEF AddEvidence, BeginRemoval, Remove, rowVars, requestVars, TypeOK
  <2>5. TypeOK'
    BY <1>0, <2>1, <2>4 DEF TypeOK
  <2> QED BY <2>2, <2>3, <2>5 DEF IInv
<1>9. ASSUME NEW u \in Users, QmApprove(n, u) PROVE IInv'
  <2> DEFINE row == [ncr[n] EXCEPT !.approver = u]
  <2>1. /\ SetNcr(n, row) /\ Conflicts({n}, TRUE) /\ ncr[n].status = "verification"
        /\ UNCHANGED <<lotStatus, linked, evidence, told, screened, removing, sender>>
    BY <1>9 DEF QmApprove
  <2>2. row \in NcrRow /\ row.status = "verification" /\ row.notified = ncr[n].notified
    BY <1>0, <2>1 DEF NcrRow, NcrStatuses
  <2>3. Independent(n, row)
    BY <2>2 DEF Independent, Closed
  <2>4. n \notin screened
    BY <1>0, <2>1 DEF SendersHoldMajors
  <2> HIDE DEF row
  <2>5. Spares(n) /\ closer' \in [Closers -> Closing]
    BY <1>0, <2>1, ConflictsSpare, ConflictsType DEF TypeOK
  <2>6. SnapshotsHold' /\ MajorClosedIndependently'
    BY <1>0, <2>1, <2>2, <2>3, <2>5, OneRow
  <2>7. SendersHoldMajors' /\ OneNotifier'
    BY <1>0, <2>1, <2>2, <2>4, OneRowNotified
  <2>8. TypeOK'
    BY <1>0, <2>1, <2>2, <2>5 DEF TypeOK, SetNcr
  <2> QED BY <2>6, <2>7, <2>8 DEF IInv
<1> QED BY <1>1, <1>2, <1>6, <1>7, <1>8, <1>9 DEF Workflow

(* Closure. *)

LEMMA ClosureStep ==
    ASSUME IInv, NEW c \in Closers, Closure(c)
    PROVE  IInv'
<1>0. /\ TypeOK /\ SendersHoldMajors /\ SnapshotsHold /\ MajorClosedIndependently /\ OneNotifier
      /\ closer \in [Closers -> Closing] /\ None \notin Ncrs \cup Users /\ closer[c] \in Closing
  BY ConstantsAssumption DEF IInv, TypeOK
<1>1. ASSUME NEW n \in Ncrs, NEW u \in Users, NEW concession \in BOOLEAN, NEW waive \in BOOLEAN,
             BeginClose(c, n, u, concession, waive)
      PROVE  IInv'
  <2> DEFINE d == [ncr |-> n, user |-> u, concession |-> concession, frees |-> Frees(n), stale |-> FALSE]
  <2>1. /\ closer' = [closer EXCEPT ![c] = d] /\ Closable(n, u, concession, waive)
        /\ UNCHANGED <<rowVars, told, screened, removing, sender>>
    BY <1>1 DEF BeginClose
  <2>2. d \in Closing /\ d.ncr = n /\ d.user = u
    <3>1. linked[n] \in SUBSET Lots
      BY <1>0 DEF TypeOK
    <3>2. Frees(n) \in SUBSET Lots
      BY <3>1 DEF Frees
    <3> QED BY <3>2 DEF Closing
  <2> HIDE DEF d
  <2>3. SendersHoldMajors' /\ OneNotifier' /\ MajorClosedIndependently'
    BY <2>1, RowsKept DEF rowVars
  <2>4. SnapshotsHold'
    <3> SUFFICES ASSUME NEW x \in Closers PROVE Rests(x)'
      BY DEF SnapshotsHold
    <3>1. CASE x = c
      <4>1. closer'[x] = d
        BY <1>0, <2>1, <3>1
      <4> QED BY <4>1, <2>1, <2>2 DEF Rests, Closable, rowVars
    <3>2. CASE x # c
      <4>1. closer'[x] = closer[x] /\ ncr' = ncr
        BY <1>0, <2>1, <3>2 DEF rowVars
      <4> QED BY <1>0, <4>1 DEF SnapshotsHold, Rests
    <3> QED BY <3>1, <3>2
  <2>5. TypeOK'
    BY <1>0, <2>1, <2>2 DEF TypeOK, rowVars
  <2> QED BY <2>3, <2>4, <2>5 DEF IInv
<1>2. ASSUME CommitClose(c) PROVE IInv'
  <2> DEFINE d == closer[c]
             n == d.ncr
             w == n \in Major /\ ~ncr[n].notified
             row == [ncr[n] EXCEPT !.status = IF d.concession THEN "closed_concession" ELSE "closed",
                                   !.closer = d.user, !.waived = w]
  <2>1. /\ n # None /\ ~d.stale /\ SetNcr(n, row) /\ SetLots(d.frees, "in_progress")
        /\ closer' = [x \in Closers |->
             IF x = c THEN NoClosing
             ELSE IF closer[x].ncr # None /\ ({n} \cup d.frees) \cap (Written(x) \cup ReadBy(x)) # {}
                  THEN [closer[x] EXCEPT !.stale = TRUE] ELSE closer[x]]
        /\ UNCHANGED <<linked, evidence, told, screened, removing, sender>>
    BY <1>2 DEF CommitClose
  <2>2. n \in Ncrs
    BY <1>0, <2>1 DEF Closing
  <2>3. ncr[n] \in NcrRow /\ d.user \in Users \cup {None} /\ w \in BOOLEAN /\ d.concession \in BOOLEAN
    BY <1>0, <2>2 DEF TypeOK, Closing
  <2>4. /\ ncr[n].status = "verification"
        /\ n \in Major => ncr[n].approver \notin {None, d.user}
    BY <1>0, <2>1 DEF SnapshotsHold, Rests
  <2> HIDE DEF w
  <2>5. /\ row \in NcrRow /\ row.status \in Closed /\ row.notified = ncr[n].notified
        /\ row.approver = ncr[n].approver /\ row.closer = d.user
    BY <2>3 DEF NcrRow, NcrStatuses, Closed
  <2>6. Independent(n, row)
    BY <2>4, <2>5 DEF Independent
  <2>7. n \notin screened
    BY <1>0, <2>4 DEF SendersHoldMajors
  <2>8. closer' \in [Closers -> Closing]
    <3>1. NoClosing \in Closing
      BY DEF NoClosing, Closing
    <3>2. \A x \in Closers : [closer[x] EXCEPT !.stale = TRUE] \in Closing
      BY <1>0 DEF Closing
    <3> QED BY <1>0, <2>1, <3>1, <3>2
  <2>9. Spares(n)
    <3> SUFFICES ASSUME NEW x \in Closers, closer'[x].ncr # None, ~closer'[x].stale
                 PROVE  closer'[x] = closer[x] /\ closer[x].ncr # n
      BY DEF Spares
    <3>1. x # c
      BY <2>1 DEF NoClosing
    <3>2. closer[x] \in Closing
      BY <1>0
    <3>3. closer'[x] = IF closer[x].ncr # None /\ ({n} \cup d.frees) \cap (Written(x) \cup ReadBy(x)) # {}
                  THEN [closer[x] EXCEPT !.stale = TRUE] ELSE closer[x]
      BY <2>1, <3>1
    <3>4. closer'[x] = closer[x]
      BY <3>2, <3>3 DEF Closing
    <3>5. ASSUME closer[x].ncr = n PROVE FALSE
      <4>1. n \in ({n} \cup d.frees) \cap (Written(x) \cup ReadBy(x))
        BY <3>5 DEF Written
      <4>2. closer'[x] = [closer[x] EXCEPT !.stale = TRUE]
        BY <3>3, <3>4, <4>1
      <4> QED BY <3>2, <4>2 DEF Closing
    <3> QED BY <3>4, <3>5
  <2>10. d.frees \in SUBSET Lots
    BY <1>0 DEF Closing
  <2> HIDE DEF row, n, d
  <2>11. SnapshotsHold' /\ MajorClosedIndependently'
    BY <1>0, <2>1, <2>2, <2>5, <2>6, <2>9, OneRow
  <2>12. row.status # "none"
    BY <2>5 DEF Closed
  <2>13. SendersHoldMajors' /\ OneNotifier'
    BY <1>0, <2>1, <2>2, <2>5, <2>7, <2>12, OneRowNotified
  <2>14. lotStatus' \in [Lots -> LotStatuses]
    BY <1>0, <2>1, LotsType DEF LotStatuses
  <2>15. TypeOK'
    BY <1>0, <2>1, <2>2, <2>5, <2>8, <2>14 DEF TypeOK, SetNcr
  <2> QED BY <2>11, <2>13, <2>15 DEF IInv
<1>3. ASSUME AbortClose(c) PROVE IInv'
  <2>1. closer' = [closer EXCEPT ![c] = NoClosing]
        /\ UNCHANGED <<rowVars, told, screened, removing, sender>>
    BY <1>3 DEF AbortClose
  <2>2. SendersHoldMajors' /\ OneNotifier' /\ MajorClosedIndependently'
    BY <2>1, RowsKept DEF rowVars
  <2>3. NoClosing \in Closing /\ NoClosing.ncr = None
    BY DEF NoClosing, Closing
  <2>4. SnapshotsHold'
    BY <1>0, <2>1, <2>3 DEF SnapshotsHold, Rests, rowVars
  <2>5. TypeOK'
    BY <1>0, <2>1, <2>3 DEF TypeOK, rowVars
  <2> QED BY <2>2, <2>4, <2>5 DEF IInv
<1> QED BY <1>1, <1>2, <1>3 DEF Closure

(* Notification. *)

LEMMA NotificationStep ==
    ASSUME IInv, NEW s \in Senders, Notification(s)
    PROVE  IInv'
<1>0. /\ TypeOK /\ SendersHoldMajors /\ SnapshotsHold /\ MajorClosedIndependently /\ OneNotifier
      /\ sender \in [Senders -> Ncrs \cup {None}] /\ None \notin Ncrs /\ Major \subseteq Ncrs
  BY ConstantsAssumption DEF IInv, TypeOK
<1>1. ASSUME NEW n \in Ncrs, NEW b \in BOOLEAN, SetNcr(n, [ncr[n] EXCEPT !.notified = b]),
             Conflicts({n}, FALSE), UNCHANGED <<lotStatus, linked, evidence, screened, removing>>
      PROVE  /\ SnapshotsHold' /\ MajorClosedIndependently'
             /\ ncr' \in [Ncrs -> NcrRow] /\ closer' \in [Closers -> Closing]
             /\ ncr'[n].notified = b /\ ncr'[n].status = ncr[n].status
             /\ \A m \in Ncrs \ {n} : ncr'[m] = ncr[m]
  <2> DEFINE row == [ncr[n] EXCEPT !.notified = b]
  <2>1. ncr \in [Ncrs -> NcrRow] /\ ncr[n] \in NcrRow
    BY <1>0 DEF TypeOK
  <2>2. /\ row \in NcrRow /\ row.status = ncr[n].status /\ row.approver = ncr[n].approver
        /\ row.closer = ncr[n].closer /\ row.notified = b
    BY <2>1 DEF NcrRow
  <2>3. Independent(n, row)
    BY <1>0, <2>2 DEF Independent, MajorClosedIndependently
  <2>4. SetNcr(n, row)
    BY <1>1
  <2> HIDE DEF row
  <2>5. Spares(n) /\ closer' \in [Closers -> Closing]
    BY <1>0, <1>1, ConflictsSpare, ConflictsType DEF TypeOK
  <2>6. SnapshotsHold' /\ MajorClosedIndependently'
    BY <1>0, <2>2, <2>3, <2>4, <2>5, OneRow
  <2>7. ncr' = [ncr EXCEPT ![n] = row]
    BY <2>4 DEF SetNcr
  <2> QED BY <2>1, <2>2, <2>5, <2>6, <2>7
<1>2. ASSUME NEW n \in Ncrs, ClaimNotification(s, n) PROVE IInv'
  <2>1. /\ n \in Major /\ ~ncr[n].notified /\ sender[s] = None /\ ncr[n].status # "none"
        /\ sender' = [sender EXCEPT ![s] = n]
        /\ SetNcr(n, [ncr[n] EXCEPT !.notified = TRUE]) /\ Conflicts({n}, FALSE)
        /\ UNCHANGED <<lotStatus, linked, evidence, told, screened, removing>>
    BY <1>2 DEF ClaimNotification, Unclaimed
  <2>2. /\ SnapshotsHold' /\ MajorClosedIndependently'
        /\ ncr' \in [Ncrs -> NcrRow] /\ closer' \in [Closers -> Closing]
        /\ ncr'[n].notified = TRUE /\ ncr'[n].status = ncr[n].status
        /\ \A m \in Ncrs \ {n} : ncr'[m] = ncr[m]
    BY <1>1, <2>1
  <2>3. sender'[s] = n /\ \A t \in Senders \ {s} : sender'[t] = sender[t]
    BY <1>0, <2>1
  <2>4. \A t \in Senders : sender[t] # None => sender[t] \in Ncrs /\ sender[t] # n
    BY <1>0, <2>1 DEF OneNotifier
  <2>5. OneNotifier'
    BY <1>0, <2>2, <2>3, <2>4 DEF OneNotifier
  <2>6. SendersHoldMajors'
    <3>1. \A m \in screened : m \in Ncrs \ {n}
      BY <1>0, <2>1 DEF TypeOK, SendersHoldMajors
    <3> QED BY <1>0, <2>1, <2>2, <2>3, <2>4, <3>1 DEF SendersHoldMajors
  <2>7. TypeOK'
    BY <1>0, <2>1, <2>2 DEF TypeOK
  <2> QED BY <2>2, <2>5, <2>6, <2>7 DEF IInv
<1>3. ASSUME sender[s] # None, told' \subseteq told \cup {sender[s]},
             UNCHANGED <<ncr, lotStatus, linked, evidence, screened, removing, closer>>,
             sender' = [sender EXCEPT ![s] = None]
      PROVE  IInv'
  <2>1. sender'[s] = None /\ \A t \in Senders \ {s} : sender'[t] = sender[t]
    BY <1>0, <1>3
  <2>2. SnapshotsHold' /\ MajorClosedIndependently'
    BY <1>0, <1>3 DEF SnapshotsHold, Rests, MajorClosedIndependently
  <2>3. OneNotifier'
    BY <1>0, <1>3, <2>1 DEF OneNotifier
  <2>4. SendersHoldMajors'
    BY <1>0, <1>3, <2>1 DEF SendersHoldMajors
  <2>5. told' \subseteq Major
    BY <1>0, <1>3 DEF TypeOK, SendersHoldMajors
  <2>6. TypeOK'
    BY <1>0, <1>3, <2>5 DEF TypeOK
  <2> QED BY <2>2, <2>3, <2>4, <2>6 DEF IInv
<1>4. ASSUME MailSent(s) \/ MailCrash(s) PROVE IInv'
  BY <1>3, <1>4 DEF MailSent, MailCrash, rowVars
<1>5. ASSUME MailFails(s) PROVE IInv'
  <2> DEFINE n == sender[s]
  <2>1. /\ n \in Ncrs /\ n \in Major /\ ncr[n].status # "none"
        /\ told' \subseteq told \cup {n}
        /\ sender' = [sender EXCEPT ![s] = None]
        /\ SetNcr(n, [ncr[n] EXCEPT !.notified = FALSE]) /\ Conflicts({n}, FALSE)
        /\ UNCHANGED <<lotStatus, linked, evidence, screened, removing>>
    BY <1>0, <1>5 DEF MailFails, SendersHoldMajors
  <2>2. \A t \in Senders \ {s} : sender[t] # None => sender[t] \in Ncrs \ {n}
    BY <1>0, <1>5 DEF OneNotifier, MailFails
  <2> HIDE DEF n
  <2>3. /\ SnapshotsHold' /\ MajorClosedIndependently'
        /\ ncr' \in [Ncrs -> NcrRow] /\ closer' \in [Closers -> Closing]
        /\ ncr'[n].status = ncr[n].status
        /\ \A m \in Ncrs \ {n} : ncr'[m] = ncr[m]
    BY <1>1, <2>1
  <2>4. sender'[s] = None /\ \A t \in Senders \ {s} : sender'[t] = sender[t]
    BY <1>0, <2>1
  <2>5. OneNotifier'
    BY <1>0, <2>2, <2>3, <2>4 DEF OneNotifier
  <2>6. SendersHoldMajors'
    <3>1. \A m \in screened : m \in Ncrs \ {n}
      BY <1>0, <2>1 DEF TypeOK, SendersHoldMajors
    <3> QED BY <1>0, <2>1, <2>2, <2>3, <2>4, <3>1 DEF SendersHoldMajors
  <2>7. told' \subseteq Major
    BY <1>0, <2>1 DEF TypeOK
  <2>8. TypeOK'
    BY <1>0, <2>1, <2>3, <2>7 DEF TypeOK
  <2> QED BY <2>3, <2>5, <2>6, <2>8 DEF IInv
<1> QED BY <1>2, <1>4, <1>5 DEF Notification

(* The lot's other moves. *)

LEMMA LotMoveStep ==
    ASSUME IInv, NEW l \in Lots, LotMove(l)
    PROVE  IInv'
<1>0. TypeOK /\ SnapshotsHold /\ HandStatuses \subseteq LotStatuses /\ Terminal \subseteq LotStatuses
  BY ConstantsAssumption DEF IInv, LotStatuses, Terminal
<1>1. PICK s \in LotStatuses, b \in BOOLEAN :
        SetLots({l}, s) /\ Conflicts({l}, b)
        /\ UNCHANGED <<ncr, linked, evidence, told, screened, removing, sender>>
  <2>1. CASE \E s \in HandStatuses : BulkMove(l, s)
    BY <1>0, <2>1 DEF BulkMove, MoveLot
  <2>2. CASE \E s \in HandStatuses : OverrideStatus(l, s)
    BY <1>0, <2>2 DEF OverrideStatus, MoveLot
  <2>3. CASE \E force \in BOOLEAN : Conform(l, force)
    BY <1>0, <2>3 DEF Conform, Terminal
  <2>4. CASE Claim(l)
    BY <1>0, <2>4 DEF Claim, Terminal
  <2> QED BY <2>1, <2>2, <2>3, <2>4 DEF LotMove
<1>2. SendersHoldMajors' /\ OneNotifier' /\ MajorClosedIndependently'
  BY <1>1, RowsKept
<1>3. SnapshotsHold' /\ closer' \in [Closers -> Closing]
  BY <1>0, <1>1, ConflictsKeep, ConflictsType DEF TypeOK
<1>4. TypeOK'
  BY <1>0, <1>1, <1>3, LotsType DEF TypeOK
<1> QED BY <1>2, <1>3, <1>4 DEF IInv

LEMMA StepIInv == IInv /\ [Next]_vars => IInv'
<1> SUFFICES ASSUME IInv, [Next]_vars PROVE IInv'
  OBVIOUS
<1>1. CASE UNCHANGED vars
  BY <1>1 DEF vars, rowVars, requestVars, IInv, TypeOK, SendersHoldMajors, SnapshotsHold, Rests,
     MajorClosedIndependently, OneNotifier
<1>2. CASE Next
  BY <1>2, WorkflowStep, ClosureStep, NotificationStep, LotMoveStep DEF Next
<1> QED BY <1>1, <1>2

LEMMA SpecIInv == Spec => []IInv
<1>1. IInv /\ [Next]_vars => IInv'
  BY StepIInv
<1> QED BY InitIInv, <1>1, PTL DEF Spec

-----------------------------------------------------------------------------
(* The lots that a closure in flight decided to free.                      *)

Raised(l) == lotStatus[l] = "ncr_raised"
Others(c, l) == OpenOn(l) \ {closer[c].ncr}

\* Nobody raises a lot by hand.
Strict == "ncr_raised" \notin HandStatuses

\* What an unrefused closure frees is still raised and held by no other NCR,
\* and it frees every such lot of its NCR.
SeesLots(c) ==
    closer[c].ncr # None /\ ~closer[c].stale =>
        /\ \A l \in closer[c].frees :
              l \in linked[closer[c].ncr] /\ Raised(l) /\ Others(c, l) = {}
        /\ Strict => \A l \in linked[closer[c].ncr] :
              Raised(l) /\ Others(c, l) = {} => l \in closer[c].frees

LotsSeen == \A c \in Closers : SeesLots(c)

\* A step leaves what c saw of lot l true: it changes nothing of it, or the
\* lot is not one that c frees and cannot have become one.
Quiet(c, l) ==
    \/ lotStatus'[l] = lotStatus[l] /\ OpenOn(l)' = OpenOn(l)
    \/ /\ l \notin closer[c].frees
       /\ Strict => lotStatus'[l] # "ncr_raised" \/ OpenOn(l)' \ {closer[c].ncr} # {}

LEMMA QuietKeeps ==
    ASSUME IInv, LotsSeen, NEW c \in Closers,
           closer'[c].ncr # None /\ ~closer'[c].stale =>
              /\ closer'[c] = closer[c] /\ linked'[closer[c].ncr] = linked[closer[c].ncr]
              /\ \A l \in linked[closer[c].ncr] : Quiet(c, l)
    PROVE  SeesLots(c)'
<1> SUFFICES ASSUME closer'[c].ncr # None, ~closer'[c].stale
             PROVE  SeesLots(c)'
  BY DEF SeesLots
<1>1. /\ closer'[c] = closer[c] /\ linked'[closer[c].ncr] = linked[closer[c].ncr]
      /\ \A l \in linked[closer[c].ncr] : Quiet(c, l)
  OBVIOUS
<1>2. /\ \A l \in closer[c].frees :
              l \in linked[closer[c].ncr] /\ Raised(l) /\ Others(c, l) = {}
      /\ Strict => \A l \in linked[closer[c].ncr] :
              Raised(l) /\ Others(c, l) = {} => l \in closer[c].frees
  BY <1>1 DEF LotsSeen, SeesLots
<1>3. ASSUME NEW l \in closer'[c].frees
      PROVE  l \in linked'[closer'[c].ncr] /\ Raised(l)' /\ Others(c, l)' = {}
  <2>1. l \in closer[c].frees /\ l \in linked[closer[c].ncr] /\ Raised(l) /\ Others(c, l) = {}
    BY <1>1, <1>2
  <2>2. lotStatus'[l] = lotStatus[l] /\ OpenOn(l)' = OpenOn(l)
    BY <1>1, <2>1 DEF Quiet
  <2> QED BY <1>1, <2>1, <2>2 DEF Raised, Others
<1>4. ASSUME Strict, NEW l \in linked'[closer'[c].ncr], Raised(l)', Others(c, l)' = {}
      PROVE  l \in closer'[c].frees
  <2>1. l \in linked[closer[c].ncr] /\ lotStatus'[l] = "ncr_raised" /\ OpenOn(l)' \ {closer[c].ncr} = {}
    BY <1>1, <1>4 DEF Raised, Others
  <2>2. lotStatus'[l] = lotStatus[l] /\ OpenOn(l)' = OpenOn(l)
    BY <1>1, <1>4, <2>1 DEF Quiet
  <2>3. Raised(l) /\ Others(c, l) = {}
    BY <2>1, <2>2 DEF Raised, Others
  <2> QED BY <1>1, <1>2, <1>4, <2>1, <2>3
<1>5. Strict' = Strict
  BY DEF Strict
<1> QED BY <1>3, <1>4, <1>5 DEF SeesLots

\* Steps that change no lot and open or close no NCR keep it.
LEMMA SameLots ==
    ASSUME IInv, LotsSeen, UNCHANGED <<lotStatus, linked>>, \A m \in Ncrs : IsOpen(m)' = IsOpen(m),
           \A c \in Closers : closer'[c].ncr # None /\ ~closer'[c].stale => closer'[c] = closer[c]
    PROVE  LotsSeen'
<1>1. \A l \in Lots : OpenOn(l)' = OpenOn(l)
  BY DEF OpenOn
<1>2. ASSUME NEW c \in Closers, closer'[c].ncr # None, ~closer'[c].stale
      PROVE  \A l \in linked[closer[c].ncr] : Quiet(c, l)
  <2>1. closer[c].ncr \in Ncrs
    BY <1>2 DEF IInv, TypeOK, Closing
  <2>2. linked[closer[c].ncr] \subseteq Lots
    BY <2>1 DEF IInv, TypeOK
  <2> QED BY <1>1, <2>2 DEF Quiet
<1> QED BY <1>2, QuietKeeps DEF LotsSeen

\* A write of one row that stays open, or stays closed.
LEMMA SameRow ==
    ASSUME IInv, LotsSeen, UNCHANGED <<lotStatus, linked>>, NEW n \in Ncrs, NEW row, SetNcr(n, row),
           row.status \in Closed \cup {"none"} <=> ncr[n].status \in Closed \cup {"none"},
           NEW b \in BOOLEAN, Conflicts({n}, b)
    PROVE  LotsSeen'
<1>1. \A m \in Ncrs : IsOpen(m)' = IsOpen(m)
  <2>1. ncr'[n] = row /\ \A m \in Ncrs \ {n} : ncr'[m] = ncr[m]
    BY DEF IInv, TypeOK, SetNcr
  <2> QED BY <2>1 DEF IsOpen
<1>2. Spares(n)
  BY ConflictsSpare DEF IInv, TypeOK
<1> QED BY <1>1, <1>2, SameLots DEF Spares

\* Raising and reopening hold the lots that they could raise.
LEMMA RaisingKeeps ==
    ASSUME IInv, LotsSeen, NEW n \in Ncrs, NEW row, SetNcr(n, row), linked' = linked,
           row.status \notin Closed \cup {"none"}, SetLots(Movable(linked[n]), "ncr_raised"),
           Conflicts({n} \cup Movable(linked[n]), FALSE)
    PROVE  LotsSeen'
<1> DEFINE rows == {n} \cup Movable(linked[n])
<1>1. ncr'[n] = row /\ \A m \in Ncrs \ {n} : ncr'[m] = ncr[m]
  BY DEF IInv, TypeOK, SetNcr
<1>2. IsOpen(n)' /\ \A m \in Ncrs \ {n} : IsOpen(m)' = IsOpen(m)
  BY <1>1 DEF IsOpen
<1>3. closer \in [Closers -> Closing] /\ lotStatus \in [Lots -> LotStatuses]
      /\ linked \in [Ncrs -> SUBSET Lots] /\ n \in rows
  BY DEF IInv, TypeOK
<1>4. Conflicts(rows, FALSE)
  OBVIOUS
<1> SUFFICES ASSUME NEW c \in Closers, closer'[c].ncr # None, ~closer'[c].stale
             PROVE  /\ closer'[c] = closer[c]
                    /\ \A l \in linked[closer[c].ncr] : Quiet(c, l)
  BY QuietKeeps DEF LotsSeen
<1>5. closer'[c] = closer[c] /\ closer[c].ncr # n
  <2> HIDE DEF rows
  <2> QED BY <1>3, <1>4, ConflictsSpare DEF Spares
<1>6. closer[c].frees \cap rows = {}
  <2>1. closer'[c] = IF closer[c].ncr # None /\ rows \cap (Written(c) \cup {}) # {}
                     THEN [closer[c] EXCEPT !.stale = TRUE] ELSE closer[c]
    BY <1>4 DEF Conflicts
  <2>2. closer[c] \in Closing
    BY <1>3
  <2>3. rows \cap Written(c) = {}
    <3> SUFFICES ASSUME rows \cap Written(c) # {} PROVE FALSE
      OBVIOUS
    <3>1. closer'[c] = [closer[c] EXCEPT !.stale = TRUE]
      BY <1>5, <2>1
    <3> QED BY <2>2, <3>1 DEF Closing
  <2> QED BY <2>3 DEF Written
<1>7. ASSUME NEW l \in linked[closer[c].ncr] PROVE Quiet(c, l)
  <2>1. l \in Lots /\ closer[c].ncr \in Ncrs
    BY <1>3, <1>5 DEF Closing
  <2>2. lotStatus'[l] = IF l \in Movable(linked[n]) THEN "ncr_raised" ELSE lotStatus[l]
    BY <2>1 DEF SetLots
  <2>3. CASE l \notin linked[n]
    <3>1. l \notin Movable(linked[n])
      BY <2>3 DEF Movable
    <3>2. OpenOn(l)' = OpenOn(l)
      BY <1>2, <2>3 DEF OpenOn
    <3> QED BY <2>2, <3>1, <3>2 DEF Quiet
  <2>4. CASE l \in Movable(linked[n])
    <3>1. n \in OpenOn(l)'
      BY <1>2, <2>4 DEF OpenOn, Movable
    <3>2. l \notin closer[c].frees
      BY <1>6, <2>4
    <3> QED BY <1>5, <3>1, <3>2 DEF Quiet
  <2>5. CASE l \in linked[n] /\ l \notin Movable(linked[n])
    <3>1. lotStatus[l] \in Terminal /\ lotStatus'[l] = lotStatus[l]
      BY <2>2, <2>5 DEF Movable
    <3>2. lotStatus[l] # "ncr_raised"
      BY <3>1 DEF Terminal
    <3>3. l \notin closer[c].frees
      BY <1>5, <3>2 DEF LotsSeen, SeesLots, Raised
    <3> QED BY <3>1, <3>2, <3>3 DEF Quiet
  <2> QED BY <2>3, <2>4, <2>5
<1> QED BY <1>5, <1>7

LEMMA WorkflowSees ==
    ASSUME IInv, LotsSeen, NEW n \in Ncrs, Workflow(n)
    PROVE  LotsSeen'
<1>0. ncr \in [Ncrs -> NcrRow] /\ ncr[n] \in NcrRow
  BY DEF IInv, TypeOK
<1>1. ASSUME NEW ls \in SUBSET Lots, Screen(n, ls) PROVE LotsSeen'
  <2>1. /\ UNCHANGED <<lotStatus, ncr, closer>> /\ linked' = [linked EXCEPT ![n] = ls]
        /\ ncr[n].status = "none"
    BY <1>1 DEF Screen
  <2>2. linked \in [Ncrs -> SUBSET Lots]
    BY DEF IInv, TypeOK
  <2>3. \A m \in Ncrs \ {n} : linked'[m] = linked[m]
    BY <2>1, <2>2
  <2>4. \A l : OpenOn(l)' = OpenOn(l)
    BY <2>1, <2>3 DEF OpenOn, IsOpen
  <2>5. ASSUME NEW c \in Closers, closer[c].ncr # None, ~closer[c].stale
        PROVE  linked'[closer[c].ncr] = linked[closer[c].ncr]
    <3>1. closer[c].ncr \in Ncrs /\ ncr[closer[c].ncr].status = "verification"
      BY <2>5 DEF IInv, TypeOK, Closing, SnapshotsHold, Rests
    <3> QED BY <2>1, <2>3, <3>1
  <2> QED BY <2>1, <2>4, <2>5, QuietKeeps DEF LotsSeen, Quiet
<1>2. ASSUME Raise(n) PROVE LotsSeen'
  <2>1. [NoNcr EXCEPT !.status = "open"].status = "open"
    BY DEF NoNcr
  <2> QED BY <1>2, <2>1, RaisingKeeps DEF Raise, Closed
<1>3. ASSUME Reopen(n) PROVE LotsSeen'
  <2> DEFINE row == [ncr[n] EXCEPT !.status = "rectification", !.approver = None,
                                   !.closer = None, !.waived = FALSE]
  <2>1. row.status = "rectification"
    BY <1>0 DEF NcrRow
  <2>2. SetNcr(n, row) /\ SetLots(Movable(linked[n]), "ncr_raised")
        /\ Conflicts({n} \cup Movable(linked[n]), FALSE) /\ linked' = linked
    BY <1>3 DEF Reopen
  <2> HIDE DEF row
  <2> QED BY <2>1, <2>2, RaisingKeeps DEF Closed
<1>4. ASSUME NEW row \in NcrRow, Move(n, row), row.status \notin Closed \cup {"none"},
             ncr[n].status \notin Closed \cup {"none"}
      PROVE  LotsSeen'
  BY <1>4, SameRow DEF Move
<1>5. ASSUME Respond(n) \/ AcceptResponse(n) \/ RequestRevision(n) \/ Submit(n)
             \/ RejectRectification(n)
      PROVE  LotsSeen'
  <2>1. \E st \in {"open", "investigating", "rectification", "verification"}, b \in BOOLEAN :
           Move(n, [ncr[n] EXCEPT !.status = st, !.reviewed = b])
    <3>1. /\ ncr[n].reviewed \in BOOLEAN
          /\ \A st : [ncr[n] EXCEPT !.status = st]
                      = [ncr[n] EXCEPT !.status = st, !.reviewed = ncr[n].reviewed]
      BY <1>0 DEF NcrRow
    <3>2. CASE AcceptResponse(n) \/ RequestRevision(n)
      BY <3>2 DEF AcceptResponse, RequestRevision
    <3>3. CASE Respond(n) \/ Submit(n) \/ RejectRectification(n)
      <4>1. \E st \in {"open", "investigating", "rectification", "verification"} :
               Move(n, [ncr[n] EXCEPT !.status = st])
        BY <3>3 DEF Respond, Submit, RejectRectification
      <4> QED BY <3>1, <4>1
    <3> QED BY <1>5, <3>2, <3>3
  <2>2. PICK st \in {"open", "investigating", "rectification", "verification"}, b \in BOOLEAN :
           Move(n, [ncr[n] EXCEPT !.status = st, !.reviewed = b])
    BY <2>1
  <2> DEFINE row == [ncr[n] EXCEPT !.status = st, !.reviewed = b]
  <2>3. row \in NcrRow /\ row.status = st
    BY <1>0 DEF NcrRow, NcrStatuses
  <2>4. ncr[n].status \notin Closed \cup {"none"}
    BY <1>5 DEF Respond, AcceptResponse, Acceptable, RequestRevision, Submit,
       RejectRectification, Closed
  <2>5. Move(n, row)
    BY <2>2
  <2> HIDE DEF row
  <2> QED BY <1>4, <2>3, <2>4, <2>5 DEF Closed
<1>6. ASSUME NEW k \in EvidenceKinds, AddEvidence(n, k) \/ BeginRemoval(n, k) \/ Remove(n, k)
      PROVE  LotsSeen'
  <2>1. UNCHANGED <<lotStatus, ncr, linked, closer>>
    BY <1>6 DEF AddEvidence, BeginRemoval, Remove, rowVars, requestVars
  <2> QED BY <2>1, SameLots DEF IsOpen
<1>7. ASSUME NEW u \in Users, QmApprove(n, u) PROVE LotsSeen'
  <2>1. [ncr[n] EXCEPT !.approver = u].status = ncr[n].status
    BY <1>0 DEF NcrRow
  <2>2. SetNcr(n, [ncr[n] EXCEPT !.approver = u]) /\ Conflicts({n}, TRUE)
        /\ UNCHANGED <<lotStatus, linked>>
    BY <1>7 DEF QmApprove
  <2> QED BY <2>1, <2>2, SameRow
<1> QED BY <1>1, <1>2, <1>3, <1>5, <1>6, <1>7 DEF Workflow

LEMMA ClosureSees ==
    ASSUME IInv, LotsSeen, NEW c \in Closers, Closure(c)
    PROVE  LotsSeen'
<1>0. /\ closer \in [Closers -> Closing] /\ closer[c] \in Closing
      /\ linked \in [Ncrs -> SUBSET Lots]
  BY DEF IInv, TypeOK
<1>1. ASSUME NEW n \in Ncrs, NEW u \in Users, NEW concession \in BOOLEAN, NEW waive \in BOOLEAN,
             BeginClose(c, n, u, concession, waive)
      PROVE  LotsSeen'
  <2> DEFINE d == [ncr |-> n, user |-> u, concession |-> concession, frees |-> Frees(n), stale |-> FALSE]
  <2>1. closer' = [closer EXCEPT ![c] = d] /\ UNCHANGED rowVars
    BY <1>1 DEF BeginClose
  <2>2. d.ncr = n /\ d.frees = Frees(n)
    OBVIOUS
  <2> HIDE DEF d
  <2>3. UNCHANGED <<lotStatus, ncr, linked>>
    BY <2>1 DEF rowVars
  <2>4. closer'[c] = d /\ \A x \in Closers \ {c} : closer'[x] = closer[x]
    BY <1>0, <2>1
  <2>5. SeesLots(c)'
    BY <2>2, <2>3, <2>4 DEF SeesLots, Raised, Others, OpenOn, IsOpen, Frees
  <2>6. \A x \in Closers \ {c} : SeesLots(x)'
    BY <2>3, <2>4 DEF LotsSeen, SeesLots, Raised, Others, OpenOn, IsOpen, Strict
  <2> QED BY <2>5, <2>6 DEF LotsSeen
<1>2. ASSUME CommitClose(c) PROVE LotsSeen'
  <2> DEFINE d == closer[c]
             n == d.ncr
             row == [ncr[n] EXCEPT !.status = IF d.concession THEN "closed_concession" ELSE "closed",
                                   !.closer = d.user, !.waived = n \in Major /\ ~ncr[n].notified]
  <2>1. /\ n # None /\ ~d.stale /\ ncr' = [ncr EXCEPT ![n] = row] /\ SetLots(d.frees, "in_progress")
        /\ closer' = [x \in Closers |->
             IF x = c THEN NoClosing
             ELSE IF closer[x].ncr # None /\ ({n} \cup d.frees) \cap (Written(x) \cup ReadBy(x)) # {}
                  THEN [closer[x] EXCEPT !.stale = TRUE] ELSE closer[x]]
        /\ linked' = linked
    BY <1>2 DEF CommitClose, SetNcr
  <2>2. n \in Ncrs /\ \A l \in d.frees : l \in linked[n]
    BY <1>0, <2>1 DEF Closing, LotsSeen, SeesLots
  <2> HIDE DEF row
  <2>3. \A m \in Ncrs \ {n} : ncr'[m] = ncr[m]
    BY <2>1 DEF IInv, TypeOK
  <2> SUFFICES ASSUME NEW x \in Closers, closer'[x].ncr # None, ~closer'[x].stale
               PROVE  /\ closer'[x] = closer[x]
                      /\ \A l \in linked[closer[x].ncr] : Quiet(x, l)
    BY <2>1, QuietKeeps DEF LotsSeen
  <2>4. x # c
    BY <2>1 DEF NoClosing
  <2>5. closer'[x] = IF closer[x].ncr # None /\ ({n} \cup d.frees) \cap (Written(x) \cup ReadBy(x)) # {}
                  THEN [closer[x] EXCEPT !.stale = TRUE] ELSE closer[x]
    BY <2>1, <2>4
  <2>6. closer'[x] = closer[x] /\ n \notin ReadBy(x)
    <3>1. closer[x] \in Closing
      BY <1>0
    <3>2. closer'[x] = closer[x]
      BY <2>5, <3>1 DEF Closing
    <3>3. ASSUME n \in ReadBy(x) PROVE FALSE
      <4>1. closer'[x] = [closer[x] EXCEPT !.stale = TRUE]
        BY <2>5, <3>2, <3>3
      <4> QED BY <3>1, <4>1 DEF Closing
    <3> QED BY <3>2, <3>3
  <2>7. linked[n] \cap linked[closer[x].ncr] = {}
    BY <2>2, <2>6 DEF ReadBy
  <2>8. ASSUME NEW l \in linked[closer[x].ncr] PROVE Quiet(x, l)
    <3>1. l \notin linked[n] /\ l \notin d.frees
      BY <2>2, <2>7
    <3>2. closer[x].ncr \in Ncrs /\ l \in Lots
      BY <1>0, <2>6 DEF Closing
    <3>3. OpenOn(l)' = OpenOn(l)
      BY <2>1, <2>3, <3>1 DEF OpenOn, IsOpen
    <3>4. lotStatus'[l] = lotStatus[l]
      BY <2>1, <3>1, <3>2 DEF SetLots
    <3> QED BY <3>3, <3>4 DEF Quiet
  <2> QED BY <2>6, <2>8
<1>3. ASSUME AbortClose(c) PROVE LotsSeen'
  <2>1. closer' = [closer EXCEPT ![c] = NoClosing] /\ UNCHANGED <<lotStatus, ncr, linked>>
    BY <1>3 DEF AbortClose, rowVars
  <2>2. \A x \in Closers : closer'[x].ncr # None => closer'[x] = closer[x]
    BY <1>0, <2>1 DEF NoClosing
  <2> QED BY <2>1, <2>2, SameLots DEF IsOpen
<1> QED BY <1>1, <1>2, <1>3 DEF Closure

LEMMA NotificationSees ==
    ASSUME IInv, LotsSeen, NEW s \in Senders, Notification(s)
    PROVE  LotsSeen'
<1>0. ncr \in [Ncrs -> NcrRow]
  BY DEF IInv, TypeOK
<1>1. ASSUME NEW n \in Ncrs, NEW b \in BOOLEAN, SetNcr(n, [ncr[n] EXCEPT !.notified = b]),
             Conflicts({n}, FALSE), UNCHANGED <<lotStatus, linked>>
      PROVE  LotsSeen'
  <2>1. [ncr[n] EXCEPT !.notified = b].status = ncr[n].status
    BY <1>0 DEF NcrRow
  <2> QED BY <1>1, <2>1, SameRow
<1>2. CASE \E n \in Ncrs : ClaimNotification(s, n)
  BY <1>1, <1>2 DEF ClaimNotification
<1>3. CASE MailFails(s)
  <2>1. sender[s] \in Ncrs
    BY <1>3 DEF MailFails, IInv, TypeOK
  <2> QED BY <1>1, <1>3, <2>1 DEF MailFails
<1>4. CASE MailSent(s) \/ MailCrash(s)
  <2>1. UNCHANGED <<lotStatus, ncr, linked, closer>>
    BY <1>4 DEF MailSent, MailCrash, rowVars
  <2> QED BY <2>1, SameLots DEF IsOpen
<1> QED BY <1>2, <1>3, <1>4 DEF Notification

LEMMA LotMoveSees ==
    ASSUME IInv, LotsSeen, NEW l \in Lots, LotMove(l)
    PROVE  LotsSeen'
<1>0. HandStatuses \subseteq LotStatuses /\ "conformed" \in LotStatuses /\ "claimed" \in LotStatuses
  BY ConstantsAssumption DEF LotStatuses
<1>1. PICK s \in LotStatuses, b \in BOOLEAN :
        /\ SetLots({l}, s) /\ Conflicts({l}, b) /\ UNCHANGED <<ncr, linked>>
        /\ Strict => s # "ncr_raised"
  <2>1. CASE \E s \in HandStatuses : BulkMove(l, s)
    BY <1>0, <2>1 DEF BulkMove, MoveLot, Strict
  <2>2. CASE \E s \in HandStatuses : OverrideStatus(l, s)
    BY <1>0, <2>2 DEF OverrideStatus, MoveLot, Strict
  <2>3. CASE \E force \in BOOLEAN : Conform(l, force)
    BY <1>0, <2>3 DEF Conform
  <2>4. CASE Claim(l)
    BY <1>0, <2>4 DEF Claim
  <2> QED BY <2>1, <2>2, <2>3, <2>4 DEF LotMove
<1>2. \A k : OpenOn(k)' = OpenOn(k)
  BY <1>1 DEF OpenOn, IsOpen
<1> SUFFICES ASSUME NEW c \in Closers, closer'[c].ncr # None, ~closer'[c].stale
             PROVE  /\ closer'[c] = closer[c]
                    /\ \A k \in linked[closer[c].ncr] : Quiet(c, k)
  BY <1>1, QuietKeeps DEF LotsSeen
<1>3. closer[c] \in Closing
  BY DEF IInv, TypeOK
<1>4. closer'[c] = IF closer[c].ncr # None
           /\ {l} \cap (Written(c) \cup IF b THEN ReadBy(c) ELSE {}) # {}
        THEN [closer[c] EXCEPT !.stale = TRUE] ELSE closer[c]
  BY <1>1 DEF Conflicts
<1>5. closer'[c] = closer[c] /\ l \notin closer[c].frees
  <2>1. closer'[c] = closer[c]
    BY <1>3, <1>4 DEF Closing
  <2>2. ASSUME l \in closer[c].frees PROVE FALSE
    <3>1. closer'[c] = [closer[c] EXCEPT !.stale = TRUE]
      BY <1>4, <2>1, <2>2 DEF Written
    <3> QED BY <1>3, <3>1 DEF Closing
  <2> QED BY <2>1, <2>2
<1>6. ASSUME NEW k \in linked[closer[c].ncr] PROVE Quiet(c, k)
  <2>1. k \in Lots
    BY <1>3, <1>5 DEF IInv, TypeOK, Closing
  <2>2. lotStatus'[k] = IF k = l THEN s ELSE lotStatus[k]
    BY <1>1, <2>1 DEF SetLots
  <2> QED BY <1>1, <1>2, <1>5, <2>2 DEF Quiet
<1> QED BY <1>5, <1>6

LotInv == IInv /\ LotsSeen

LEMMA SpecLotInv == Spec => []LotInv
<1>1. Init => LotInv
  BY InitIInv DEF Init, LotInv, LotsSeen, SeesLots, NoClosing
<1>2. LotInv /\ [Next]_vars => LotInv'
  <2> SUFFICES ASSUME IInv, LotsSeen, [Next]_vars PROVE LotsSeen'
    BY StepIInv DEF LotInv
  <2>1. CASE UNCHANGED vars
    BY <2>1, SameLots DEF vars, rowVars, requestVars, IsOpen
  <2>2. CASE Next
    BY <2>2, WorkflowSees, ClosureSees, NotificationSees, LotMoveSees DEF Next
  <2> QED BY <2>1, <2>2
<1> QED BY <1>1, <1>2, PTL DEF Spec

\* Only a closure closes an NCR, and it moves the lots it decided to free.
LEMMA ClosersOnly ==
    ASSUME LotInv, [Next]_vars, NEW n \in Ncrs, Closes(n)
    PROVE  \E c \in Closers :
              /\ closer[c].ncr = n /\ ~closer[c].stale
              /\ lotStatus' = [l \in Lots |-> IF l \in closer[c].frees THEN "in_progress" ELSE lotStatus[l]]
              /\ linked' = linked /\ \A m \in Ncrs \ {n} : ncr'[m] = ncr[m]
<1>0. IInv /\ ncr \in [Ncrs -> NcrRow] /\ None \notin Ncrs
  BY ConstantsAssumption DEF LotInv, IInv, TypeOK
<1>1. ASSUME NEW m \in Ncrs, NEW row, ncr' = [ncr EXCEPT ![m] = row],
             row.status \notin Closed \/ row.status = ncr[m].status
      PROVE  FALSE
  BY <1>0, <1>1 DEF Closes
<1>2. ncr' # ncr
  BY DEF Closes
<1>3. ASSUME NEW m \in Ncrs PROVE ~Workflow(m)
  <2> SUFFICES ASSUME Workflow(m) PROVE FALSE
    OBVIOUS
  <2>0. ncr[m] \in NcrRow
    BY <1>0
  <2>1. CASE Raise(m)
    <3>1. [NoNcr EXCEPT !.status = "open"].status \notin Closed
      BY DEF NoNcr, Closed
    <3> QED BY <1>1, <2>1, <3>1 DEF Raise, SetNcr
  <2>2. CASE Reopen(m)
    <3> DEFINE row == [ncr[m] EXCEPT !.status = "rectification", !.approver = None,
                                     !.closer = None, !.waived = FALSE]
    <3>1. row.status \notin Closed
      BY <2>0 DEF NcrRow, Closed
    <3>2. ncr' = [ncr EXCEPT ![m] = row]
      BY <2>2 DEF Reopen, SetNcr
    <3> HIDE DEF row
    <3> QED BY <1>1, <3>1, <3>2
  <2>3. ASSUME NEW st \in {"open", "investigating", "rectification", "verification"},
               \/ Move(m, [ncr[m] EXCEPT !.status = st])
               \/ Move(m, [ncr[m] EXCEPT !.status = st, !.reviewed = TRUE])
        PROVE  FALSE
    <3>1. [ncr[m] EXCEPT !.status = st].status \notin Closed
          /\ [ncr[m] EXCEPT !.status = st, !.reviewed = TRUE].status \notin Closed
      BY <2>0 DEF NcrRow, Closed
    <3> QED BY <1>1, <2>3, <3>1 DEF Move, SetNcr
  <2>4. CASE \E u \in Users : QmApprove(m, u)
    <3>1. PICK u \in Users : QmApprove(m, u)
      BY <2>4
    <3>2. [ncr[m] EXCEPT !.approver = u].status = ncr[m].status
      BY <2>0 DEF NcrRow
    <3> QED BY <1>1, <3>1, <3>2 DEF QmApprove, SetNcr
  <2>5. CASE Respond(m) \/ AcceptResponse(m) \/ RequestRevision(m) \/ Submit(m)
             \/ RejectRectification(m)
    BY <2>3, <2>5 DEF Respond, AcceptResponse, RequestRevision, Submit, RejectRectification
  <2> QED BY <1>2, <2>1, <2>2, <2>4, <2>5
        DEF Workflow, Screen, AddEvidence, BeginRemoval, Remove, rowVars
<1>4. ASSUME NEW s \in Senders PROVE ~Notification(s)
  <2> SUFFICES ASSUME Notification(s) PROVE FALSE
    OBVIOUS
  <2>1. ASSUME NEW m \in Ncrs, NEW b \in BOOLEAN, SetNcr(m, [ncr[m] EXCEPT !.notified = b])
        PROVE  FALSE
    <3>1. [ncr[m] EXCEPT !.notified = b].status = ncr[m].status
      BY <1>0 DEF NcrRow
    <3> QED BY <1>1, <2>1, <3>1 DEF SetNcr
  <2>2. CASE MailFails(s)
    <3>1. sender[s] \in Ncrs
      BY <1>0, <2>2 DEF MailFails, IInv, TypeOK
    <3> QED BY <2>1, <2>2, <3>1 DEF MailFails
  <2> QED BY <1>2, <2>1, <2>2 DEF Notification, ClaimNotification, MailSent, MailCrash, rowVars
<1>5. ASSUME NEW l \in Lots PROVE ~LotMove(l)
  BY <1>2 DEF LotMove, BulkMove, OverrideStatus, MoveLot, Conform, Claim
<1>6. PICK c \in Closers : Closure(c)
  BY <1>2, <1>3, <1>4, <1>5 DEF Next, vars, rowVars
<1>7. CommitClose(c)
  BY <1>2, <1>6 DEF Closure, BeginClose, AbortClose, rowVars
<1>8. closer[c].ncr \in Ncrs
  BY <1>0, <1>7 DEF CommitClose, IInv, TypeOK, Closing
<1>9. \A m \in Ncrs : m # closer[c].ncr => ncr'[m] = ncr[m]
  BY <1>0, <1>7, <1>8 DEF CommitClose, SetNcr
<1>10. closer[c].ncr = n
  BY <1>9 DEF Closes
<1> QED BY <1>7, <1>9, <1>10 DEF CommitClose, SetLots

-----------------------------------------------------------------------------
\* Every row, request and snapshot keeps its type; only major NCRs' clients
\* are told (ncrClosureWorkflow.ts).
THEOREM TypeCorrect == Spec => []TypeOK
<1>1. IInv => TypeOK
  BY DEF IInv
<1> QED BY <1>1, SpecIInv, PTL

\* A closed major NCR carries an approval of somebody other than its closer,
\* however approvals, rejections, reopenings and closures are interleaved
\* (assertNcrClosable, qm-approve, reopen).
THEOREM ClosedIndependently == Spec => []MajorClosedIndependently
<1>1. IInv => MajorClosedIndependently
  BY DEF IInv
<1> QED BY <1>1, SpecIInv, PTL

\* One request at a time holds the notification of an NCR, also when mails
\* fail and servers stop (claimClientNotification and its release).
THEOREM ClaimsAreExclusive == Spec => []OneNotifier
<1>1. IInv => OneNotifier
  BY DEF IInv
<1> QED BY <1>1, SpecIInv, PTL

\* A closure never gives back a lot that another NCR still holds, although
\* creation and reopening run at a weaker isolation level beside it.
THEOREM HeldLotsStay == Spec => ClosureKeepsHeldLots
<1> DEFINE Keeps == \A n \in Ncrs, l \in Lots :
              Closes(n) /\ lotStatus[l] = "ncr_raised" /\ OpenOn(l)' # {}
                 => lotStatus'[l] = "ncr_raised"
<1>1. LotInv /\ [Next]_vars => [Keeps]_vars
  <2> SUFFICES ASSUME LotInv, [Next]_vars, NEW n \in Ncrs, NEW l \in Lots,
                      Closes(n), lotStatus[l] = "ncr_raised", OpenOn(l)' # {}
               PROVE  lotStatus'[l] = "ncr_raised"
    OBVIOUS
  <2>1. PICK c \in Closers :
              /\ closer[c].ncr = n /\ ~closer[c].stale
              /\ lotStatus' = [k \in Lots |-> IF k \in closer[c].frees THEN "in_progress" ELSE lotStatus[k]]
              /\ linked' = linked /\ \A m \in Ncrs \ {n} : ncr'[m] = ncr[m]
    BY ClosersOnly
  <2>2. OpenOn(l)' \subseteq OpenOn(l) \ {n}
    BY <2>1 DEF OpenOn, IsOpen, Closes
  <2>3. l \notin closer[c].frees
    BY <2>1, <2>2, ConstantsAssumption DEF LotInv, LotsSeen, SeesLots, Others
  <2> QED BY <2>1, <2>3
<1>2. Spec => [][Keeps]_vars
  BY <1>1, SpecLotInv, PTL DEF Spec
<1> QED BY <1>2 DEF ClosureKeepsHeldLots

\* Where nobody raises lots by hand, whoever closes the last open NCR of a lot
\* gives the lot back: concurrent closures never each leave it to the other.
THEOREM LastLotFreed ==
    ASSUME Strict
    PROVE  Spec => LastClosureFreesLot
<1> DEFINE Freed == \A n \in Ncrs : Closes(n) =>
              \A l \in linked[n] : OpenOn(l)' = {} => lotStatus'[l] # "ncr_raised"
<1>1. LotInv /\ [Next]_vars => [Freed]_vars
  <2> SUFFICES ASSUME LotInv, [Next]_vars, NEW n \in Ncrs, Closes(n),
                      NEW l \in linked[n], OpenOn(l)' = {}
               PROVE  lotStatus'[l] # "ncr_raised"
    OBVIOUS
  <2>1. PICK c \in Closers :
              /\ closer[c].ncr = n /\ ~closer[c].stale
              /\ lotStatus' = [k \in Lots |-> IF k \in closer[c].frees THEN "in_progress" ELSE lotStatus[k]]
              /\ linked' = linked /\ \A m \in Ncrs \ {n} : ncr'[m] = ncr[m]
    BY ClosersOnly
  <2>2. l \in Lots /\ n # None
    BY ConstantsAssumption DEF LotInv, IInv, TypeOK
  <2>3. OpenOn(l) \ {n} \subseteq OpenOn(l)'
    BY <2>1 DEF OpenOn, IsOpen
  <2>4. lotStatus[l] = "ncr_raised" => l \in closer[c].frees
    BY <2>1, <2>2, <2>3 DEF LotInv, LotsSeen, SeesLots, Others, Raised
  <2> QED BY <2>1, <2>2, <2>4
<1>2. Spec => [][Freed]_vars
  BY <1>1, SpecLotInv, PTL DEF Spec
<1> QED BY <1>2 DEF LastClosureFreesLot
=============================================================================
