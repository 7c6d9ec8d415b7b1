---------------------------- MODULE NcrLifecycle ----------------------------
(***************************************************************************)
(* Non-conformance reports (routes/ncrs) and the status of the lots they   *)
(* are raised on: response, review, rectification, approval, closure,      *)
(* client notification and reopening, with the human moves of a lot that   *)
(* run beside them.                                                        *)
(*                                                                         *)
(* A step is a transaction or a guarded single-row update.  A closure is   *)
(* SERIALIZABLE (lib/readiness/recordDecision.ts) while the transactions   *)
(* that create and reopen an NCR are READ COMMITTED, so a closure is two   *)
(* steps: the snapshot it decides on, and a commit that the database       *)
(* refuses when a row it writes has changed since, or when another         *)
(* serializable transaction changed a row it read.                         *)
(***************************************************************************)
EXTENDS FiniteSets, Naturals

CONSTANTS
    Lots, Ncrs,
    Major,             \* the NCRs raised with severity 'major'
    Users,             \* quality managers: reviewers, approvers and closers
    Closers,           \* close requests in flight at once
    Senders,           \* notify-client requests in flight at once
    EvidenceKinds,     \* evidence types in play, of "before" and "after"
    HandStatuses,      \* statuses that a person gives a lot by hand
    Faults,            \* may mails fail, and servers stop while mailing?
    None               \* SQL NULL

ASSUME ConstantsAssumption ==
    /\ Major \subseteq Ncrs
    /\ EvidenceKinds \subseteq {"before", "after"}
    /\ HandStatuses \subseteq {"in_progress", "ncr_raised"}
    /\ Faults \in BOOLEAN
    /\ None \notin Ncrs \cup Users

VARIABLES
    lotStatus,         \* the lot's status column
    ncr,               \* the NCR row
    linked,            \* the NCR's lots (ncr_lots)
    evidence,          \* the NCR's evidence rows, by kind
    told,              \* the NCRs whose client was actually sent the mail
    (* requests in flight *)
    screened,          \* creations whose lots passed requireNcrLotsInProject
    removing,          \* evidence removals that passed their status check
    closer,            \* a closure between its snapshot and its commit
    sender             \* the NCR a notify-client request holds the claim of

rowVars == <<lotStatus, ncr, linked, evidence>>
requestVars == <<screened, removing, closer, sender>>
vars == <<rowVars, told, requestVars>>

LotStatuses == {"in_progress", "ncr_raised", "conformed", "claimed"}
Terminal == {"conformed", "claimed"}
Closed == {"closed", "closed_concession"}
NcrStatuses == {"none", "open", "investigating", "rectification",
                "verification"} \cup Closed

\* The columns the workflow decides on.  reviewed is qmReviewedAt, notified is
\* clientNotifiedAt, waived the audited override of the client notification.
NcrRow == [status : NcrStatuses, reviewed : BOOLEAN, approver : Users \cup {None},
           closer : Users \cup {None}, notified : BOOLEAN, waived : BOOLEAN]
NoNcr == [status |-> "none", reviewed |-> FALSE, approver |-> None,
          closer |-> None, notified |-> FALSE, waived |-> FALSE]

Closing == [ncr : Ncrs \cup {None}, user : Users \cup {None},
            concession : BOOLEAN, frees : SUBSET Lots, stale : BOOLEAN]
NoClosing == [ncr |-> None, user |-> None, concession |-> FALSE,
              frees |-> {}, stale |-> FALSE]

Init ==
    /\ lotStatus = [l \in Lots |-> "in_progress"]
    /\ ncr = [n \in Ncrs |-> NoNcr]
    /\ linked = [n \in Ncrs |-> {}]
    /\ evidence = [n \in Ncrs |-> {}]
    /\ told = {}
    /\ screened = {}
    /\ removing = {}
    /\ closer = [c \in Closers |-> NoClosing]
    /\ sender = [s \in Senders |-> None]

-----------------------------------------------------------------------------
(* Rows and the conflicts between transactions. *)

IsOpen(n) == ncr[n].status \notin Closed \cup {"none"}
OpenOn(l) == {n \in Ncrs : IsOpen(n) /\ l \in linked[n]}

\* What a closure in flight writes, and what its decision was read from.
Written(c) == {closer[c].ncr} \cup closer[c].frees

\* Closures of two NCRs of one lot do not read each other.
WrongReadBy(c) == {closer[c].ncr}

ReadBy(c) == {closer[c].ncr} \cup {m \in Ncrs : linked[m] \cap linked[closer[c].ncr] # {}}

\* The closure runs at the database's default isolation.
WrongConflicts(rows, serializable) ==
    closer' = closer

\* A commit that changes `rows` refuses the closures in flight that write one
\* of them and, if it is serializable itself, those that read one.
Conflicts(rows, serializable) ==
    closer' = [c \in Closers |->
        IF closer[c].ncr # None
           /\ rows \cap (Written(c) \cup IF serializable THEN ReadBy(c) ELSE {}) # {}
        THEN [closer[c] EXCEPT !.stale = TRUE] ELSE closer[c]]

\* The guard notIn ['conformed', 'claimed'] of creation, reopening, bulk moves.
Movable(ls) == {l \in ls : lotStatus[l] \notin Terminal}

SetLots(ls, s) == lotStatus' = [l \in Lots |-> IF l \in ls THEN s ELSE lotStatus[l]]

SetNcr(n, row) == ncr' = [ncr EXCEPT ![n] = row]

\* A guarded updateMany of one NCR row by a handler outside the decisions.
Move(n, row) ==
    /\ SetNcr(n, row)
    /\ Conflicts({n}, FALSE)
    /\ UNCHANGED <<lotStatus, linked, evidence, told, screened, removing, sender>>

-----------------------------------------------------------------------------
(* Creation: the lots are checked before the transaction. *)

Screen(n, ls) ==
    /\ ncr[n].status = "none" /\ n \notin screened
    /\ ls # {} /\ Movable(ls) = ls
    /\ screened' = screened \cup {n}
    /\ linked' = [linked EXCEPT ![n] = ls]
    /\ UNCHANGED <<lotStatus, ncr, evidence, told, removing, closer, sender>>

Raise(n) ==
    /\ n \in screened
    /\ screened' = screened \ {n}
    /\ SetNcr(n, [NoNcr EXCEPT !.status = "open"])
    /\ SetLots(Movable(linked[n]), "ncr_raised")
    /\ Conflicts({n} \cup Movable(linked[n]), FALSE)
    /\ UNCHANGED <<linked, evidence, told, removing, sender>>

-----------------------------------------------------------------------------
(* Response, review and rectification. *)

Respond(n) ==
    /\ ncr[n].status = "open"
    /\ Move(n, [ncr[n] EXCEPT !.status = "investigating"])

\* The accepting update's where clause.
Acceptable(n) == ncr[n].status = "investigating" /\ ~ncr[n].reviewed

AcceptResponse(n) ==
    /\ Acceptable(n)
    /\ Move(n, [ncr[n] EXCEPT !.status = "rectification", !.reviewed = TRUE])

RequestRevision(n) ==
    /\ ncr[n].status = "investigating"
    /\ Move(n, [ncr[n] EXCEPT !.status = "open", !.reviewed = TRUE])

\* rectify and submit-for-verification: claimNcrVerificationSubmission.
Submit(n) ==
    /\ ncr[n].status = "rectification"
    /\ evidence[n] # {}
    /\ Move(n, [ncr[n] EXCEPT !.status = "verification"])

RejectRectification(n) ==
    /\ ncr[n].status = "verification"
    /\ Move(n, [ncr[n] EXCEPT !.status = "rectification"])

-----------------------------------------------------------------------------
(* Evidence: the status is read first, the row written after. *)

AddEvidence(n, k) ==
    /\ IsOpen(n)
    /\ evidence' = [evidence EXCEPT ![n] = @ \cup {k}]
    /\ UNCHANGED <<lotStatus, ncr, linked, told, requestVars>>

BeginRemoval(n, k) ==
    /\ k \in evidence[n]
    /\ ncr[n].status \notin {"verification"} \cup Closed
    /\ removing' = removing \cup {<<n, k>>}
    /\ UNCHANGED <<rowVars, told, screened, closer, sender>>

Remove(n, k) ==
    /\ <<n, k>> \in removing
    /\ removing' = removing \ {<<n, k>>}
    /\ evidence' = [evidence EXCEPT ![n] = @ \ {k}]
    /\ UNCHANGED <<lotStatus, ncr, linked, told, screened, closer, sender>>

-----------------------------------------------------------------------------
(* Approval and closure. *)

\* qm-approve: serializable, re-checked inside its transaction.
QmApprove(n, u) ==
    /\ n \in Major /\ ncr[n].approver = None
    /\ ncr[n].status = "verification"
    /\ SetNcr(n, [ncr[n] EXCEPT !.approver = u])
    /\ Conflicts({n}, TRUE)
    /\ UNCHANGED <<lotStatus, linked, evidence, told, screened, removing, sender>>

\* The approver may close as well.
WrongClosable(n, u, concession, waive) ==
    /\ ncr[n].status = "verification"
    /\ evidence[n] # {}
    /\ concession \/ "after" \in evidence[n]
    /\ n \in Major => /\ ncr[n].approver # None
                      /\ ncr[n].notified \/ waive

\* assertNcrClosable, and the evidence clause of the closing update.
Closable(n, u, concession, waive) ==
    /\ ncr[n].status = "verification"
    /\ evidence[n] # {}
    /\ concession \/ "after" \in evidence[n]
    /\ n \in Major => /\ ncr[n].approver \notin {None, u}
                      /\ ncr[n].notified \/ waive

\* Every lot of the NCR is freed, whoever else holds it.
WrongFrees(n) == {l \in linked[n] : lotStatus[l] = "ncr_raised"}

\* evaluateNcrClosure: the lots no other open NCR holds, if they are raised.
Frees(n) == {l \in linked[n] : OpenOn(l) \ {n} = {} /\ lotStatus[l] = "ncr_raised"}

BeginClose(c, n, u, concession, waive) ==
    /\ closer[c].ncr = None
    /\ Closable(n, u, concession, waive)
    /\ closer' = [closer EXCEPT ![c] =
          [ncr |-> n, user |-> u, concession |-> concession,
           frees |-> Frees(n), stale |-> FALSE]]
    /\ UNCHANGED <<rowVars, told, screened, removing, sender>>

\* An override only counts (and is only recorded) while the client is unnotified.
CommitClose(c) ==
    LET d == closer[c]
        row == ncr[d.ncr]
    IN /\ d.ncr # None /\ ~d.stale
       /\ SetNcr(d.ncr, [row EXCEPT
             !.status = IF d.concession THEN "closed_concession" ELSE "closed",
             !.closer = d.user,
             !.waived = d.ncr \in Major /\ ~row.notified])
       /\ SetLots(d.frees, "in_progress")
       /\ closer' = [x \in Closers |->
             IF x = c THEN NoClosing
             ELSE IF closer[x].ncr # None /\ ({d.ncr} \cup d.frees) \cap (Written(x) \cup ReadBy(x)) # {}
                  THEN [closer[x] EXCEPT !.stale = TRUE] ELSE closer[x]]
       /\ UNCHANGED <<linked, evidence, told, screened, removing, sender>>

\* A serialization failure: the decision is taken again or answers 409.
AbortClose(c) ==
    /\ closer[c].stale
    /\ closer' = [closer EXCEPT ![c] = NoClosing]
    /\ UNCHANGED <<rowVars, told, screened, removing, sender>>

Reopen(n) ==
    /\ ncr[n].status \in Closed
    /\ SetNcr(n, [ncr[n] EXCEPT !.status = "rectification", !.approver = None,
                                !.closer = None, !.waived = FALSE])
    /\ SetLots(Movable(linked[n]), "ncr_raised")
    /\ Conflicts({n} \cup Movable(linked[n]), FALSE)
    /\ UNCHANGED <<linked, evidence, told, screened, removing, sender>>

-----------------------------------------------------------------------------
(* notify-client: claim the column, send, release the claim on a failure. *)

\* Everyone who read the NCR as unnotified sends.
WrongUnclaimed(n) == n \in Major

\* claimClientNotification: clientNotificationRequired, clientNotifiedAt null.
Unclaimed(n) == n \in Major /\ ~ncr[n].notified

ClaimNotification(s, n) ==
    /\ sender[s] = None
    /\ ncr[n].status # "none" /\ Unclaimed(n)
    /\ sender' = [sender EXCEPT ![s] = n]
    /\ SetNcr(n, [ncr[n] EXCEPT !.notified = TRUE])
    /\ Conflicts({n}, FALSE)
    /\ UNCHANGED <<lotStatus, linked, evidence, told, screened, removing>>

MailSent(s) ==
    /\ sender[s] # None
    /\ told' = told \cup {sender[s]}
    /\ sender' = [sender EXCEPT ![s] = None]
    /\ UNCHANGED <<rowVars, screened, removing, closer>>

\* The provider refuses, or its answer is lost after it took the mail.
MailFails(s) ==
    /\ Faults /\ sender[s] # None
    /\ told' \in {told, told \cup {sender[s]}}
    /\ SetNcr(sender[s], [ncr[sender[s]] EXCEPT !.notified = FALSE])
    /\ sender' = [sender EXCEPT ![s] = None]
    /\ Conflicts({sender[s]}, FALSE)
    /\ UNCHANGED <<lotStatus, linked, evidence, screened, removing>>

\* The server stops while it holds the claim: nothing takes the claim back.
MailCrash(s) ==
    /\ Faults /\ sender[s] # None
    /\ told' \in {told, told \cup {sender[s]}}
    /\ sender' = [sender EXCEPT ![s] = None]
    /\ UNCHANGED <<rowVars, screened, removing, closer>>

-----------------------------------------------------------------------------
(* The lot's other moves, as far as an NCR can tell them apart. *)

MoveLot(l, s) ==
    /\ SetLots({l}, s)
    /\ UNCHANGED <<ncr, linked, evidence, told, screened, removing, sender>>

\* Bulk status update.
BulkMove(l, s) ==
    /\ Movable({l}) # {}
    /\ MoveLot(l, s)
    /\ Conflicts({l}, FALSE)

\* override-status: pinned to the status it was decided on; never claimed lots.
OverrideStatus(l, s) ==
    /\ lotStatus[l] # "claimed"
    /\ MoveLot(l, s)
    /\ Conflicts({l}, TRUE)

\* conform: no open NCR unless it is forced by an administrator.
Conform(l, force) ==
    /\ Movable({l}) # {}
    /\ force \/ OpenOn(l) = {}
    /\ SetLots({l}, "conformed")
    /\ Conflicts({l}, TRUE)
    /\ UNCHANGED <<ncr, linked, evidence, told, screened, removing, sender>>

\* A claim takes a conformed lot that carries no open NCR.
Claim(l) ==
    /\ lotStatus[l] = "conformed" /\ OpenOn(l) = {}
    /\ SetLots({l}, "claimed")
    /\ Conflicts({l}, TRUE)
    /\ UNCHANGED <<ncr, linked, evidence, told, screened, removing, sender>>

-----------------------------------------------------------------------------
Workflow(n) ==
    \/ \E ls \in SUBSET Lots : Screen(n, ls)
    \/ Raise(n)
    \/ Respond(n) \/ AcceptResponse(n) \/ RequestRevision(n)
    \/ Submit(n) \/ RejectRectification(n) \/ Reopen(n)
    \/ \E k \in EvidenceKinds : AddEvidence(n, k) \/ BeginRemoval(n, k) \/ Remove(n, k)
    \/ \E u \in Users : QmApprove(n, u)

Closure(c) ==
    \/ \E n \in Ncrs, u \in Users, concession, waive \in BOOLEAN :
          BeginClose(c, n, u, concession, waive)
    \/ CommitClose(c) \/ AbortClose(c)

Notification(s) ==
    \/ \E n \in Ncrs : ClaimNotification(s, n)
    \/ MailSent(s) \/ MailFails(s) \/ MailCrash(s)

LotMove(l) ==
    \/ \E s \in HandStatuses : BulkMove(l, s) \/ OverrideStatus(l, s)
    \/ \E force \in BOOLEAN : Conform(l, force)
    \/ Claim(l)

Next ==
    \/ \E n \in Ncrs : Workflow(n)
    \/ \E c \in Closers : Closure(c)
    \/ \E s \in Senders : Notification(s)
    \/ \E l \in Lots : LotMove(l)

Spec == Init /\ [][Next]_vars

-----------------------------------------------------------------------------
(* Properties. *)

TypeOK ==
    /\ lotStatus \in [Lots -> LotStatuses]
    /\ ncr \in [Ncrs -> NcrRow]
    /\ linked \in [Ncrs -> SUBSET Lots]
    /\ evidence \in [Ncrs -> SUBSET EvidenceKinds]
    /\ told \subseteq Major
    /\ screened \subseteq Ncrs
    /\ removing \subseteq Ncrs \X EvidenceKinds
    /\ closer \in [Closers -> Closing]
    /\ sender \in [Senders -> Ncrs \cup {None}]

\* A closed major NCR carries the approval of somebody other than the person
\* who closed it, over any sequence of rejections, reopenings and races
\* (assertNcrClosable, reopen).
MajorClosedIndependently ==
    \A n \in Major : ncr[n].status \in Closed =>
        ncr[n].approver # None /\ ncr[n].approver # ncr[n].closer

Closes(n) == ncr[n].status \notin Closed /\ ncr'[n].status \in Closed

\* A closure never gives back a lot that an NCR still holds, although NCRs are
\* created and reopened on the lot beside it at a weaker isolation level
\* (evaluateNcrClosure, createNcrWithAllocatedNumber, reopen).
ClosureKeepsHeldLots ==
    [][\A n \in Ncrs, l \in Lots :
          Closes(n) /\ lotStatus[l] = "ncr_raised" /\ OpenOn(l)' # {}
             => lotStatus'[l] = "ncr_raised"]_vars

\* Whoever closes the last open NCR of a lot gives the lot back: two closures
\* at once do not each leave it to the other (evaluateNcrClosure).
LastClosureFreesLot ==
    [][\A n \in Ncrs : Closes(n) =>
          \A l \in linked[n] : OpenOn(l)' = {} => lotStatus'[l] # "ncr_raised"]_vars

\* One notify-client request at a time holds an NCR's notification, and its
\* release never frees the claim of another (claimClientNotification,
\* releaseClientNotificationClaim).
OneNotifier ==
    /\ \A s \in Senders : sender[s] # None => ncr[sender[s]].notified
    /\ \A s, t \in Senders : s # t /\ sender[s] # None => sender[s] # sender[t]

\* Not so: a major NCR closed without the override had its client notified, or
\* the mail is on its way (the comment above the check in assertNcrClosable).
\* The claim sets the column before the mail is sent, a failure clears it later.
ClosedClientWasTold ==
    \A n \in Major : ncr[n].status \in Closed /\ ~ncr[n].waived =>
        n \in told \/ \E s \in Senders : sender[s] = n

\* Not so: a submitted response can be accepted.  After a revision the accept
\* request refuses it, although "NCR must be in investigating status to review"
\* (qm-review) is met.
ResponseCanBeAccepted ==
    \A n \in Ncrs : ncr[n].status = "investigating" => Acceptable(n)

=============================================================================
