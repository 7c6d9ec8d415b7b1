-------------------------- MODULE HoldPointRelease --------------------------
(***************************************************************************)
(* The hold points of one lot: the site team asks for a release, the       *)
(* authority decides through a secure link (or an internal releaser in the *)
(* application), the team may withdraw the request, the conditions of a    *)
(* conditional release are closed one by one, and reminders are sent.      *)
(*                                                                         *)
(* Every decision and the withdrawal is one SERIALIZABLE transaction that  *)
(* writes the hold_points row (recordDecision), hence one step.  The other *)
(* routes are READ COMMITTED or have no transaction at all: a request      *)
(* reads a status and later writes where the row still matches, a reminder *)
(* reads, reserves, mints, mails and refunds in statements of their own.   *)
(* They are steps of a process that remembers what it read.                *)
(*                                                                         *)
(* Left out: who may act (roles), the preceding checklist items a request  *)
(* waits for, schedules, evidence, signatures, escalation flags, and holds *)
(* points whose rows predate decision rounds.  A request addresses one     *)
(* reviewer; the second link to the same round comes from a reminder or a  *)
(* QR code.  Checklist results are written by the head contractor.         *)
(***************************************************************************)
EXTENDS Integers, FiniteSets

CONSTANTS
    HoldPoints,        \* release-gated checklist items of the lot
    Internal,          \* those with authorityClass 'contractor_internal'
    Links,             \* rows of hold_point_release_tokens
    Recorded,          \* checklist results the site may record
    Conditions,        \* texts a conditional release may impose
    Requesters,        \* release requests being handled
    Mailers,           \* chase, digest and QR-link requests being handled
    Closers,           \* condition satisfactions being recorded
    NoHoldPoint,
    NoLinkId,
    MaxRounds,         \* bound on requests per hold point
    MaxChases,         \* MAX_CHASES_PER_REQUEST, 3 in the code
    SendsMayFail       \* may the mail provider refuse a reminder?

ASSUME ConstantsAssumption ==
    /\ Internal \subseteq HoldPoints
    /\ Recorded \subseteq {"pending", "completed", "failed", "not_applicable"}
    /\ NoHoldPoint \notin HoldPoints
    /\ NoLinkId \notin Links
    /\ {"nobody", "in_app"} \cap Links = {}
    /\ MaxRounds \in Nat \ {0}
    /\ MaxChases \in Nat \ {0}
    /\ SendsMayFail \in BOOLEAN

VARIABLES
    (* the hold_points row *)
    status, current, sentAt, chases, cooling,
    rounds,            \* hold_point_decision_rounds and their conditions
    link,              \* hold_point_release_tokens
    completion,        \* itp_completions of the hold point's item
    rooms,             \* hold_point_release_batches created
    (* requests in flight *)
    requester, mailer, closer,
    reminders          \* history: reminders delivered, by request

rowVars == <<status, current, sentAt, chases, cooling>>
processVars == <<requester, mailer, closer>>
vars == <<rowVars, rounds, link, completion, rooms, processVars, reminders>>

Rounds == 1..MaxRounds
Settled == {"released", "conditional", "rejected"}
Statuses == {"absent", "pending", "notified", "released"}
Results == {"pending", "completed", "failed", "not_applicable"}

Round == [verdict : Settled \cup {"none"},
          withdrawn : BOOLEAN,
          by : Links \cup {"nobody", "in_app"},
          ncr : {"none", "open", "closed"},        \* linkedNcr
          answered : BOOLEAN,                      \* responseToPriorRejection
          conds : SUBSET Conditions,
          met : SUBSET Conditions]
BlankRound == [verdict |-> "none", withdrawn |-> FALSE, by |-> "nobody",
               ncr |-> "none", answered |-> FALSE, conds |-> {}, met |-> {}]

\* round = 0: not bound to a round; room = 0: not part of a batch.
Link == [state : {"none", "live", "expired", "used"},
         hp : HoldPoints \cup {NoHoldPoint},
         round : 0..MaxRounds,
         room : Nat]
NoLink == [state |-> "none", hp |-> NoHoldPoint, round |-> 0, room |-> 0]

Request == [at : {"idle", "checked"},
            hps : SUBSET HoldPoints,       \* requested together
            fresh : SUBSET HoldPoints,     \* those that had no row when checked
            answers : SUBSET HoldPoints,   \* those that carry a response
            batch : BOOLEAN]
IdleRequest == [at |-> "idle", hps |-> {}, fresh |-> {}, answers |-> {},
                batch |-> FALSE]

Mail == [at : {"idle", "read", "reserved", "sending", "refund", "linking"},
         hp : HoldPoints \cup {NoHoldPoint},
         gen : 0..MaxRounds,               \* the notificationSentAt that was read
         cooled : BOOLEAN,                 \* so was the lastChasedAt
         fresh : Links \cup {NoLinkId}]    \* the link minted for the reminder
IdleMail == [at |-> "idle", hp |-> NoHoldPoint, gen |-> 0, cooled |-> TRUE,
             fresh |-> NoLinkId]

Closing == [at : {"idle", "counted"},
            hp : HoldPoints \cup {NoHoldPoint},
            cond : SUBSET Conditions,
            last : BOOLEAN]                \* no other condition was open
IdleCloser == [at |-> "idle", hp |-> NoHoldPoint, cond |-> {}, last |-> FALSE]

-----------------------------------------------------------------------------
(* What the routes read. *)

Now(h) == rounds[h][current[h]]

Unused(t) == link[t].state \in {"live", "expired"}

\* A row id no link has and no reminder in flight remembers.
FreeLinks ==
    {t \in Links : link[t] = NoLink /\ \A k \in Mailers : mailer[k].fresh # t}

\* The outcome of the round and the status of the hold point go unread.
WrongDecisionEligible(h, r) ==
    /\ status[h] # "absent"
    /\ r = current[h]
    /\ ~rounds[h][r].withdrawn

DecisionEligible(h, r) ==
    /\ status[h] = "notified"
    /\ r = current[h]
    /\ rounds[h][r].verdict = "none"
    /\ ~rounds[h][r].withdrawn

\* The round a link decides: its own, or the current one, bound on first use.
BoundRound(t) == IF link[t].round = 0 THEN current[link[t].hp] ELSE link[t].round

\* Rejected, its NCR closed: the request must then carry a response.
ReRequestable(h) == Now(h).verdict = "rejected" /\ Now(h).ncr = "closed"

Init ==
    /\ status = [h \in HoldPoints |-> "absent"]
    /\ current = [h \in HoldPoints |-> 0]
    /\ sentAt = [h \in HoldPoints |-> 0]
    /\ chases = [h \in HoldPoints |-> 0]
    /\ cooling = [h \in HoldPoints |-> FALSE]
    /\ rounds = [h \in HoldPoints |-> [r \in Rounds |-> BlankRound]]
    /\ link = [t \in Links |-> NoLink]
    /\ completion = [h \in HoldPoints |->
                       [status |-> "pending", verified |-> FALSE]]
    /\ rooms = 0
    /\ requester = [q \in Requesters |-> IdleRequest]
    /\ mailer = [k \in Mailers |-> IdleMail]
    /\ closer = [c \in Closers |-> IdleCloser]
    /\ reminders = [h \in HoldPoints |-> [r \in Rounds |-> 0]]

-----------------------------------------------------------------------------
(* Requesting a release, singly or as a batch with one review room. *)

MayRequest(h) ==
    /\ status[h] # "released"
    /\ status[h] = "pending" => Now(h).withdrawn \/ ReRequestable(h)

CheckRequest(q, hps, batch) ==
    /\ requester[q].at = "idle"
    /\ batch \/ Cardinality(hps) = 1
    /\ \A h \in hps : MayRequest(h)
    /\ requester' = [requester EXCEPT ![q] =
         [at |-> "checked", hps |-> hps, batch |-> batch,
          fresh |-> {h \in hps : status[h] = "absent"},
          answers |-> {h \in hps : status[h] = "pending" /\ ~Now(h).withdrawn}]]
    /\ UNCHANGED <<rowVars, rounds, link, completion, rooms, mailer, closer,
                   reminders>>

\* The links of the earlier request are left alone.
WrongReissued(hps, new, room) ==
    [t \in Links |->
       IF \E h \in hps : new[h] = t
       THEN LET h == CHOOSE x \in hps : new[x] = t
            IN  [state |-> "live", hp |-> h, round |-> current[h] + 1,
                 room |-> room]
       ELSE link[t]]

\* A fresh link for each requested hold point; a request revokes the unused ones.
Reissued(hps, new, room) ==
    [t \in Links |->
       IF \E h \in hps : new[h] = t
       THEN LET h == CHOOSE x \in hps : new[x] = t
            IN  [state |-> "live", hp |-> h, round |-> current[h] + 1,
                 room |-> room]
       ELSE IF Unused(t) /\ link[t].hp \in hps THEN NoLink ELSE link[t]]

SaveRequest(q) ==
    LET hps == requester[q].hps
        room == IF requester[q].batch THEN rooms + 1 ELSE 0
    IN  /\ requester[q].at = "checked"
        /\ \A h \in hps :
             /\ IF h \in requester[q].fresh THEN status[h] = "absent"
                ELSE status[h] # "released"
             /\ current[h] < MaxRounds
        /\ \E new \in [hps -> FreeLinks] :
             /\ \A g, h \in hps : g # h => new[g] # new[h]
             /\ link' = Reissued(hps, new, room)
        /\ status' = [h \in HoldPoints |->
                        IF h \in hps THEN "notified" ELSE status[h]]
        /\ current' = [h \in HoldPoints |->
                        IF h \in hps THEN current[h] + 1 ELSE current[h]]
        /\ sentAt' = [h \in HoldPoints |->
                        IF h \in hps THEN current[h] + 1 ELSE sentAt[h]]
        /\ chases' = [h \in HoldPoints |-> IF h \in hps THEN 0 ELSE chases[h]]
        /\ cooling' = [h \in HoldPoints |-> h \notin hps /\ cooling[h]]
        /\ rounds' = [h \in HoldPoints |->
             IF h \in hps
             THEN [rounds[h] EXCEPT ![current[h] + 1] =
                     [BlankRound EXCEPT !.answered = h \in requester[q].answers]]
             ELSE rounds[h]]
        /\ rooms' = IF requester[q].batch THEN rooms + 1 ELSE rooms
        /\ requester' = [requester EXCEPT ![q] = IdleRequest]
        /\ UNCHANGED <<completion, mailer, closer, reminders>>

\* A conflict, a failed evidence check: the transaction leaves nothing.
DropRequest(q) ==
    /\ requester[q].at = "checked"
    /\ requester' = [requester EXCEPT ![q] = IdleRequest]
    /\ UNCHANGED <<rowVars, rounds, link, completion, rooms, mailer, closer,
                   reminders>>

-----------------------------------------------------------------------------
(* Deciding and withdrawing. *)

Revoked(S) == [t \in Links |-> IF t \in S THEN NoLink ELSE link[t]]

\* Back to pending, as if never sent.
Reopen(h) ==
    /\ status' = [status EXCEPT ![h] = "pending"]
    /\ sentAt' = [sentAt EXCEPT ![h] = 0]
    /\ chases' = [chases EXCEPT ![h] = 0]
    /\ cooling' = [cooling EXCEPT ![h] = FALSE]
    /\ UNCHANGED current

WithdrawRequest(h) ==
    /\ DecisionEligible(h, current[h])
    /\ rounds' = [rounds EXCEPT ![h][current[h]].withdrawn = TRUE]
    /\ Reopen(h)
    /\ link' = Revoked({t \in Links : Unused(t) /\ link[t].hp = h})
    /\ UNCHANGED <<completion, rooms, processVars, reminders>>

Decided(h, verdict, by) ==
    [Now(h) EXCEPT !.verdict = verdict, !.by = by]

\* A link that came without a round is spent without being bound to one.
WrongSpent(t) == [link[t] EXCEPT !.state = "used"]

\* Claims the link: it binds to the round it decides and is spent.
Spent(t) == [link[t] EXCEPT !.state = "used", !.round = BoundRound(t)]

LinkDecides(t) ==
    /\ link[t].state = "live"
    /\ DecisionEligible(link[t].hp, BoundRound(t))

RejectByLink(t) ==
    LET h == link[t].hp
    IN  /\ LinkDecides(t)
        /\ rounds' = [rounds EXCEPT ![h][current[h]] =
                        [Decided(h, "rejected", t) EXCEPT !.ncr = "open"]]
        /\ Reopen(h)
        /\ link' = [link EXCEPT ![t] = Spent(t)]
        /\ UNCHANGED <<completion, rooms, processVars, reminders>>

CompletionCanBeReleased(h) == completion[h].status # "failed"

Verified == [status |-> "completed", verified |-> TRUE]

\* One link, or links of one review room: all of them or none.
ReleaseByLinks(S) ==
    LET hps == {link[t].hp : t \in S}
        linkOf(h) == CHOOSE t \in S : link[t].hp = h
    IN  /\ \A t \in S : LinkDecides(t) /\ CompletionCanBeReleased(link[t].hp)
        /\ \A s, t \in S : s # t => link[s].hp # link[t].hp
        /\ rounds' = [h \in HoldPoints |->
             IF h \in hps
             THEN [rounds[h] EXCEPT ![current[h]] =
                     Decided(h, "released", linkOf(h))]
             ELSE rounds[h]]
        /\ status' = [h \in HoldPoints |->
                        IF h \in hps THEN "released" ELSE status[h]]
        /\ completion' = [h \in HoldPoints |->
                            IF h \in hps THEN Verified ELSE completion[h]]
        /\ link' = [t \in Links |-> IF t \in S THEN Spent(t) ELSE link[t]]
        /\ UNCHANGED <<current, sentAt, chases, cooling, rooms, processVars,
                       reminders>>

ReleaseByLink(t) == link[t].state = "live" /\ ReleaseByLinks({t})

ReleaseRoom(S) ==
    /\ S # {}
    /\ \A t \in S : link[t].state = "live" /\ link[t].room # 0
    /\ \A s, t \in S : link[s].room = link[t].room
    /\ ReleaseByLinks(S)

ReleaseWithConditions(t, conds) ==
    LET h == link[t].hp
    IN  /\ LinkDecides(t)
        /\ CompletionCanBeReleased(h)
        /\ rounds' = [rounds EXCEPT ![h][current[h]] =
                        [Decided(h, "conditional", t) EXCEPT !.conds = conds]]
        /\ status' = [status EXCEPT ![h] = "released"]
        /\ completion' = [completion EXCEPT ![h].status = "completed"]
        /\ link' = [link EXCEPT ![t] = Spent(t)]
        /\ UNCHANGED <<current, sentAt, chases, cooling, rooms, processVars,
                       reminders>>

\* The hold point is released and its round is left undecided.
WrongReleaseInApp(h) ==
    /\ h \in Internal
    /\ DecisionEligible(h, current[h])
    /\ CompletionCanBeReleased(h)
    /\ status' = [status EXCEPT ![h] = "released"]
    /\ completion' = [completion EXCEPT ![h] = Verified]
    /\ UNCHANGED <<current, sentAt, chases, cooling, rounds, link, rooms,
                   processVars, reminders>>

\* Only internal authority decides without a link.
ReleaseInApp(h) ==
    /\ h \in Internal
    /\ DecisionEligible(h, current[h])
    /\ CompletionCanBeReleased(h)
    /\ rounds' = [rounds EXCEPT ![h][current[h]] =
                    Decided(h, "released", "in_app")]
    /\ status' = [status EXCEPT ![h] = "released"]
    /\ completion' = [completion EXCEPT ![h] = Verified]
    /\ UNCHANGED <<current, sentAt, chases, cooling, link, rooms, processVars,
                   reminders>>

\* A link lives for two days, longer than the reminder that carries it is sent.
ExpireLink(t) ==
    /\ link[t].state = "live"
    /\ \A k \in Mailers : mailer[k].fresh # t
    /\ link' = [link EXCEPT ![t].state = "expired"]
    /\ UNCHANGED <<rowVars, rounds, completion, rooms, processVars, reminders>>

\* The retention pass deletes expired links (used ones months later; nothing
\* reads those any more, so they stay here).
PurgeLink(t) ==
    /\ link[t].state = "expired"
    /\ link' = Revoked({t})
    /\ UNCHANGED <<rowVars, rounds, completion, rooms, processVars, reminders>>

-----------------------------------------------------------------------------
(* The rejection's NCR and the checklist item, as other routes move them. *)

CloseNcr(h, r) ==
    /\ rounds[h][r].ncr = "open"
    /\ rounds' = [rounds EXCEPT ![h][r].ncr = "closed"]
    /\ UNCHANGED <<rowVars, link, completion, rooms, processVars, reminders>>

ReopenNcr(h, r) ==
    /\ rounds[h][r].ncr = "closed"
    /\ rounds' = [rounds EXCEPT ![h][r].ncr = "open"]
    /\ UNCHANGED <<rowVars, link, completion, rooms, processVars, reminders>>

\* A verified result may be changed.
WrongRecordResult(h, result) ==
    /\ completion[h].status = "failed" => result = "failed"
    /\ result = "completed" => status[h] = "released"
    /\ completion[h].status # result
    /\ completion' = [completion EXCEPT ![h].status = result]
    /\ UNCHANGED <<rowVars, rounds, link, rooms, processVars, reminders>>

RecordResult(h, result) ==
    /\ ~completion[h].verified
    /\ completion[h].status = "failed" => result = "failed"
    /\ result = "completed" => status[h] = "released"
    /\ completion[h].status # result
    /\ completion' = [completion EXCEPT ![h].status = result]
    /\ UNCHANGED <<rowVars, rounds, link, rooms, processVars, reminders>>

-----------------------------------------------------------------------------
(* Recording that a condition of a conditional release is satisfied. *)

OpenConditions(h) == Now(h).conds \ Now(h).met

\* Without the row lock: two transactions count each other's condition as open.
WrongCountOthers(c, h, x) ==
    /\ closer[c].at = "idle"
    /\ status[h] = "released" /\ Now(h).verdict = "conditional"
    /\ x \in OpenConditions(h)
    /\ closer' = [closer EXCEPT ![c] =
         [at |-> "counted", hp |-> h, cond |-> {x},
          last |-> OpenConditions(h) = {x}]]
    /\ UNCHANGED <<rowVars, rounds, link, completion, rooms, requester, mailer,
                   reminders>>

\* The transaction locks the round, marks its condition and counts the others.
CountOthers(c, h, x) ==
    /\ closer[c].at = "idle"
    /\ status[h] = "released" /\ Now(h).verdict = "conditional"
    /\ x \in OpenConditions(h)
    /\ \A d \in Closers : closer[d].hp # h
    /\ closer' = [closer EXCEPT ![c] =
         [at |-> "counted", hp |-> h, cond |-> {x},
          last |-> OpenConditions(h) = {x}]]
    /\ UNCHANGED <<rowVars, rounds, link, completion, rooms, requester, mailer,
                   reminders>>

\* The transaction is rolled back and the lock released.
DropCondition(c) ==
    /\ closer[c].at = "counted"
    /\ closer' = [closer EXCEPT ![c] = IdleCloser]
    /\ UNCHANGED <<rowVars, rounds, link, completion, rooms, requester, mailer,
                   reminders>>

CloseCondition(c) ==
    LET h == closer[c].hp
    IN  /\ closer[c].at = "counted"
        /\ rounds' = [rounds EXCEPT ![h][current[h]].met =
                        @ \cup closer[c].cond]
        /\ completion' = IF closer[c].last
                         THEN [completion EXCEPT ![h].verified = TRUE]
                         ELSE completion
        /\ closer' = [closer EXCEPT ![c] = IdleCloser]
        /\ UNCHANGED <<rowVars, link, rooms, requester, mailer, reminders>>

-----------------------------------------------------------------------------
(* Reminders and QR links. *)

\* loadHoldPointForChase: what the caller read, generation and cooldown.
ReadForChase(k, h) ==
    /\ mailer[k].at = "idle"
    /\ status[h] \in {"pending", "notified"}
    /\ mailer' = [mailer EXCEPT ![k] =
         [at |-> "read", hp |-> h, gen |-> sentAt[h], cooled |-> ~cooling[h],
          fresh |-> NoLinkId]]
    /\ UNCHANGED <<rowVars, rounds, link, completion, rooms, requester, closer,
                   reminders>>

\* One reminder too many.
LaxReservable(k) ==
    LET h == mailer[k].hp
    IN  /\ mailer[k].gen # 0
        /\ status[h] = "notified"
        /\ chases[h] <= MaxChases
        /\ ~cooling[h]
        /\ sentAt[h] = mailer[k].gen

Reservable(k) ==
    LET h == mailer[k].hp
    IN  /\ mailer[k].gen # 0
        /\ status[h] = "notified"
        /\ chases[h] < MaxChases
        /\ ~cooling[h]
        /\ sentAt[h] = mailer[k].gen

ReserveChase(k) ==
    LET h == mailer[k].hp
    IN  /\ mailer[k].at = "read"
        /\ Reservable(k)
        /\ chases' = [chases EXCEPT ![h] = @ + 1]
        /\ cooling' = [cooling EXCEPT ![h] = TRUE]
        /\ mailer' = [mailer EXCEPT ![k].at = "reserved"]
        /\ UNCHANGED <<status, current, sentAt, rounds, link, completion, rooms,
                       requester, closer, reminders>>

RefuseChase(k) ==
    /\ mailer[k].at = "read"
    /\ ~Reservable(k)
    /\ mailer' = [mailer EXCEPT ![k] = IdleMail]
    /\ UNCHANGED <<rowVars, rounds, link, completion, rooms, requester, closer,
                   reminders>>

Minted(t, h) == [state |-> "live", hp |-> h, round |-> 0, room |-> 0]

\* createChaseReleaseTokens: a fresh link, bound to no round.
MintChaseLink(k) ==
    /\ mailer[k].at = "reserved"
    /\ \E t \in FreeLinks :
         /\ link' = [link EXCEPT ![t] = Minted(t, mailer[k].hp)]
         /\ mailer' = [mailer EXCEPT ![k].at = "sending", ![k].fresh = t]
    /\ UNCHANGED <<rowVars, rounds, completion, rooms, requester, closer,
                   reminders>>

\* The links of the review room are taken for superseded ones.
WrongSuperseded(k) ==
    {t \in Links : /\ Unused(t)
                   /\ link[t].hp = mailer[k].hp
                   /\ t # mailer[k].fresh}

\* The reviewer's other single links; a review room keeps its own.
Superseded(k) ==
    {t \in Links : /\ Unused(t)
                   /\ link[t].hp = mailer[k].hp
                   /\ link[t].room = 0
                   /\ t # mailer[k].fresh}

\* The provider accepts.
ChaseDelivered(k) ==
    LET h == mailer[k].hp
    IN  /\ mailer[k].at = "sending"
        /\ link' = Revoked(Superseded(k))
        /\ reminders' = [reminders EXCEPT ![h][mailer[k].gen] = @ + 1]
        /\ mailer' = [mailer EXCEPT ![k] = IdleMail]
        /\ UNCHANGED <<rowVars, rounds, completion, rooms, requester, closer>>

\* Refused, or never prepared: the fresh link goes, the attempt is to be given
\* back.
ChaseFails(k) ==
    /\ SendsMayFail
    /\ mailer[k].at \in {"reserved", "sending"}
    /\ link' = Revoked({t \in {mailer[k].fresh} \cap Links : Unused(t)})
    /\ mailer' = [mailer EXCEPT ![k].at = "refund"]
    /\ UNCHANGED <<rowVars, rounds, completion, rooms, requester, closer,
                   reminders>>

\* Suppressed (digest only), before a link is minted or after: the link goes,
\* the attempt stays consumed.
ChaseSuppressed(k) ==
    /\ SendsMayFail
    /\ mailer[k].at \in {"reserved", "sending"}
    /\ link' = Revoked({t \in {mailer[k].fresh} \cap Links : Unused(t)})
    /\ mailer' = [mailer EXCEPT ![k] = IdleMail]
    /\ UNCHANGED <<rowVars, rounds, completion, rooms, requester, closer,
                   reminders>>

\* rollbackHoldPointChase
RefundChase(k) ==
    LET h == mailer[k].hp
    IN  /\ mailer[k].at = "refund"
        /\ IF chases[h] > 0
           THEN /\ chases' = [chases EXCEPT ![h] = @ - 1]
                /\ cooling' = [cooling EXCEPT ![h] = ~mailer[k].cooled]
           ELSE UNCHANGED <<chases, cooling>>
        /\ mailer' = [mailer EXCEPT ![k] = IdleMail]
        /\ UNCHANGED <<status, current, sentAt, rounds, link, completion, rooms,
                       requester, closer, reminders>>

\* A day later every lastChasedAt, stored or remembered, is out of the cooldown.
DayPasses ==
    /\ \E h \in HoldPoints : cooling[h]
    /\ cooling' = [h \in HoldPoints |-> FALSE]
    /\ mailer' = [k \in Mailers |-> [mailer[k] EXCEPT !.cooled = TRUE]]
    /\ UNCHANGED <<status, current, sentAt, chases, rounds, link, completion,
                   rooms, requester, closer, reminders>>

\* The server stops while it handles the request: nothing more is written.
MailerDies(k) ==
    /\ SendsMayFail
    /\ mailer[k].at # "idle"
    /\ mailer' = [mailer EXCEPT ![k] = IdleMail]
    /\ UNCHANGED <<rowVars, rounds, link, completion, rooms, requester, closer,
                   reminders>>

ReadForQrLink(k, h) ==
    /\ mailer[k].at = "idle"
    /\ status[h] = "notified"
    /\ mailer' = [mailer EXCEPT ![k] =
         [IdleMail EXCEPT !.at = "linking", !.hp = h]]
    /\ UNCHANGED <<rowVars, rounds, link, completion, rooms, requester, closer,
                   reminders>>

MintQrLink(k) ==
    /\ mailer[k].at = "linking"
    /\ \E t \in FreeLinks :
         link' = [link EXCEPT ![t] = Minted(t, mailer[k].hp)]
    /\ mailer' = [mailer EXCEPT ![k] = IdleMail]
    /\ UNCHANGED <<rowVars, rounds, completion, rooms, requester, closer,
                   reminders>>

-----------------------------------------------------------------------------
RequestStep ==
    \E q \in Requesters :
       \/ \E hps \in (SUBSET HoldPoints) \ {{}}, batch \in BOOLEAN :
            CheckRequest(q, hps, batch)
       \/ SaveRequest(q)
       \/ DropRequest(q)

DecisionStep ==
    \/ \E h \in HoldPoints : WithdrawRequest(h) \/ ReleaseInApp(h)
    \/ \E t \in Links :
         \/ RejectByLink(t)
         \/ ReleaseByLink(t)
         \/ \E conds \in (SUBSET Conditions) \ {{}} : ReleaseWithConditions(t, conds)
         \/ ExpireLink(t)
         \/ PurgeLink(t)
    \/ \E S \in SUBSET Links : ReleaseRoom(S)

SiteStep ==
    \/ \E h \in HoldPoints, r \in Rounds : CloseNcr(h, r) \/ ReopenNcr(h, r)
    \/ \E h \in HoldPoints, result \in Recorded : RecordResult(h, result)
    \/ \E c \in Closers :
         \/ \E h \in HoldPoints, x \in Conditions : CountOthers(c, h, x)
         \/ CloseCondition(c)
         \/ DropCondition(c)

MailStep ==
    \/ \E k \in Mailers :
         \/ \E h \in HoldPoints : ReadForChase(k, h) \/ ReadForQrLink(k, h)
         \/ ReserveChase(k)
         \/ RefuseChase(k)
         \/ MintChaseLink(k)
         \/ ChaseDelivered(k)
         \/ ChaseFails(k)
         \/ ChaseSuppressed(k)
         \/ RefundChase(k)
         \/ MailerDies(k)
         \/ MintQrLink(k)
    \/ DayPasses

Next == RequestStep \/ DecisionStep \/ SiteStep \/ MailStep

Spec == Init /\ [][Next]_vars
-----------------------------------------------------------------------------
TypeOK ==
    /\ status \in [HoldPoints -> Statuses]
    /\ current \in [HoldPoints -> 0..MaxRounds]
    /\ sentAt \in [HoldPoints -> 0..MaxRounds]
    /\ chases \in [HoldPoints -> 0..MaxChases]
    /\ cooling \in [HoldPoints -> BOOLEAN]
    /\ rounds \in [HoldPoints -> [Rounds -> Round]]
    /\ link \in [Links -> Link]
    /\ completion \in [HoldPoints -> [status : Results, verified : BOOLEAN]]
    /\ rooms \in Nat
    /\ requester \in [Requesters -> Request]
    /\ mailer \in [Mailers -> Mail]
    /\ closer \in [Closers -> Closing]
    /\ reminders \in [HoldPoints -> [Rounds -> Nat]]

\* The register's status column and the current decision round never disagree:
\* a hold point waits exactly while its current round is undecided and not
\* withdrawn, and it is released exactly when that round released it.
StatusFollowsRound ==
    \A h \in HoldPoints :
       /\ status[h] = "absent" <=> current[h] = 0
       /\ status[h] = "notified" =>
            Now(h).verdict = "none" /\ ~Now(h).withdrawn
       /\ status[h] = "pending" =>
            Now(h).verdict = "rejected" \/ Now(h).withdrawn
       /\ status[h] = "released" =>
            Now(h).verdict \in {"released", "conditional"} /\ ~Now(h).withdrawn

\* A round is settled once: a decision is never changed or withdrawn, a
\* withdrawn round is never decided, and a superseded round stays as it was.
RoundsSettleOnce ==
    [][\A h \in HoldPoints, r \in Rounds :
         \/ rounds[h][r].verdict # "none"
         \/ rounds[h][r].withdrawn
         \/ r < current[h]
         => /\ rounds[h][r].verdict = rounds'[h][r].verdict
            /\ rounds[h][r].by = rounds'[h][r].by
            /\ rounds[h][r].withdrawn = rounds'[h][r].withdrawn
            /\ rounds[h][r].conds = rounds'[h][r].conds]_vars

\* The register behind the screens: what each request was decided to be.
DecisionOf(round) ==
    [verdict |-> IF round.withdrawn THEN "withdrawn" ELSE round.verdict,
     by |-> round.by, conds |-> round.conds]
Decisions == [h \in HoldPoints |-> [r \in Rounds |-> DecisionOf(rounds[h][r])]]

Register == INSTANCE DecisionRegister WITH asked <- current, decision <- Decisions

\* Requests, links, rooms and releases in the application keep the register's
\* promises: the latest request is settled once, by a link that settles nothing
\* else, and what is released stays so.
ImplementsRegister == Register!RegisterSpec

\* A secure link decides one round, once: a used link is the recorded author of
\* the round it is bound to, and of no other.
LinkDecidesOnce ==
    /\ \A t \in Links : link[t].state = "used" =>
         /\ link[t].round # 0
         /\ rounds[link[t].hp][link[t].round].by = t
    /\ \A h \in HoldPoints, r \in Rounds : rounds[h][r].by \in Links =>
         LET t == rounds[h][r].by
         IN  link[t].state = "used" /\ link[t].hp = h /\ link[t].round = r

\* A link sent with a request does not survive it: while it is unused its round
\* is the current one and has not been withdrawn.
BoundLinksAreCurrent ==
    \A t \in Links : Unused(t) /\ link[t].round # 0 =>
       link[t].round = current[link[t].hp] /\ ~Now(link[t].hp).withdrawn

\* A reminder never takes a hold point out of its review room: a live room link
\* disappears only with a new request or with the withdrawal of its own.
RoomLinkSurvives ==
    [][\A t \in Links :
         LET h == link[t].hp
         IN  /\ link[t].state = "live" /\ link[t].room # 0
             /\ current[h] = current'[h] /\ status[h] = status'[h]
             => link'[t] # NoLink]_vars

\* Not so: revoking the reviewer's other links with a reminder leaves one that
\* works.  A reminder delivered after a new request revokes that request's link
\* although its own is gone.
ReviewerKeepsLink ==
    [][\A h \in HoldPoints :
         LET live == {t \in Links : link[t].hp = h /\ link[t].state = "live"}
         IN  /\ status[h] = "notified" /\ live # {}
             /\ reminders'[h] # reminders[h]
             => \E t \in live : link'[t] = link[t]]_vars

\* An unconditional release leaves the checklist item completed and verified,
\* and nothing the site records afterwards undoes it.
FullReleaseIsVerified ==
    \A h \in HoldPoints :
       status[h] = "released" /\ Now(h).verdict = "released" =>
          completion[h] = Verified

\* Whoever closes the last open condition verifies the checklist item, however
\* the closings interleave.
ClosedConditionsVerify ==
    \A h \in HoldPoints :
       status[h] = "released" /\ Now(h).verdict = "conditional"
         /\ OpenConditions(h) = {} =>
          completion[h].verified

\* No request is chased more than MAX_CHASES_PER_REQUEST times.
RemindersCapped ==
    \A h \in HoldPoints, r \in Rounds : reminders[h][r] <= MaxChases

\* Not so: a request that follows a rejection answers it (and so waited for its
\* NCR).  One that was checked before the rejection is saved after it.
RejectionAnswered ==
    \A h \in HoldPoints, r \in Rounds :
       r > 1 /\ r <= current[h] /\ rounds[h][r - 1].verdict = "rejected" =>
          rounds[h][r].answered

\* Not so: only a completed or not applicable item is ever verified.  Closing
\* the last condition verifies an item that failed meanwhile.
VerifiedIsFinished ==
    \A h \in HoldPoints : completion[h].verified =>
       completion[h].status \in {"completed", "not_applicable"}
=============================================================================
