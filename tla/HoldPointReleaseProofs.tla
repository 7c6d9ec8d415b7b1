---------------------- MODULE HoldPointReleaseProofs ----------------------
(***************************************************************************)
(* Proofs about HoldPointRelease, for any number of hold points, links,    *)
(* rounds and handlers: decisions, the secure links that take them, the    *)
(* register of decisions they implement, the checklist items that a full   *)
(* release completes, conditions, and reminders.                           *)
(***************************************************************************)
EXTENDS HoldPointRelease, FiniteSetTheorems, TLAPS

\* A link belongs to a hold point, and a handler that is busy with one knows
\* which; a reminder is sent under a request.
NamesHoldPoint ==
    /\ \A t \in Links : link[t].state # "none" => link[t].hp \in HoldPoints
    /\ \A k \in Mailers :
         /\ mailer[k].at # "idle" => mailer[k].hp \in HoldPoints
         /\ mailer[k].at \in {"reserved", "sending", "refund"} =>
              mailer[k].gen \in Rounds
    /\ \A c \in Closers : closer[c].at # "idle" => closer[c].hp \in HoldPoints

RoundsType == rounds \in [HoldPoints -> [Rounds -> Round]]
LinksType == link \in [Links -> Link]

-----------------------------------------------------------------------------
(* Types. *)

\* No hold point, link or handler exists yet.
LEMMA TypeInitial == Init => TypeOK
BY ConstantsAssumption
   DEF Init, TypeOK, Statuses, Results, Rounds, Round, BlankRound, Settled, Link,
       NoLink, IdleRequest, IdleMail, IdleCloser, Request, Mail, Closing

\* The current round is a round, once there is one.
LEMMA NowIsRound ==
    ASSUME TypeOK, NEW h \in HoldPoints, current[h] # 0
    PROVE  current[h] \in Rounds /\ Now(h) \in Round
BY ConstantsAssumption DEF TypeOK, Rounds, Now

\* A round that may be decided is the current one and there is one.
LEMMA EligibleRound ==
    ASSUME TypeOK, StatusFollowsRound, NEW h \in HoldPoints, NEW r,
           DecisionEligible(h, r)
    PROVE  /\ r = current[h] /\ r \in Rounds /\ Now(h) \in Round
           /\ status[h] = "notified"
           /\ Now(h).verdict = "none" /\ ~Now(h).withdrawn
BY NowIsRound DEF DecisionEligible, StatusFollowsRound, Now

\* A decided round is a round.
LEMMA DecidedType ==
    ASSUME TypeOK, NEW h \in HoldPoints, Now(h) \in Round,
           NEW v \in Settled, NEW by \in Links \cup {"nobody", "in_app"}
    PROVE  Decided(h, v, by) \in Round
BY DEF Decided, Round

\* Revoking links leaves rows of the link table.
LEMMA RevokedType ==
    ASSUME TypeOK, NEW S PROVE Revoked(S) \in [Links -> Link]
BY ConstantsAssumption DEF TypeOK, Revoked, NoLink, Link

\* A spent link is a link, bound to a round.
LEMMA SpentType ==
    ASSUME TypeOK, NEW t \in Links, link[t].hp \in HoldPoints
    PROVE  Spent(t) \in Link
<1>1. BoundRound(t) \in 0..MaxRounds
  BY DEF TypeOK, BoundRound, Link
<1>2. link[t] \in Link
  BY DEF TypeOK
<1> HIDE DEF TypeOK
<1>3. QED
  BY <1>1, <1>2 DEF Spent, Link

\* What the processes remember, one of them rewritten.
LEMMA MailTyped ==
    ASSUME mailer \in [Mailers -> Mail], NEW k \in Mailers, NEW v \in Mail,
           mailer' = [mailer EXCEPT ![k] = v]
    PROVE  mailer' \in [Mailers -> Mail]
OBVIOUS

\* A handler that is done remembers nothing.
LEMMA IdleIsMail == IdleMail \in Mail
BY ConstantsAssumption DEF IdleMail, Mail

\* The same for the closing of conditions.
LEMMA CloserTyped ==
    ASSUME closer \in [Closers -> Closing], NEW c \in Closers, NEW v \in Closing,
           closer' = [closer EXCEPT ![c] = v]
    PROVE  closer' \in [Closers -> Closing]
OBVIOUS

\* Every action keeps the types, given that handlers know their hold point.
LEMMA TypeStep ==
    ASSUME TypeOK, StatusFollowsRound, NamesHoldPoint, [Next]_vars
    PROVE  TypeOK'
<1>1. ASSUME NEW q \in Requesters, NEW hps \in SUBSET HoldPoints,
             NEW batch \in BOOLEAN, CheckRequest(q, hps, batch)
      PROVE  TypeOK'
  BY <1>1 DEF CheckRequest, Request, TypeOK, rowVars
<1>2. ASSUME NEW q \in Requesters, SaveRequest(q) PROVE TypeOK'
  <2> DEFINE hps == requester[q].hps
  <2>1. hps \in SUBSET HoldPoints /\ \A h \in hps : current[h] + 1 \in Rounds
    BY <1>2, ConstantsAssumption DEF SaveRequest, TypeOK, Rounds, Request
  <2>2. /\ status' \in [HoldPoints -> Statuses]
        /\ current' \in [HoldPoints -> 0..MaxRounds]
        /\ sentAt' \in [HoldPoints -> 0..MaxRounds]
        /\ chases' \in [HoldPoints -> 0..MaxChases]
        /\ cooling' \in [HoldPoints -> BOOLEAN]
    BY <1>2, <2>1, ConstantsAssumption
       DEF SaveRequest, TypeOK, Rounds, Statuses
  <2>3. RoundsType'
    <3>1. \A b \in BOOLEAN : [BlankRound EXCEPT !.answered = b] \in Round
      BY DEF BlankRound, Round
    <3>2. ASSUME NEW h \in hps, NEW b \in BOOLEAN
          PROVE  [rounds[h] EXCEPT ![current[h] + 1] =
                    [BlankRound EXCEPT !.answered = b]] \in [Rounds -> Round]
      BY <2>1, <3>1, <3>2 DEF TypeOK
    <3>3. ASSUME NEW h \in HoldPoints PROVE rounds'[h] \in [Rounds -> Round]
      <4>1. CASE h \in hps
        <5> DEFINE b == h \in requester[q].answers
        <5>1. rounds'[h] = [rounds[h] EXCEPT ![current[h] + 1] =
                              [BlankRound EXCEPT !.answered = b]]
          BY <1>2, <4>1 DEF SaveRequest
        <5>2. b \in BOOLEAN
          OBVIOUS
        <5> HIDE DEF b
        <5>3. QED
          BY <3>2, <4>1, <5>1, <5>2
      <4>2. CASE h \notin hps
        BY <1>2, <4>2 DEF SaveRequest, TypeOK
      <4>3. QED
        BY <4>1, <4>2
    <3>4. QED
      BY <1>2, <3>3 DEF SaveRequest, RoundsType
  <2>4. LinksType'
    <3>1. PICK new \in [hps -> FreeLinks] :
            link' = Reissued(hps, new,
                             IF requester[q].batch THEN rooms + 1 ELSE 0)
      BY <1>2 DEF SaveRequest
    <3> DEFINE room == IF requester[q].batch THEN rooms + 1 ELSE 0
    <3>2. room \in Nat
      BY DEF TypeOK
    <3>3. NoLink \in Link
      BY ConstantsAssumption DEF NoLink, Link
    <3>4. ASSUME NEW h \in hps
          PROVE  [state |-> "live", hp |-> h, round |-> current[h] + 1,
                  room |-> room] \in Link
      BY <2>1, <3>2, <3>4 DEF Link, Rounds
    <3>5. ASSUME NEW t \in Links PROVE link'[t] \in Link
      BY <3>1, <3>3, <3>4 DEF Reissued, TypeOK
    <3>6. QED
      BY <3>1, <3>5 DEF Reissued, LinksType
  <2>5. /\ rooms' \in Nat
        /\ requester' \in [Requesters -> Request]
    BY <1>2 DEF SaveRequest, TypeOK, IdleRequest, Request
  <2>6. QED
    BY <1>2, <2>2, <2>3, <2>4, <2>5
       DEF SaveRequest, TypeOK, RoundsType, LinksType
<1>3. ASSUME NEW q \in Requesters, DropRequest(q) PROVE TypeOK'
  BY <1>3 DEF DropRequest, IdleRequest, Request, TypeOK, rowVars
<1>4. ASSUME NEW h \in HoldPoints, Reopen(h)
      PROVE  /\ status' \in [HoldPoints -> Statuses]
             /\ current' \in [HoldPoints -> 0..MaxRounds]
             /\ sentAt' \in [HoldPoints -> 0..MaxRounds]
             /\ chases' \in [HoldPoints -> 0..MaxChases]
             /\ cooling' \in [HoldPoints -> BOOLEAN]
  BY <1>4, ConstantsAssumption DEF Reopen, TypeOK, Statuses
<1>5. ASSUME NEW h \in HoldPoints, WithdrawRequest(h) PROVE TypeOK'
  <2>1. Now(h) \in Round
    BY <1>5, EligibleRound DEF WithdrawRequest
  <2>2. RoundsType'
    BY <1>5, <2>1 DEF WithdrawRequest, TypeOK, RoundsType, Round, Now
  <2>3. LinksType'
    BY <1>5, RevokedType DEF WithdrawRequest, LinksType
  <2>4. QED
    BY <1>4, <1>5, <2>2, <2>3
       DEF WithdrawRequest, TypeOK, RoundsType, LinksType, processVars
<1>6. ASSUME NEW h \in HoldPoints, ReleaseInApp(h) PROVE TypeOK'
  <2>1. Decided(h, "released", "in_app") \in Round
    BY <1>6, EligibleRound, DecidedType DEF ReleaseInApp, Settled
  <2>2. RoundsType'
    BY <1>6, <2>1 DEF ReleaseInApp, TypeOK, RoundsType
  <2>3. QED
    BY <1>6, <2>2
       DEF ReleaseInApp, TypeOK, RoundsType, processVars, Statuses, Results,
           Verified
<1>7. ASSUME NEW t \in Links, LinkDecides(t)
      PROVE  /\ link[t].hp \in HoldPoints
             /\ Now(link[t].hp) \in Round
             /\ Spent(t) \in Link
             /\ [link EXCEPT ![t] = Spent(t)] \in [Links -> Link]
  <2>1. link[t].hp \in HoldPoints
    BY <1>7 DEF LinkDecides, NamesHoldPoint
  <2>2. QED
    BY <1>7, <2>1, EligibleRound, SpentType DEF LinkDecides, TypeOK
<1>8. ASSUME NEW t \in Links, RejectByLink(t) PROVE TypeOK'
  <2> DEFINE h == link[t].hp
  <2>1. h \in HoldPoints /\ Now(h) \in Round
    BY <1>7, <1>8 DEF RejectByLink
  <2>2. Decided(h, "rejected", t) \in Round
    BY <2>1, DecidedType DEF Settled
  <2>3. [Decided(h, "rejected", t) EXCEPT !.ncr = "open"] \in Round
    BY <2>2 DEF Round
  <2>4. RoundsType'
    BY <1>8, <2>1, <2>3 DEF RejectByLink, TypeOK, RoundsType
  <2>5. LinksType'
    BY <1>7, <1>8 DEF RejectByLink, LinksType
  <2>6. QED
    BY <1>4, <1>8, <2>1, <2>4, <2>5
       DEF RejectByLink, TypeOK, RoundsType, LinksType, processVars
<1>9. ASSUME NEW S \in SUBSET Links, ReleaseByLinks(S) PROVE TypeOK'
  <2> DEFINE hps == {link[t].hp : t \in S}
             linkOf(h) == CHOOSE t \in S : link[t].hp = h
  <2>1. \A t \in S : link[t].hp \in HoldPoints /\ Now(link[t].hp) \in Round
                     /\ Spent(t) \in Link
    BY <1>7, <1>9 DEF ReleaseByLinks
  <2>2. \A h \in hps : linkOf(h) \in Links
    OBVIOUS
  <2>3. ASSUME NEW h \in hps
        PROVE  Decided(h, "released", linkOf(h)) \in Round
    BY <2>1, <2>2, DecidedType DEF Settled
  <2>4. RoundsType'
    <3>1. ASSUME NEW h \in HoldPoints PROVE rounds'[h] \in [Rounds -> Round]
      <4>1. CASE h \in hps
        <5>1. rounds'[h] = [rounds[h] EXCEPT ![current[h]] =
                              Decided(h, "released", linkOf(h))]
          BY <1>9, <4>1 DEF ReleaseByLinks
        <5>2. /\ Decided(h, "released", linkOf(h)) \in Round
              /\ rounds[h] \in [Rounds -> Round]
          BY <2>3, <4>1 DEF TypeOK
        <5> HIDE DEF linkOf, hps
        <5>3. QED
          BY <5>1, <5>2
      <4>2. CASE h \notin hps
        BY <1>9, <4>2 DEF ReleaseByLinks, TypeOK
      <4>3. QED
        BY <4>1, <4>2
    <3>2. QED
      BY <1>9, <3>1 DEF ReleaseByLinks, RoundsType
  <2>5. LinksType'
    BY <1>9, <2>1 DEF ReleaseByLinks, LinksType, TypeOK
  <2>6. /\ status' \in [HoldPoints -> Statuses]
        /\ completion' \in [HoldPoints -> [status : Results, verified : BOOLEAN]]
    BY <1>9 DEF ReleaseByLinks, TypeOK, Statuses, Results, Verified
  <2>7. QED
    BY <1>9, <2>4, <2>5, <2>6
       DEF ReleaseByLinks, TypeOK, RoundsType, LinksType, processVars
<1>10. ASSUME NEW t \in Links, NEW conds \in SUBSET Conditions,
              ReleaseWithConditions(t, conds)
       PROVE  TypeOK'
  <2> DEFINE h == link[t].hp
  <2>1. h \in HoldPoints /\ Now(h) \in Round
    BY <1>7, <1>10 DEF ReleaseWithConditions
  <2>2. Decided(h, "conditional", t) \in Round
    BY <2>1, DecidedType DEF Settled
  <2>3. [Decided(h, "conditional", t) EXCEPT !.conds = conds] \in Round
    BY <2>2 DEF Round
  <2>4. RoundsType'
    BY <1>10, <2>1, <2>3 DEF ReleaseWithConditions, TypeOK, RoundsType
  <2>5. LinksType'
    BY <1>7, <1>10 DEF ReleaseWithConditions, LinksType
  <2>6. /\ status' \in [HoldPoints -> Statuses]
        /\ completion' \in [HoldPoints -> [status : Results, verified : BOOLEAN]]
    BY <1>10 DEF ReleaseWithConditions, TypeOK, Statuses, Results
  <2>7. QED
    BY <1>10, <2>4, <2>5, <2>6
       DEF ReleaseWithConditions, TypeOK, RoundsType, LinksType, processVars
<1>11. ASSUME NEW t \in Links, ExpireLink(t) PROVE TypeOK'
  BY <1>11 DEF ExpireLink, TypeOK, Link, rowVars, processVars
<1>12. ASSUME NEW t \in Links, PurgeLink(t) PROVE TypeOK'
  BY <1>12, RevokedType DEF PurgeLink, TypeOK, rowVars, processVars
<1>13. ASSUME NEW h \in HoldPoints, NEW r \in Rounds,
              NEW v \in {"open", "closed"},
              rounds' = [rounds EXCEPT ![h][r].ncr = v]
       PROVE  RoundsType'
  <2>1. rounds[h][r] \in Round /\ RoundsType
    BY DEF TypeOK, RoundsType
  <2>2. [rounds[h][r] EXCEPT !.ncr = v] \in Round
    BY <2>1 DEF Round
  <2>3. QED
    BY <1>13, <2>1, <2>2 DEF RoundsType
<1>14. ASSUME NEW h \in HoldPoints, NEW r \in Rounds,
              CloseNcr(h, r) \/ ReopenNcr(h, r)
       PROVE  TypeOK'
  <2>1. RoundsType'
    BY <1>13, <1>14 DEF CloseNcr, ReopenNcr
  <2>2. QED
    BY <1>14, <2>1
       DEF CloseNcr, ReopenNcr, TypeOK, RoundsType, rowVars, processVars
<1>15. ASSUME NEW h \in HoldPoints, NEW result \in Recorded,
              RecordResult(h, result)
       PROVE  TypeOK'
  <2>1. completion \in [HoldPoints -> [status : Results, verified : BOOLEAN]]
        /\ result \in Results
    BY ConstantsAssumption DEF TypeOK, Results
  <2>2. completion' \in [HoldPoints -> [status : Results, verified : BOOLEAN]]
    BY <1>15, <2>1 DEF RecordResult
  <2>3. QED
    BY <1>15, <2>2 DEF RecordResult, TypeOK, rowVars, processVars
<1>16. ASSUME NEW c \in Closers, NEW h \in HoldPoints, NEW x \in Conditions,
              CountOthers(c, h, x)
       PROVE  TypeOK'
  <2>1. [at |-> "counted", hp |-> h, cond |-> {x},
         last |-> OpenConditions(h) = {x}] \in Closing
    BY DEF Closing
  <2>2. closer' \in [Closers -> Closing]
    BY <1>16, <2>1, CloserTyped DEF CountOthers, TypeOK
  <2>3. QED
    BY <1>16, <2>2 DEF CountOthers, TypeOK, rowVars
<1>17. ASSUME NEW c \in Closers, closer' = [closer EXCEPT ![c] = IdleCloser]
       PROVE  closer' \in [Closers -> Closing]
  BY <1>17, CloserTyped DEF TypeOK, IdleCloser, Closing
<1>18. ASSUME NEW c \in Closers, DropCondition(c) PROVE TypeOK'
  BY <1>17, <1>18 DEF DropCondition, TypeOK, rowVars
<1>19. ASSUME NEW c \in Closers, CloseCondition(c) PROVE TypeOK'
  <2> DEFINE h == closer[c].hp
  <2>1. h \in HoldPoints /\ closer[c].cond \in SUBSET Conditions
    BY <1>19 DEF CloseCondition, NamesHoldPoint, TypeOK, Closing
  <2>2. RoundsType'
    <3>1. RoundsType
      BY DEF TypeOK, RoundsType
    <3>2. rounds' = [rounds EXCEPT ![h][current[h]].met = @ \cup closer[c].cond]
      BY <1>19 DEF CloseCondition
    <3> HIDE DEF h
    <3>3. CASE current[h] \in Rounds
      <4> DEFINE v == [rounds[h][current[h]] EXCEPT !.met = @ \cup closer[c].cond]
      <4>1. v \in Round
        <5>1. rounds[h][current[h]] \in Round
          BY <2>1, <3>1, <3>3 DEF RoundsType
        <5>2. QED
          BY <2>1, <5>1 DEF Round
      <4>2. rounds' = [rounds EXCEPT ![h][current[h]] = v]
        BY <3>2
      <4> HIDE DEF v
      <4>3. QED
        BY <2>1, <3>1, <3>3, <4>1, <4>2 DEF RoundsType
    <3>4. CASE current[h] \notin Rounds
      BY <2>1, <3>1, <3>2, <3>4 DEF RoundsType
    <3>5. QED
      BY <3>3, <3>4
  <2>3. completion' \in [HoldPoints -> [status : Results, verified : BOOLEAN]]
    <3>1. completion \in [HoldPoints -> [status : Results, verified : BOOLEAN]]
      BY DEF TypeOK
    <3>2. QED
      BY <1>19, <3>1 DEF CloseCondition
  <2>4. QED
    BY <1>17, <1>19, <2>2, <2>3
       DEF CloseCondition, TypeOK, RoundsType, rowVars
<1>20. ASSUME NEW k \in Mailers, mailer' = [mailer EXCEPT ![k] = IdleMail]
       PROVE  mailer' \in [Mailers -> Mail]
  BY <1>20, MailTyped, IdleIsMail DEF TypeOK
<1>21. ASSUME NEW k \in Mailers,
              NEW at \in {"read", "reserved", "sending", "refund", "linking"}
       PROVE  [mailer[k] EXCEPT !.at = at] \in Mail
  <2>1. mailer[k] \in Mail
    BY DEF TypeOK
  <2>2. QED
    BY <2>1 DEF Mail
<1>22. ASSUME NEW k \in Mailers, NEW h \in HoldPoints, ReadForChase(k, h)
       PROVE  TypeOK'
  <2>1. [at |-> "read", hp |-> h, gen |-> sentAt[h], cooled |-> ~cooling[h],
         fresh |-> NoLinkId] \in Mail
    BY DEF TypeOK, Mail
  <2>2. mailer' \in [Mailers -> Mail]
    BY <1>22, <2>1, MailTyped DEF ReadForChase, TypeOK
  <2>3. QED
    BY <1>22, <2>2 DEF ReadForChase, TypeOK, rowVars
<1>23. ASSUME NEW k \in Mailers, NEW h \in HoldPoints, ReadForQrLink(k, h)
       PROVE  TypeOK'
  <2>1. [IdleMail EXCEPT !.at = "linking", !.hp = h] \in Mail
    BY IdleIsMail DEF Mail
  <2>2. mailer' \in [Mailers -> Mail]
    BY <1>23, <2>1, MailTyped DEF ReadForQrLink, TypeOK
  <2>3. QED
    BY <1>23, <2>2 DEF ReadForQrLink, TypeOK, rowVars
<1>24. ASSUME NEW k \in Mailers, ReserveChase(k) PROVE TypeOK'
  <2>1. mailer' \in [Mailers -> Mail]
    BY <1>21, <1>24, MailTyped DEF ReserveChase, TypeOK
  <2>2. mailer[k].hp \in HoldPoints
    BY <1>24 DEF ReserveChase, NamesHoldPoint
  <2>3. chases' \in [HoldPoints -> 0..MaxChases]
    BY <1>24, <2>2, ConstantsAssumption DEF ReserveChase, Reservable, TypeOK
  <2>4. cooling' \in [HoldPoints -> BOOLEAN]
    BY <1>24 DEF ReserveChase, TypeOK
  <2>5. QED
    BY <1>24, <2>1, <2>3, <2>4 DEF ReserveChase, TypeOK
<1>25. ASSUME NEW k \in Mailers, RefuseChase(k) \/ MailerDies(k) PROVE TypeOK'
  BY <1>20, <1>25 DEF RefuseChase, MailerDies, TypeOK, rowVars
<1>26. ASSUME NEW k \in Mailers, NEW t \in Links,
              mailer[k].at # "idle",
              link' = [link EXCEPT ![t] = Minted(t, mailer[k].hp)]
       PROVE  LinksType'
  <2>1. mailer[k].hp \in HoldPoints
    BY <1>26 DEF NamesHoldPoint
  <2>2. Minted(t, mailer[k].hp) \in Link
    BY <2>1, ConstantsAssumption DEF Minted, Link
  <2>3. QED
    BY <1>26, <2>2 DEF TypeOK, LinksType
<1>27. ASSUME NEW k \in Mailers, MintChaseLink(k) PROVE TypeOK'
  <2>1. PICK t \in Links :
          /\ link' = [link EXCEPT ![t] = Minted(t, mailer[k].hp)]
          /\ mailer' = [mailer EXCEPT ![k].at = "sending", ![k].fresh = t]
    BY <1>27 DEF MintChaseLink, FreeLinks
  <2>2. LinksType'
    BY <1>26, <1>27, <2>1 DEF MintChaseLink
  <2>3. mailer' \in [Mailers -> Mail]
    <3>1. mailer \in [Mailers -> Mail]
      BY DEF TypeOK
    <3>2. mailer[k] \in Mail
      BY <3>1
    <3>3. [mailer[k] EXCEPT !.at = "sending", !.fresh = t] \in Mail
      BY <3>2 DEF Mail
    <3>4. QED
      BY <2>1, <3>1, <3>3
  <2>4. QED
    BY <1>27, <2>2, <2>3 DEF MintChaseLink, TypeOK, LinksType, rowVars
<1>28. ASSUME NEW k \in Mailers, MintQrLink(k) PROVE TypeOK'
  <2>1. LinksType'
    BY <1>26, <1>28 DEF MintQrLink, FreeLinks
  <2>2. QED
    BY <1>20, <1>28, <2>1 DEF MintQrLink, TypeOK, LinksType, rowVars
<1>29. ASSUME NEW k \in Mailers, ChaseDelivered(k) PROVE TypeOK'
  <2>1. LinksType'
    BY <1>29, RevokedType DEF ChaseDelivered, LinksType
  <2>2. reminders' \in [HoldPoints -> [Rounds -> Nat]]
    <3>1. reminders \in [HoldPoints -> [Rounds -> Nat]]
      BY DEF TypeOK
    <3>2. /\ mailer[k].hp \in HoldPoints
          /\ mailer[k].gen \in Rounds
          /\ reminders' = [reminders EXCEPT ![mailer[k].hp][mailer[k].gen] = @ + 1]
      BY <1>29 DEF ChaseDelivered, NamesHoldPoint
    <3>3. QED
      BY <3>1, <3>2
  <2>3. QED
    BY <1>20, <1>29, <2>1, <2>2
       DEF ChaseDelivered, TypeOK, LinksType, rowVars
<1>30. ASSUME NEW k \in Mailers, ChaseFails(k) \/ ChaseSuppressed(k)
       PROVE  TypeOK'
  <2>1. LinksType'
    BY <1>30, RevokedType DEF ChaseFails, ChaseSuppressed, LinksType
  <2>2. mailer' \in [Mailers -> Mail]
    BY <1>20, <1>21, <1>30, MailTyped DEF ChaseFails, ChaseSuppressed, TypeOK
  <2>3. QED
    BY <1>30, <2>1, <2>2
       DEF ChaseFails, ChaseSuppressed, TypeOK, LinksType, rowVars
<1>31. ASSUME NEW k \in Mailers, RefundChase(k) PROVE TypeOK'
  <2>1. chases \in [HoldPoints -> 0..MaxChases]
        /\ cooling \in [HoldPoints -> BOOLEAN]
        /\ mailer[k] \in Mail
    BY DEF TypeOK
  <2>2. mailer[k].hp \in HoldPoints
    BY <1>31 DEF RefundChase, NamesHoldPoint
  <2>3. /\ chases' \in [HoldPoints -> 0..MaxChases]
        /\ cooling' \in [HoldPoints -> BOOLEAN]
    <3> DEFINE h == mailer[k].hp
    <3>1. \/ /\ chases[h] > 0
             /\ chases' = [chases EXCEPT ![h] = @ - 1]
             /\ cooling' = [cooling EXCEPT ![h] = ~mailer[k].cooled]
          \/ chases' = chases /\ cooling' = cooling
      BY <1>31 DEF RefundChase
    <3>2. mailer[k].cooled \in BOOLEAN
      BY <2>1 DEF Mail
    <3> HIDE DEF h
    <3>3. h \in HoldPoints
      BY <2>2 DEF h
    <3>4. chases' \in [HoldPoints -> 0..MaxChases]
      BY <2>1, <3>1, <3>3, ConstantsAssumption
    <3>5. cooling' \in [HoldPoints -> BOOLEAN]
      BY <2>1, <3>1, <3>2, <3>3
    <3>6. QED
      BY <3>4, <3>5
  <2>4. QED
    BY <1>20, <1>31, <2>3 DEF RefundChase, TypeOK
<1>32. CASE DayPasses
  <2>1. mailer \in [Mailers -> Mail]
    BY DEF TypeOK
  <2>2. mailer' \in [Mailers -> Mail]
    BY <1>32, <2>1 DEF DayPasses, Mail
  <2>3. QED
    BY <1>32, <2>2 DEF DayPasses, TypeOK
<1>33. CASE UNCHANGED vars
  BY <1>33 DEF vars, TypeOK, rowVars, processVars
<1>34. CASE RequestStep
  BY <1>1, <1>2, <1>3, <1>34 DEF RequestStep
<1>35. CASE DecisionStep
  BY <1>5, <1>6, <1>8, <1>9, <1>10, <1>11, <1>12, <1>35
     DEF DecisionStep, ReleaseByLink, ReleaseRoom
<1>36. CASE SiteStep
  BY <1>14, <1>15, <1>16, <1>18, <1>19, <1>36 DEF SiteStep
<1>37. CASE MailStep
  BY <1>22, <1>23, <1>24, <1>25, <1>27, <1>28, <1>29, <1>30, <1>31, <1>32, <1>37
     DEF MailStep
<1>38. QED
  BY <1>33, <1>34, <1>35, <1>36, <1>37 DEF Next
-----------------------------------------------------------------------------
(* What a step does to the decisions of one hold point. *)

FutureRoundsBlank ==
    \A h \in HoldPoints, r \in Rounds : r > current[h] => rounds[h][r] = BlankRound

UndecidedByNobody ==
    \A h \in HoldPoints, r \in Rounds :
       rounds[h][r].verdict = "none" => rounds[h][r].by = "nobody"

SameDecision(h, r) ==
    /\ rounds'[h][r].verdict = rounds[h][r].verdict
    /\ rounds'[h][r].withdrawn = rounds[h][r].withdrawn
    /\ rounds'[h][r].by = rounds[h][r].by
    /\ rounds'[h][r].conds = rounds[h][r].conds

Stays(h) ==
    /\ status'[h] = status[h]
    /\ current'[h] = current[h]
    /\ \A r \in Rounds : SameDecision(h, r)
    /\ \A r \in Rounds : r > current[h] => rounds'[h][r] = rounds[h][r]

Outcome(h, new) ==
    \/ /\ new.withdrawn /\ new.verdict = "none" /\ new.by = Now(h).by
       /\ status'[h] = "pending"
    \/ /\ ~new.withdrawn /\ new.verdict = "rejected"
       /\ status'[h] = "pending"
    \/ /\ ~new.withdrawn /\ new.verdict \in {"released", "conditional"}
       /\ status'[h] = "released"

Settles(h) ==
    /\ status[h] = "notified"
    /\ current[h] \in Rounds
    /\ current'[h] = current[h]
    /\ Now(h).verdict = "none" /\ ~Now(h).withdrawn
    /\ \A r \in Rounds \ {current[h]} : rounds'[h][r] = rounds[h][r]
    /\ Outcome(h, rounds'[h][current[h]])

AsksAgain(h) ==
    /\ status'[h] = "notified"
    /\ current'[h] = current[h] + 1
    /\ current'[h] \in Rounds
    /\ \A r \in Rounds \ {current'[h]} : rounds'[h][r] = rounds[h][r]
    /\ rounds'[h][current'[h]].verdict = "none"
    /\ ~rounds'[h][current'[h]].withdrawn
    /\ rounds'[h][current'[h]].by = "nobody"

HoldPointStep == \A h \in HoldPoints : Stays(h) \/ Settles(h) \/ AsksAgain(h)

\* Rows, rounds and the current round untouched.
LEMMA UntouchedStays ==
    ASSUME UNCHANGED <<status, current, rounds>> PROVE HoldPointStep
BY DEF HoldPointStep, Stays, SameDecision

\* A round gets a verdict, or is withdrawn, while it may still be decided.
LEMMA EditSettles ==
    ASSUME TypeOK, StatusFollowsRound, NEW h \in HoldPoints,
           DecisionEligible(h, current[h]),
           NEW new, Outcome(h, new),
           current'[h] = current[h],
           rounds'[h] = [rounds[h] EXCEPT ![current[h]] = new]
    PROVE  Settles(h)
<1>1. /\ current[h] \in Rounds /\ status[h] = "notified"
      /\ Now(h).verdict = "none" /\ ~Now(h).withdrawn
  BY EligibleRound
<1>2. rounds[h] \in [Rounds -> Round]
  BY DEF TypeOK
<1>3. rounds'[h][current[h]] = new
      /\ \A r \in Rounds \ {current[h]} : rounds'[h][r] = rounds[h][r]
  BY <1>1, <1>2
<1>4. QED
  BY <1>1, <1>3 DEF Settles

\* A hold point whose row and rounds are untouched stays as it is.
LEMMA OthersStay ==
    ASSUME NEW h \in HoldPoints, status'[h] = status[h],
           current'[h] = current[h], rounds'[h] = rounds[h]
    PROVE  Stays(h)
BY DEF Stays, SameDecision

\* A decision or withdrawal of one hold point leaves the others alone.
LEMMA OneSettles ==
    ASSUME TypeOK, StatusFollowsRound, NEW h \in HoldPoints,
           DecisionEligible(h, current[h]),
           NEW new, Outcome(h, new), NEW s,
           status' = [status EXCEPT ![h] = s],
           current' = current,
           rounds' = [rounds EXCEPT ![h][current[h]] = new]
    PROVE  HoldPointStep
<1>1. /\ rounds \in [HoldPoints -> [Rounds -> Round]]
      /\ status \in [HoldPoints -> Statuses]
  BY DEF TypeOK
<1>2. rounds'[h] = [rounds[h] EXCEPT ![current[h]] = new]
  BY <1>1
<1>3. Settles(h)
  BY <1>2, EditSettles
<1>4. \A g \in HoldPoints \ {h} : Stays(g)
  BY <1>1, OthersStay
<1>5. QED
  BY <1>3, <1>4 DEF HoldPointStep

\* What any step does to a hold point: nothing to its decision, a decision or a
\* withdrawal of its current round, or a new request.
LEMMA DecisionsStep ==
    ASSUME TypeOK, StatusFollowsRound, NamesHoldPoint, FutureRoundsBlank,
           [Next]_vars
    PROVE  HoldPointStep
<1>0. /\ rounds \in [HoldPoints -> [Rounds -> Round]]
      /\ status \in [HoldPoints -> Statuses]
      /\ current \in [HoldPoints -> 0..MaxRounds]
  BY DEF TypeOK
<1>1. ASSUME NEW q \in Requesters, SaveRequest(q) PROVE HoldPointStep
  <2> DEFINE hps == requester[q].hps
  <2>1. hps \subseteq HoldPoints
    BY DEF TypeOK, Request
  <2>2. ASSUME NEW h \in hps PROVE AsksAgain(h)
    <3> DEFINE new == [BlankRound EXCEPT !.answered = h \in requester[q].answers]
    <3>1. h \in HoldPoints
      BY <2>1
    <3>2. /\ status'[h] = "notified"
          /\ current'[h] = current[h] + 1
          /\ current[h] < MaxRounds
          /\ rounds'[h] = [rounds[h] EXCEPT ![current[h] + 1] = new]
      BY <1>1, <2>2, <3>1 DEF SaveRequest
    <3>3. current'[h] \in Rounds
      BY <1>0, <3>1, <3>2, ConstantsAssumption DEF Rounds
    <3>4. new.verdict = "none" /\ ~new.withdrawn /\ new.by = "nobody"
      BY DEF BlankRound
    <3>5. rounds[h] \in [Rounds -> Round]
      BY <1>0, <3>1
    <3> HIDE DEF new
    <3>6. /\ rounds'[h][current'[h]] = new
          /\ \A r \in Rounds \ {current'[h]} : rounds'[h][r] = rounds[h][r]
      BY <3>2, <3>3, <3>5
    <3>7. QED
      BY <3>2, <3>3, <3>4, <3>6 DEF AsksAgain
  <2>3. ASSUME NEW h \in HoldPoints \ hps PROVE Stays(h)
    BY <1>1, OthersStay DEF SaveRequest
  <2>4. QED
    BY <2>2, <2>3 DEF HoldPointStep
<1>2. ASSUME NEW h \in HoldPoints, WithdrawRequest(h) PROVE HoldPointStep
  <2> DEFINE new == [Now(h) EXCEPT !.withdrawn = TRUE]
  <2>1. DecisionEligible(h, current[h]) /\ Now(h) \in Round
        /\ Now(h).verdict = "none"
    BY <1>2, EligibleRound DEF WithdrawRequest
  <2>2. /\ status' = [status EXCEPT ![h] = "pending"]
        /\ current' = current
        /\ rounds' = [rounds EXCEPT ![h][current[h]] = new]
    BY <1>2 DEF WithdrawRequest, Reopen, Now
  <2>3. Outcome(h, new)
    BY <1>0, <2>1, <2>2 DEF Outcome, Round
  <2> HIDE DEF new
  <2>4. QED
    BY <2>1, <2>2, <2>3, OneSettles
<1>3. ASSUME NEW h \in HoldPoints, ReleaseInApp(h) PROVE HoldPointStep
  <2> DEFINE new == Decided(h, "released", "in_app")
  <2>1. DecisionEligible(h, current[h]) /\ Now(h) \in Round /\ ~Now(h).withdrawn
    BY <1>3, EligibleRound DEF ReleaseInApp
  <2>2. /\ status' = [status EXCEPT ![h] = "released"]
        /\ current' = current
        /\ rounds' = [rounds EXCEPT ![h][current[h]] = new]
    BY <1>3 DEF ReleaseInApp
  <2>3. Outcome(h, new)
    BY <1>0, <2>1, <2>2 DEF Outcome, Round, Decided
  <2> HIDE DEF new
  <2>4. QED
    BY <2>1, <2>2, <2>3, OneSettles
<1>4. ASSUME NEW t \in Links, LinkDecides(t)
      PROVE  /\ link[t].hp \in HoldPoints
             /\ DecisionEligible(link[t].hp, current[link[t].hp])
             /\ Now(link[t].hp) \in Round /\ ~Now(link[t].hp).withdrawn
  <2>1. link[t].hp \in HoldPoints
    BY <1>4 DEF LinkDecides, NamesHoldPoint
  <2>2. QED
    BY <1>4, <2>1, EligibleRound DEF LinkDecides
<1>5. ASSUME NEW t \in Links, RejectByLink(t) PROVE HoldPointStep
  <2> DEFINE h == link[t].hp
             new == [Decided(h, "rejected", t) EXCEPT !.ncr = "open"]
  <2>1. /\ h \in HoldPoints /\ DecisionEligible(h, current[h])
        /\ Now(h) \in Round /\ ~Now(h).withdrawn
    BY <1>4, <1>5 DEF RejectByLink
  <2>2. /\ status' = [status EXCEPT ![h] = "pending"]
        /\ current' = current
        /\ rounds' = [rounds EXCEPT ![h][current[h]] = new]
    BY <1>5 DEF RejectByLink, Reopen
  <2>3. Outcome(h, new)
    BY <1>0, <2>1, <2>2 DEF Outcome, Round, Decided
  <2> HIDE DEF new, h
  <2>4. QED
    BY <2>1, <2>2, <2>3, OneSettles
<1>6. ASSUME NEW t \in Links, NEW conds \in SUBSET Conditions,
             ReleaseWithConditions(t, conds)
      PROVE  HoldPointStep
  <2> DEFINE h == link[t].hp
             new == [Decided(h, "conditional", t) EXCEPT !.conds = conds]
  <2>1. /\ h \in HoldPoints /\ DecisionEligible(h, current[h])
        /\ Now(h) \in Round /\ ~Now(h).withdrawn
    BY <1>4, <1>6 DEF ReleaseWithConditions
  <2>2. /\ status' = [status EXCEPT ![h] = "released"]
        /\ current' = current
        /\ rounds' = [rounds EXCEPT ![h][current[h]] = new]
    BY <1>6 DEF ReleaseWithConditions
  <2>3. Outcome(h, new)
    BY <1>0, <2>1, <2>2 DEF Outcome, Round, Decided
  <2> HIDE DEF new, h
  <2>4. QED
    BY <2>1, <2>2, <2>3, OneSettles
<1>7. ASSUME NEW S \in SUBSET Links, ReleaseByLinks(S) PROVE HoldPointStep
  <2> DEFINE hps == {link[t].hp : t \in S}
             linkOf(h) == CHOOSE t \in S : link[t].hp = h
  <2>1. ASSUME NEW h \in hps
        PROVE  /\ h \in HoldPoints /\ DecisionEligible(h, current[h])
               /\ Now(h) \in Round /\ ~Now(h).withdrawn
    BY <1>4, <1>7 DEF ReleaseByLinks
  <2>2. ASSUME NEW h \in hps PROVE Settles(h)
    <3> DEFINE new == Decided(h, "released", linkOf(h))
    <3>1. /\ status'[h] = "released"
          /\ current'[h] = current[h]
          /\ rounds'[h] = [rounds[h] EXCEPT ![current[h]] = new]
      BY <1>7, <2>1 DEF ReleaseByLinks
    <3>2. Outcome(h, new)
      BY <2>1, <3>1 DEF Outcome, Round, Decided
    <3> HIDE DEF new
    <3>3. QED
      BY <2>1, <3>1, <3>2, EditSettles
  <2>3. ASSUME NEW h \in HoldPoints \ hps PROVE Stays(h)
    BY <1>7, OthersStay DEF ReleaseByLinks
  <2>4. QED
    BY <2>2, <2>3 DEF HoldPointStep
<1>8. ASSUME NEW h \in HoldPoints, NEW r \in Rounds,
             CloseNcr(h, r) \/ ReopenNcr(h, r)
      PROVE  HoldPointStep
  <2>1. PICK v : rounds' = [rounds EXCEPT ![h][r].ncr = v]
    BY <1>8 DEF CloseNcr, ReopenNcr
  <2>2. status' = status /\ current' = current
    BY <1>8 DEF CloseNcr, ReopenNcr, rowVars
  <2>3. ~(r > current[h])
    BY <1>8 DEF FutureRoundsBlank, BlankRound, CloseNcr, ReopenNcr
  <2>4. /\ rounds'[h] = [rounds[h] EXCEPT ![r] = [rounds[h][r] EXCEPT !.ncr = v]]
        /\ \A g \in HoldPoints \ {h} : rounds'[g] = rounds[g]
    BY <1>0, <2>1
  <2>5. /\ rounds'[h][r] = [rounds[h][r] EXCEPT !.ncr = v]
        /\ \A s \in Rounds \ {r} : rounds'[h][s] = rounds[h][s]
    BY <1>0, <2>4
  <2>6. SameDecision(h, r)
    BY <1>0, <2>5 DEF SameDecision, Round
  <2>7. Stays(h)
    BY <2>2, <2>3, <2>5, <2>6 DEF Stays, SameDecision
  <2>8. QED
    BY <2>2, <2>4, <2>7, OthersStay DEF HoldPointStep
<1>9. ASSUME NEW c \in Closers, CloseCondition(c) PROVE HoldPointStep
  <2> DEFINE h == closer[c].hp
             r == current[h]
  <2>1. h \in HoldPoints
    BY <1>9 DEF CloseCondition, NamesHoldPoint
  <2>2. PICK m : rounds' = [rounds EXCEPT ![h][r].met = m]
    BY <1>9 DEF CloseCondition
  <2>3. status' = status /\ current' = current
    BY <1>9 DEF CloseCondition, rowVars
  <2> HIDE DEF h
  <2>4. /\ rounds'[h] = [rounds[h] EXCEPT ![r] = [rounds[h][r] EXCEPT !.met = m]]
        /\ \A g \in HoldPoints \ {h} : rounds'[g] = rounds[g]
    BY <1>0, <2>1, <2>2
  <2>5. \A s \in Rounds \ {r} : rounds'[h][s] = rounds[h][s]
    BY <1>0, <2>1, <2>4
  <2>6. r \in Rounds => SameDecision(h, r)
    <3>1. SUFFICES ASSUME r \in Rounds PROVE SameDecision(h, r)
      OBVIOUS
    <3>2. rounds'[h][r] = [rounds[h][r] EXCEPT !.met = m] /\ rounds[h][r] \in Round
      BY <1>0, <2>1, <2>4, <3>1
    <3>3. QED
      BY <3>2 DEF SameDecision, Round
  <2>7. \A s \in Rounds : SameDecision(h, s)
    BY <2>5, <2>6 DEF SameDecision
  <2>8. \A s \in Rounds : s > current[h] => s # r
    BY <1>0, <2>1, ConstantsAssumption DEF Rounds
  <2>9. Stays(h)
    BY <2>3, <2>5, <2>7, <2>8 DEF Stays
  <2>10. QED
    BY <2>3, <2>4, <2>9, OthersStay DEF HoldPointStep
<1>10. ASSUME NEW k \in Mailers,
              \/ \E h \in HoldPoints : ReadForChase(k, h) \/ ReadForQrLink(k, h)
              \/ ReserveChase(k) \/ RefuseChase(k) \/ MintChaseLink(k)
              \/ ChaseDelivered(k) \/ ChaseFails(k) \/ ChaseSuppressed(k)
              \/ RefundChase(k) \/ MailerDies(k) \/ MintQrLink(k)
       PROVE  HoldPointStep
  BY <1>10, UntouchedStays
     DEF ReadForChase, ReadForQrLink, ReserveChase, RefuseChase, MintChaseLink,
         ChaseDelivered, ChaseFails, ChaseSuppressed, RefundChase, MailerDies,
         MintQrLink, rowVars
<1>11. CASE RequestStep
  BY <1>1, <1>11, UntouchedStays
     DEF RequestStep, CheckRequest, DropRequest, rowVars
<1>12. CASE DecisionStep
  <2>1. ASSUME NEW t \in Links, ExpireLink(t) \/ PurgeLink(t)
        PROVE  HoldPointStep
    BY <2>1, UntouchedStays DEF ExpireLink, PurgeLink, rowVars
  <2>2. QED
    BY <1>2, <1>3, <1>5, <1>6, <1>7, <1>12, <2>1
       DEF DecisionStep, ReleaseByLink, ReleaseRoom
<1>13. CASE SiteStep
  <2>1. ASSUME NEW h \in HoldPoints, NEW result \in Recorded,
               RecordResult(h, result)
        PROVE  HoldPointStep
    BY <2>1, UntouchedStays DEF RecordResult, rowVars
  <2>2. ASSUME NEW c \in Closers,
               \/ \E h \in HoldPoints, x \in Conditions : CountOthers(c, h, x)
               \/ DropCondition(c)
        PROVE  HoldPointStep
    BY <2>2, UntouchedStays DEF CountOthers, DropCondition, rowVars
  <2>3. QED
    BY <1>8, <1>9, <1>13, <2>1, <2>2 DEF SiteStep
<1>14. CASE MailStep
  BY <1>10, <1>14, UntouchedStays DEF MailStep, DayPasses
<1>15. CASE UNCHANGED vars
  BY <1>15, UntouchedStays DEF vars, rowVars
<1>16. QED
  BY <1>11, <1>12, <1>13, <1>14, <1>15 DEF Next
-----------------------------------------------------------------------------
(* What follows for the decisions. *)

RoundsInv == StatusFollowsRound /\ FutureRoundsBlank /\ UndecidedByNobody

\* Such a step keeps the status column and the current round in agreement.
LEMMA StatusStep ==
    ASSUME TypeOK, TypeOK', RoundsInv, HoldPointStep
    PROVE  StatusFollowsRound'
<1>1. /\ current \in [HoldPoints -> 0..MaxRounds]
      /\ current' \in [HoldPoints -> 0..MaxRounds]
  BY DEF TypeOK
<1> SUFFICES ASSUME NEW h \in HoldPoints
             PROVE  /\ status'[h] = "absent" <=> current'[h] = 0
                    /\ status'[h] = "notified" =>
                         Now(h)'.verdict = "none" /\ ~Now(h)'.withdrawn
                    /\ status'[h] = "pending" =>
                         Now(h)'.verdict = "rejected" \/ Now(h)'.withdrawn
                    /\ status'[h] = "released" =>
                         /\ Now(h)'.verdict \in {"released", "conditional"}
                         /\ ~Now(h)'.withdrawn
  BY DEF StatusFollowsRound
<1>2. Now(h)' = rounds'[h][current'[h]]
  BY DEF Now
<1>3. CASE Stays(h)
  <2>1. CASE current[h] = 0
    BY <1>3, <2>1 DEF Stays, RoundsInv, StatusFollowsRound
  <2>2. CASE current[h] # 0
    <3>1. current[h] \in Rounds
      BY <1>1, <2>2, ConstantsAssumption DEF Rounds
    <3>2. SameDecision(h, current[h]) /\ current'[h] = current[h]
      BY <1>3, <3>1 DEF Stays
    <3>3. Now(h)'.verdict = Now(h).verdict /\ Now(h)'.withdrawn = Now(h).withdrawn
      BY <1>2, <3>2 DEF SameDecision, Now
    <3>4. QED
      BY <1>3, <3>2, <3>3 DEF Stays, RoundsInv, StatusFollowsRound
  <2>3. QED
    BY <2>1, <2>2
<1>4. CASE Settles(h)
  <2>1. current'[h] # 0
    BY <1>4, ConstantsAssumption DEF Settles, Rounds
  <2>2. Outcome(h, Now(h)')
    BY <1>2, <1>4 DEF Settles
  <2>3. QED
    BY <2>1, <2>2 DEF Outcome
<1>5. CASE AsksAgain(h)
  <2>1. current'[h] # 0
    BY <1>5, ConstantsAssumption DEF AsksAgain, Rounds
  <2>2. QED
    BY <1>2, <1>5, <2>1 DEF AsksAgain
<1>6. QED
  BY <1>3, <1>4, <1>5 DEF HoldPointStep

\* Such a step leaves the rounds beyond the current one blank.
LEMMA FutureStep ==
    ASSUME TypeOK, RoundsInv, HoldPointStep
    PROVE  FutureRoundsBlank'
<1>1. current \in [HoldPoints -> 0..MaxRounds]
  BY DEF TypeOK
<1> SUFFICES ASSUME NEW h \in HoldPoints, NEW r \in Rounds, r > current'[h]
             PROVE  rounds'[h][r] = BlankRound
  BY DEF FutureRoundsBlank
<1>2. r > current[h] /\ rounds'[h][r] = rounds[h][r]
  <2>1. CASE Stays(h)
    BY <2>1 DEF Stays
  <2>2. CASE Settles(h)
    BY <1>1, <2>2, ConstantsAssumption DEF Settles, Rounds
  <2>3. CASE AsksAgain(h)
    BY <1>1, <2>3, ConstantsAssumption DEF AsksAgain, Rounds
  <2>4. QED
    BY <2>1, <2>2, <2>3 DEF HoldPointStep
<1>3. QED
  BY <1>2 DEF RoundsInv, FutureRoundsBlank

\* Such a step gives an author to the rounds it decides and to no other.
LEMMA NobodyStep ==
    ASSUME TypeOK, RoundsInv, HoldPointStep
    PROVE  UndecidedByNobody'
<1> SUFFICES ASSUME NEW h \in HoldPoints, NEW r \in Rounds,
                    rounds'[h][r].verdict = "none"
             PROVE  rounds'[h][r].by = "nobody"
  BY DEF UndecidedByNobody
<1>1. CASE Stays(h)
  BY <1>1 DEF Stays, SameDecision, RoundsInv, UndecidedByNobody
<1>2. CASE Settles(h)
  <2>1. CASE r = current[h]
    BY <1>2, <2>1
       DEF Settles, Outcome, RoundsInv, UndecidedByNobody, Now
  <2>2. CASE r # current[h]
    BY <1>2, <2>2 DEF Settles, RoundsInv, UndecidedByNobody
  <2>3. QED
    BY <2>1, <2>2
<1>3. CASE AsksAgain(h)
  BY <1>3 DEF AsksAgain, RoundsInv, UndecidedByNobody
<1>4. QED
  BY <1>1, <1>2, <1>3 DEF HoldPointStep

\* Such a step leaves a settled or superseded round as it was.
LEMMA SettledStays ==
    ASSUME TypeOK, RoundsInv, HoldPointStep, NEW h \in HoldPoints, NEW r \in Rounds,
           \/ rounds[h][r].verdict # "none"
           \/ rounds[h][r].withdrawn
           \/ r < current[h]
    PROVE  SameDecision(h, r)
<1>1. CASE Stays(h)
  BY <1>1 DEF Stays
<1>2. CASE Settles(h)
  <2>1. r # current[h]
    BY <1>2, ConstantsAssumption DEF Settles, Now, Rounds
  <2>2. QED
    BY <1>2, <2>1 DEF Settles, SameDecision
<1>3. CASE AsksAgain(h)
  <2>1. current \in [HoldPoints -> 0..MaxRounds]
    BY DEF TypeOK
  <2>2. r # current'[h]
    <3>1. SUFFICES ASSUME r = current[h] + 1 PROVE FALSE
      BY <1>3 DEF AsksAgain
    <3>2. r > current[h] /\ ~(r < current[h])
      BY <2>1, <3>1
    <3>3. rounds[h][r] = BlankRound
      BY <3>2 DEF RoundsInv, FutureRoundsBlank
    <3>4. QED
      BY <3>2, <3>3 DEF BlankRound
  <2>3. QED
    BY <1>3, <2>2 DEF AsksAgain, SameDecision
<1>4. QED
  BY <1>1, <1>2, <1>3 DEF HoldPointStep

-----------------------------------------------------------------------------
(* Handlers and links name a hold point. *)

LinksNamed == \A t \in Links : link[t].state # "none" => link[t].hp \in HoldPoints
MailersNamed == \A k \in Mailers :
                  /\ mailer[k].at # "idle" => mailer[k].hp \in HoldPoints
                  /\ mailer[k].at \in {"reserved", "sending", "refund"} =>
                       mailer[k].gen \in Rounds
ClosersNamed == \A c \in Closers :
                  closer[c].at # "idle" => closer[c].hp \in HoldPoints

\* Every action keeps links and busy handlers attached to a hold point.
LEMMA NamesStep ==
    ASSUME TypeOK, StatusFollowsRound, NamesHoldPoint, [Next]_vars
    PROVE  NamesHoldPoint'
<1>0. /\ link \in [Links -> Link]
      /\ mailer \in [Mailers -> Mail]
      /\ closer \in [Closers -> Closing]
      /\ sentAt \in [HoldPoints -> 0..MaxRounds]
      /\ LinksNamed /\ MailersNamed /\ ClosersNamed
  BY DEF TypeOK, NamesHoldPoint, LinksNamed, MailersNamed, ClosersNamed
<1>a. ASSUME NEW S, link' = Revoked(S) PROVE LinksNamed'
  BY <1>0, <1>a DEF Revoked, NoLink, LinksNamed
<1>b. ASSUME NEW S \in SUBSET Links,
             link' = [t \in Links |-> IF t \in S THEN Spent(t) ELSE link[t]],
             \A t \in S : LinkDecides(t)
      PROVE  LinksNamed'
  BY <1>0, <1>b DEF Spent, LinkDecides, LinksNamed, Link
<1>c. ASSUME NEW t \in Links, link' = [link EXCEPT ![t] = Spent(t)], LinkDecides(t)
      PROVE  LinksNamed'
  BY <1>0, <1>c DEF Spent, LinkDecides, LinksNamed, Link
<1>d. ASSUME NEW t \in Links, NEW h \in HoldPoints,
             link' = [link EXCEPT ![t] = Minted(t, h)]
      PROVE  LinksNamed'
  BY <1>0, <1>d DEF Minted, LinksNamed
<1>e. ASSUME NEW k \in Mailers, mailer' = [mailer EXCEPT ![k] = IdleMail]
      PROVE  MailersNamed'
  BY <1>0, <1>e DEF IdleMail, MailersNamed
<1>m. ASSUME NEW k \in Mailers, NEW m \in Mail, mailer' = [mailer EXCEPT ![k] = m],
             m.hp \in HoldPoints,
             m.at \in {"reserved", "sending", "refund"} => m.gen \in Rounds
      PROVE  MailersNamed'
  BY <1>0, <1>m DEF MailersNamed
<1>f. ASSUME NEW c \in Closers, closer' = [closer EXCEPT ![c] = IdleCloser]
      PROVE  ClosersNamed'
  BY <1>0, <1>f DEF IdleCloser, ClosersNamed
<1>g. UNCHANGED link => LinksNamed'
  BY <1>0 DEF LinksNamed
<1>h. UNCHANGED mailer => MailersNamed'
  BY <1>0 DEF MailersNamed
<1>i. UNCHANGED closer => ClosersNamed'
  BY <1>0 DEF ClosersNamed
<1>j. LinksNamed' /\ MailersNamed' /\ ClosersNamed' => NamesHoldPoint'
  BY DEF NamesHoldPoint, LinksNamed, MailersNamed, ClosersNamed
<1>1. ASSUME NEW q \in Requesters, SaveRequest(q) PROVE NamesHoldPoint'
  <2> DEFINE hps == requester[q].hps
             room == IF requester[q].batch THEN rooms + 1 ELSE 0
  <2>1. hps \subseteq HoldPoints
    BY DEF TypeOK, Request
  <2>2. PICK new \in [hps -> FreeLinks] : link' = Reissued(hps, new, room)
    BY <1>1 DEF SaveRequest
  <2> HIDE DEF hps, room
  <2>3. LinksNamed'
    <3>1. ASSUME NEW t \in Links, NEW h \in hps, new[h] = t
          PROVE  link'[t].hp \in HoldPoints
      <4> DEFINE g == CHOOSE x \in hps : new[x] = t
      <4>1. g \in hps
        BY <3>1
      <4>2. link'[t] = [state |-> "live", hp |-> g, round |-> current[g] + 1,
                        room |-> room]
        BY <2>2, <3>1 DEF Reissued
      <4> HIDE DEF g
      <4>3. QED
        BY <2>1, <4>1, <4>2
    <3>2. ASSUME NEW t \in Links, \A h \in hps : new[h] # t,
                 link'[t].state # "none"
          PROVE  link'[t].hp \in HoldPoints
      BY <1>0, <2>2, <3>2 DEF Reissued, NoLink, LinksNamed
    <3>3. QED
      BY <3>1, <3>2 DEF LinksNamed
  <2>4. QED
    BY <1>1, <1>h, <1>i, <1>j, <2>3 DEF SaveRequest
<1>2. CASE RequestStep
  BY <1>1, <1>2, <1>g, <1>h, <1>i, <1>j DEF RequestStep, CheckRequest, DropRequest
<1>3. CASE DecisionStep
  <2>1. MailersNamed' /\ ClosersNamed'
    BY <1>3, <1>h, <1>i
       DEF DecisionStep, WithdrawRequest, ReleaseInApp, RejectByLink,
           ReleaseByLink, ReleaseWithConditions, ExpireLink, PurgeLink,
           ReleaseRoom, ReleaseByLinks, processVars
  <2>2. ASSUME NEW t \in Links, ExpireLink(t) PROVE LinksNamed'
    BY <1>0, <2>2 DEF ExpireLink, LinksNamed, Link
  <2>3. ASSUME NEW S \in SUBSET Links, ReleaseByLinks(S) PROVE LinksNamed'
    BY <1>b, <2>3 DEF ReleaseByLinks
  <2>4. ASSUME NEW t \in Links,
               \/ RejectByLink(t)
               \/ \E conds \in SUBSET Conditions : ReleaseWithConditions(t, conds)
        PROVE  LinksNamed'
    BY <1>c, <2>4 DEF RejectByLink, ReleaseWithConditions
  <2>5. LinksNamed'
    BY <1>3, <1>a, <1>g, <2>2, <2>3, <2>4
       DEF DecisionStep, WithdrawRequest, ReleaseInApp, PurgeLink, ReleaseByLink,
           ReleaseRoom
  <2>6. QED
    BY <1>j, <2>1, <2>5
<1>4. CASE SiteStep
  <2>1. LinksNamed' /\ MailersNamed'
    BY <1>4, <1>g, <1>h
       DEF SiteStep, CloseNcr, ReopenNcr, RecordResult, CountOthers,
           DropCondition, CloseCondition, processVars
  <2>2. ASSUME NEW c \in Closers, NEW h \in HoldPoints, NEW x \in Conditions,
               CountOthers(c, h, x)
        PROVE  ClosersNamed'
    BY <1>0, <2>2 DEF CountOthers, ClosersNamed
  <2>3. ClosersNamed'
    BY <1>4, <1>f, <1>i, <2>2
       DEF SiteStep, CloseNcr, ReopenNcr, RecordResult, DropCondition,
           CloseCondition, processVars
  <2>4. QED
    BY <1>j, <2>1, <2>3
<1>5. ASSUME NEW k \in Mailers, NEW h \in HoldPoints, ReadForChase(k, h)
      PROVE  NamesHoldPoint'
  <2> DEFINE m == [at |-> "read", hp |-> h, gen |-> sentAt[h],
                   cooled |-> ~cooling[h], fresh |-> NoLinkId]
  <2>1. mailer' = [mailer EXCEPT ![k] = m]
    BY <1>5 DEF ReadForChase
  <2>6. sentAt[h] \in 0..MaxRounds /\ (~cooling[h]) \in BOOLEAN
    BY <1>0
  <2>2. m \in Mail
    BY <2>6 DEF Mail
  <2>3. m.hp \in HoldPoints /\ m.at = "read"
    OBVIOUS
  <2> HIDE DEF m
  <2>4. MailersNamed'
    BY <1>m, <2>1, <2>2, <2>3
  <2>5. QED
    BY <1>5, <1>g, <1>i, <1>j, <2>4 DEF ReadForChase
<1>15. ASSUME NEW k \in Mailers, NEW h \in HoldPoints, ReadForQrLink(k, h)
      PROVE  NamesHoldPoint'
  <2> DEFINE m == [IdleMail EXCEPT !.at = "linking", !.hp = h]
  <2>1. mailer' = [mailer EXCEPT ![k] = m]
    BY <1>15 DEF ReadForQrLink
  <2>2. m \in Mail /\ m.hp \in HoldPoints /\ m.at = "linking"
    BY IdleIsMail DEF Mail
  <2> HIDE DEF m
  <2>3. MailersNamed'
    BY <1>m, <2>1, <2>2
  <2>4. QED
    BY <1>15, <1>g, <1>i, <1>j, <2>3 DEF ReadForQrLink
<1>6. ASSUME NEW k \in Mailers, ReserveChase(k) PROVE NamesHoldPoint'
  <2> DEFINE m == [mailer[k] EXCEPT !.at = "reserved"]
  <2>1. mailer' = [mailer EXCEPT ![k] = m] /\ mailer[k] \in Mail
    BY <1>0, <1>6 DEF ReserveChase
  <2>2. mailer[k].gen \in Rounds /\ mailer[k].hp \in HoldPoints
    BY <1>0, <1>6, <2>1, ConstantsAssumption
       DEF ReserveChase, Reservable, Mail, Rounds, MailersNamed
  <2>3. m \in Mail /\ m.hp \in HoldPoints /\ m.gen \in Rounds
    BY <2>1, <2>2 DEF Mail
  <2> HIDE DEF m
  <2>4. MailersNamed'
    BY <1>m, <2>1, <2>3
  <2>5. QED
    BY <1>6, <1>g, <1>i, <1>j, <2>4 DEF ReserveChase
<1>7. ASSUME NEW k \in Mailers, MintChaseLink(k) PROVE NamesHoldPoint'
  <2>1. PICK t \in Links :
          /\ link' = [link EXCEPT ![t] = Minted(t, mailer[k].hp)]
          /\ mailer' = [mailer EXCEPT ![k].at = "sending", ![k].fresh = t]
    BY <1>7 DEF MintChaseLink, FreeLinks
  <2>2. mailer[k].hp \in HoldPoints /\ mailer[k].gen \in Rounds
    BY <1>0, <1>7 DEF MintChaseLink, MailersNamed
  <2> DEFINE m == [mailer[k] EXCEPT !.at = "sending", !.fresh = t]
  <2>5. mailer' = [mailer EXCEPT ![k] = m] /\ mailer[k] \in Mail
    BY <1>0, <2>1
  <2>6. m \in Mail /\ m.hp \in HoldPoints /\ m.gen \in Rounds
    BY <2>2, <2>5 DEF Mail
  <2> HIDE DEF m
  <2>3. MailersNamed'
    BY <1>m, <2>5, <2>6
  <2>4. QED
    BY <1>7, <1>d, <1>i, <1>j, <2>1, <2>2, <2>3 DEF MintChaseLink
<1>8. ASSUME NEW k \in Mailers, MintQrLink(k) PROVE NamesHoldPoint'
  <2>1. PICK t \in Links : link' = [link EXCEPT ![t] = Minted(t, mailer[k].hp)]
    BY <1>8 DEF MintQrLink, FreeLinks
  <2>2. mailer[k].hp \in HoldPoints
    BY <1>0, <1>8 DEF MintQrLink, MailersNamed
  <2>3. QED
    BY <1>8, <1>d, <1>e, <1>i, <1>j, <2>1, <2>2 DEF MintQrLink
<1>9. ASSUME NEW k \in Mailers, ChaseFails(k) PROVE NamesHoldPoint'
  <2>1. /\ mailer' = [mailer EXCEPT ![k].at = "refund"]
        /\ mailer[k].at \in {"reserved", "sending"}
    BY <1>9 DEF ChaseFails
  <2>2. mailer[k].hp \in HoldPoints /\ mailer[k].gen \in Rounds
    BY <1>0, <2>1 DEF MailersNamed
  <2> DEFINE m == [mailer[k] EXCEPT !.at = "refund"]
  <2>5. mailer' = [mailer EXCEPT ![k] = m] /\ mailer[k] \in Mail
    BY <1>0, <2>1
  <2>6. m \in Mail /\ m.hp \in HoldPoints /\ m.gen \in Rounds
    BY <2>2, <2>5 DEF Mail
  <2> HIDE DEF m
  <2>3. MailersNamed'
    BY <1>m, <2>5, <2>6
  <2>4. QED
    BY <1>9, <1>a, <1>i, <1>j, <2>3 DEF ChaseFails
<1>10. CASE DayPasses
  <2>1. MailersNamed'
    BY <1>0, <1>10 DEF DayPasses, MailersNamed, Mail
  <2>2. QED
    BY <1>10, <1>g, <1>i, <1>j, <2>1 DEF DayPasses
<1>11. ASSUME NEW k \in Mailers,
              \/ RefuseChase(k) \/ ChaseDelivered(k) \/ ChaseSuppressed(k)
              \/ RefundChase(k) \/ MailerDies(k)
       PROVE  NamesHoldPoint'
  BY <1>11, <1>a, <1>e, <1>g, <1>i, <1>j
     DEF RefuseChase, ChaseDelivered, ChaseSuppressed, RefundChase, MailerDies
<1>12. CASE MailStep
  BY <1>5, <1>6, <1>7, <1>8, <1>9, <1>10, <1>11, <1>12, <1>15 DEF MailStep
<1>13. CASE UNCHANGED vars
  BY <1>13, <1>g, <1>h, <1>i, <1>j DEF vars, processVars
<1>14. QED
  BY <1>2, <1>3, <1>4, <1>12, <1>13 DEF Next

-----------------------------------------------------------------------------
(* The inductive invariant and what follows from it. *)

Inv == TypeOK /\ NamesHoldPoint /\ RoundsInv

\* Initially every hold point is absent and every round blank.
LEMMA InvInitial == Init => Inv
<1>1. SUFFICES ASSUME Init PROVE Inv
  OBVIOUS
<1>2. TypeOK
  BY <1>1, TypeInitial
<1>3. NamesHoldPoint
  BY <1>1 DEF Init, NamesHoldPoint, NoLink, IdleMail, IdleCloser
<1>4. StatusFollowsRound
  BY <1>1 DEF Init, StatusFollowsRound
<1>5. FutureRoundsBlank
  BY <1>1 DEF Init, FutureRoundsBlank
<1>6. UndecidedByNobody
  BY <1>1 DEF Init, UndecidedByNobody, BlankRound
<1>7. QED
  BY <1>2, <1>3, <1>4, <1>5, <1>6 DEF Inv, RoundsInv

\* The invariant is inductive.
LEMMA InvStep == Inv /\ [Next]_vars => Inv'
<1>1. SUFFICES ASSUME Inv, [Next]_vars PROVE Inv'
  OBVIOUS
<1>2. TypeOK /\ NamesHoldPoint /\ RoundsInv /\ StatusFollowsRound /\ FutureRoundsBlank
  BY <1>1 DEF Inv, RoundsInv
<1>3. TypeOK'
  BY <1>1, <1>2, TypeStep
<1>4. NamesHoldPoint'
  BY <1>1, <1>2, NamesStep
<1>5. HoldPointStep
  BY <1>1, <1>2, DecisionsStep
<1>6. StatusFollowsRound' /\ FutureRoundsBlank' /\ UndecidedByNobody'
  BY <1>2, <1>3, <1>5, StatusStep, FutureStep, NobodyStep
<1>7. QED
  BY <1>3, <1>4, <1>6 DEF Inv, RoundsInv

\* The inductive invariant behind the theorems holds in every reachable state.
LEMMA InvAlways == Spec => []Inv
BY InvInitial, InvStep, PTL DEF Spec

\* Every row, link and handler keeps its type whatever interleaving of requests,
\* decisions, closings and reminders the routes go through.
THEOREM TypeCorrect == Spec => []TypeOK
<1>1. Inv => TypeOK
  BY DEF Inv
<1>2. QED
  BY <1>1, InvAlways, PTL

\* The status column of hold_points and the decision round it points at agree in
\* every reachable state: the register shows "notified" exactly while the round
\* can be decided, "released" exactly when the round released the hold point.
THEOREM StatusAgrees == Spec => []StatusFollowsRound
<1>1. Inv => StatusFollowsRound
  BY DEF Inv, RoundsInv
<1>2. QED
  BY <1>1, InvAlways, PTL

\* recordDecision settles a round once: no link, in-application release,
\* withdrawal or later request changes a decided, withdrawn or superseded round.
THEOREM RoundsSettled == Spec => RoundsSettleOnce
<1>1. ASSUME Inv, [Next]_vars,
             NEW h \in HoldPoints, NEW r \in Rounds,
             \/ rounds[h][r].verdict # "none"
             \/ rounds[h][r].withdrawn
             \/ r < current[h]
      PROVE  /\ rounds[h][r].verdict = rounds'[h][r].verdict
             /\ rounds[h][r].by = rounds'[h][r].by
             /\ rounds[h][r].withdrawn = rounds'[h][r].withdrawn
             /\ rounds[h][r].conds = rounds'[h][r].conds
  <2>1. TypeOK /\ NamesHoldPoint /\ RoundsInv /\ StatusFollowsRound /\ FutureRoundsBlank
    BY <1>1 DEF Inv, RoundsInv
  <2>2. HoldPointStep
    BY <1>1, <2>1, DecisionsStep
  <2>3. SameDecision(h, r)
    BY <1>1, <2>1, <2>2, SettledStays
  <2>4. QED
    BY <2>3 DEF SameDecision
<1>2. Inv /\ [Next]_vars =>
        [\A h \in HoldPoints, r \in Rounds :
           \/ rounds[h][r].verdict # "none"
           \/ rounds[h][r].withdrawn
           \/ r < current[h]
           => /\ rounds[h][r].verdict = rounds'[h][r].verdict
              /\ rounds[h][r].by = rounds'[h][r].by
              /\ rounds[h][r].withdrawn = rounds'[h][r].withdrawn
              /\ rounds[h][r].conds = rounds'[h][r].conds]_vars
  BY <1>1
<1>3. QED
  BY <1>2, InvAlways, PTL DEF Spec, RoundsSettleOnce

-----------------------------------------------------------------------------
(* Secure links: a link decides one round, and no link outlives its request. *)

\* What any step does to links and authors: the links of S decide, no other
\* link is spent or rewritten after use, and no other round gains a link as
\* its author or loses its author.
LinkStep(S) ==
    /\ S \subseteq Links
    /\ \A t \in S : /\ LinkDecides(t)
                    /\ link'[t] = Spent(t)
                    /\ rounds'[link[t].hp][current[link[t].hp]].by = t
    /\ \A t \in Links \ S : \/ link'[t] = link[t]
                            \/ link[t].state # "used" /\ link'[t].state # "used"
    /\ \A h \in HoldPoints, r \in Rounds :
         \/ \E t \in S : link[t].hp = h /\ r = current[h]
         \/ rounds'[h][r].by = rounds[h][r].by
         \/ rounds[h][r].by = "nobody" /\ rounds'[h][r].by \notin Links

Bound(t) == Unused(t) /\ link[t].round # 0

\* The round of an unused link is untouched, or the link is new and so is it.
BoundStep ==
    \A t \in Links : Bound(t)' =>
       LET h == link'[t].hp
       IN  \/ /\ Bound(t) /\ link[t].hp = h /\ link[t].round = link'[t].round
              /\ current'[h] = current[h]
              /\ rounds'[h][current[h]].withdrawn = rounds[h][current[h]].withdrawn
           \/ link'[t].round = current'[h] /\ ~rounds'[h][current'[h]].withdrawn

\* Such a step keeps links and authors matched.
LEMMA LinkStepKeeps ==
    ASSUME TypeOK, NamesHoldPoint, RoundsInv, LinkDecidesOnce, NEW S, LinkStep(S)
    PROVE  LinkDecidesOnce'
<1>1. ASSUME NEW t \in S
      PROVE  /\ t \in Links /\ link[t].hp \in HoldPoints
             /\ link[t].state = "live"
             /\ link'[t].state = "used" /\ link'[t].hp = link[t].hp
             /\ link'[t].round = current[link[t].hp]
             /\ current[link[t].hp] \in Rounds
  <2>1. t \in Links /\ LinkDecides(t) /\ link'[t] = Spent(t) /\ link[t] \in Link
    BY <1>1 DEF LinkStep, TypeOK
  <2>2. link[t].hp \in HoldPoints /\ link[t].state = "live"
    BY <2>1 DEF NamesHoldPoint, LinkDecides
  <2>3. BoundRound(t) = current[link[t].hp] /\ current[link[t].hp] \in Rounds
    BY <2>1, <2>2, EligibleRound DEF LinkDecides, RoundsInv
  <2>4. QED
    BY <2>1, <2>2, <2>3 DEF Spent, Link
<1>2. ASSUME NEW t \in Links, link'[t].state = "used"
      PROVE  /\ link'[t].round # 0
             /\ rounds'[link'[t].hp][link'[t].round].by = t
  <2>1. CASE t \in S
    <3>1. current[link[t].hp] # 0
      BY <1>1, <2>1, ConstantsAssumption DEF Rounds
    <3>2. rounds'[link[t].hp][current[link[t].hp]].by = t
      BY <2>1 DEF LinkStep
    <3>3. QED
      BY <1>1, <2>1, <3>1, <3>2
  <2>2. CASE t \notin S
    <3>1. link'[t] = link[t] /\ link[t].state = "used"
      BY <1>2, <2>2 DEF LinkStep
    <3>2. link[t].hp \in HoldPoints /\ link[t].round # 0
          /\ rounds[link[t].hp][link[t].round].by = t
      BY <3>1 DEF LinkDecidesOnce, NamesHoldPoint
    <3>3. link[t].round \in Rounds
      BY <3>2, ConstantsAssumption DEF TypeOK, Link, Rounds
    <3>4. rounds'[link[t].hp][link[t].round].by = t
      <4>1. ASSUME NEW s \in S, link[s].hp = link[t].hp,
                   link[t].round = current[link[t].hp]
            PROVE  FALSE
        <5>1. DecisionEligible(link[s].hp, BoundRound(s)) /\ s \in Links
          BY <4>1 DEF LinkStep, LinkDecides
        <5>2. Now(link[s].hp).verdict = "none"
          BY <1>1, <4>1, <5>1, EligibleRound DEF RoundsInv
        <5>3. Now(link[s].hp).by = "nobody"
          BY <1>1, <4>1, <5>2 DEF RoundsInv, UndecidedByNobody, Now
        <5>4. QED
          BY <3>2, <4>1, <5>3, ConstantsAssumption DEF Now
      <4>2. QED
        BY <3>2, <3>3, <4>1, ConstantsAssumption DEF LinkStep
    <3>5. QED
      BY <3>1, <3>2, <3>4
  <2>3. QED
    BY <2>1, <2>2
<1>3. ASSUME NEW h \in HoldPoints, NEW r \in Rounds, rounds'[h][r].by \in Links
      PROVE  LET t == rounds'[h][r].by
             IN  link'[t].state = "used" /\ link'[t].hp = h /\ link'[t].round = r
  <2>1. CASE \E s \in S : link[s].hp = h /\ r = current[h]
    <3>1. PICK s \in S : link[s].hp = h /\ r = current[h]
      BY <2>1
    <3>2. rounds'[h][r].by = s
      BY <3>1 DEF LinkStep
    <3>3. QED
      BY <1>1, <3>1, <3>2
  <2>2. CASE ~ \E s \in S : link[s].hp = h /\ r = current[h]
    <3> DEFINE t == rounds[h][r].by
    <3>1. rounds'[h][r].by = t /\ t \in Links
      BY <1>3, <2>2 DEF LinkStep
    <3>2. link[t].state = "used" /\ link[t].hp = h /\ link[t].round = r
      BY <3>1 DEF LinkDecidesOnce
    <3>3. t \notin S
      BY <1>1, <3>2
    <3> HIDE DEF t
    <3>4. link'[t] = link[t]
      BY <3>1, <3>2, <3>3 DEF LinkStep
    <3>5. QED
      BY <3>1, <3>2, <3>4
  <2>3. QED
    BY <2>1, <2>2
<1>4. QED
  BY <1>2, <1>3 DEF LinkDecidesOnce

\* Such a step keeps unused links on the current round.
LEMMA BoundStepKeeps ==
    ASSUME BoundLinksAreCurrent, BoundStep PROVE BoundLinksAreCurrent'
<1> SUFFICES ASSUME NEW t \in Links, Bound(t)'
             PROVE  /\ link'[t].round = current'[link'[t].hp]
                    /\ ~rounds'[link'[t].hp][current'[link'[t].hp]].withdrawn
  BY DEF BoundLinksAreCurrent, Bound, Now
<1>1. CASE link'[t].round = current'[link'[t].hp]
           /\ ~rounds'[link'[t].hp][current'[link'[t].hp]].withdrawn
  BY <1>1
<1>2. CASE /\ Bound(t) /\ link[t].hp = link'[t].hp
           /\ link[t].round = link'[t].round
           /\ current'[link[t].hp] = current[link[t].hp]
           /\ rounds'[link[t].hp][current[link[t].hp]].withdrawn
                = rounds[link[t].hp][current[link[t].hp]].withdrawn
  BY <1>2 DEF BoundLinksAreCurrent, Bound, Now
<1>3. QED
  BY <1>1, <1>2 DEF BoundStep

-----------------------------------------------------------------------------
(* What each action does to links and authors. *)

\* No round changes hands, and current and withdrawn stay.
RoundsQuiet ==
    /\ current' = current
    /\ \A h \in HoldPoints, r \in Rounds :
         /\ rounds'[h][r].by = rounds[h][r].by
         /\ rounds'[h][r].withdrawn = rounds[h][r].withdrawn

\* A link expires, is deleted or is minted without a round.
LinkQuiet(t) ==
    \/ link'[t] = link[t]
    \/ /\ link[t].state # "used" /\ link'[t].state # "used"
       /\ \/ ~Bound(t)'
          \/ Bound(t) /\ link'[t].hp = link[t].hp /\ link'[t].round = link[t].round

\* A step that decides nothing and hands out no link with a round.
LEMMA QuietSteps ==
    ASSUME TypeOK, NamesHoldPoint, BoundLinksAreCurrent, RoundsQuiet,
           \A t \in Links : LinkQuiet(t)
    PROVE  LinkStep({}) /\ BoundStep
<1>1. LinkStep({})
  BY DEF LinkStep, RoundsQuiet, LinkQuiet
<1>2. ASSUME NEW t \in Links, Bound(t)'
      PROVE  /\ Bound(t) /\ link[t].hp = link'[t].hp
             /\ link[t].round = link'[t].round
             /\ current'[link[t].hp] = current[link[t].hp]
             /\ rounds'[link[t].hp][current[link[t].hp]].withdrawn
                  = rounds[link[t].hp][current[link[t].hp]].withdrawn
  <2>1. Bound(t) /\ link[t].hp = link'[t].hp /\ link[t].round = link'[t].round
    BY <1>2 DEF LinkQuiet, Bound, Unused
  <2>2. link[t].hp \in HoldPoints /\ current[link[t].hp] \in Rounds
    <3>1. link[t].hp \in HoldPoints
      BY <2>1 DEF NamesHoldPoint, Bound, Unused
    <3>2. current[link[t].hp] # 0 /\ current[link[t].hp] \in 0..MaxRounds
      BY <2>1, <3>1 DEF BoundLinksAreCurrent, Bound, TypeOK
    <3>3. QED
      BY <3>1, <3>2, ConstantsAssumption DEF Rounds
  <2>3. QED
    BY <2>1, <2>2 DEF RoundsQuiet
<1>3. QED
  BY <1>1, <1>2 DEF BoundStep

\* Revoking unused links, expiry and minting are quiet.
LEMMA RevokedQuiet ==
    ASSUME TypeOK, NEW S, \A t \in S \cap Links : link[t].state # "used",
           link' = Revoked(S)
    PROVE  \A t \in Links : LinkQuiet(t)
BY DEF Revoked, LinkQuiet, Bound, Unused, NoLink

\* A link minted for a reminder or a QR code has no round.
LEMMA MintedQuiet ==
    ASSUME TypeOK, NEW t \in Links, NEW h \in HoldPoints, t \in FreeLinks,
           link' = [link EXCEPT ![t] = Minted(t, h)]
    PROVE  \A s \in Links : LinkQuiet(s)
BY DEF TypeOK, Minted, FreeLinks, NoLink, LinkQuiet, Bound, Unused

\* A step that leaves the rounds alone is quiet about them.
LEMMA SameRoundsQuiet ==
    ASSUME UNCHANGED <<current, rounds>> PROVE RoundsQuiet
BY DEF RoundsQuiet

\* The links of S decide the current rounds of their hold points.
LEMMA DecidingStep ==
    ASSUME TypeOK, NamesHoldPoint, RoundsInv, BoundLinksAreCurrent,
           NEW S \in SUBSET Links,
           \A t \in S : /\ LinkDecides(t)
                        /\ rounds'[link[t].hp][current[link[t].hp]].by = t
                        /\ rounds'[link[t].hp][current[link[t].hp]].withdrawn = FALSE,
           link' = [t \in Links |-> IF t \in S THEN Spent(t) ELSE link[t]],
           current' = current,
           \A h \in HoldPoints, r \in Rounds :
             \/ \E t \in S : link[t].hp = h /\ r = current[h]
             \/ rounds'[h][r] = rounds[h][r]
    PROVE  LinkStep(S) /\ BoundStep
<1>1. LinkStep(S)
  BY DEF LinkStep
<1>2. ASSUME NEW t \in Links, Bound(t)'
      PROVE  /\ Bound(t) /\ link[t].hp = link'[t].hp
             /\ link[t].round = link'[t].round
             /\ current'[link[t].hp] = current[link[t].hp]
             /\ rounds'[link[t].hp][current[link[t].hp]].withdrawn
                  = rounds[link[t].hp][current[link[t].hp]].withdrawn
  <2> DEFINE h == link[t].hp
  <2>1. ASSUME t \in S PROVE FALSE
    <3>1. link[t] \in Link
      BY DEF TypeOK
    <3>2. link'[t].state = "used"
      BY <2>1, <3>1 DEF Spent, Link
    <3>3. QED
      BY <1>2, <3>2 DEF Bound, Unused
  <2>2. link'[t] = link[t] /\ Bound(t)
    BY <1>2, <2>1 DEF Bound, Unused
  <2>3. h \in HoldPoints /\ current[h] = link[t].round /\ ~Now(h).withdrawn
    BY <2>2 DEF BoundLinksAreCurrent, NamesHoldPoint, Bound, Unused
  <2>4. current[h] \in Rounds
    <3>1. current[h] # 0 /\ current[h] \in 0..MaxRounds
      BY <2>2, <2>3 DEF Bound, TypeOK
    <3>2. QED
      BY <3>1, ConstantsAssumption DEF Rounds
  <2>5. rounds'[h][current[h]].withdrawn = rounds[h][current[h]].withdrawn
    <3>1. CASE \E s \in S : link[s].hp = h
      <4>1. rounds'[h][current[h]].withdrawn = FALSE
        BY <3>1
      <4>2. rounds[h][current[h]].withdrawn \in BOOLEAN
        BY <2>3, <2>4 DEF TypeOK, Round
      <4>3. QED
        BY <2>3, <4>1, <4>2 DEF Now
    <3>2. CASE ~ \E s \in S : link[s].hp = h
      BY <2>3, <2>4, <3>2
    <3>3. QED
      BY <3>1, <3>2
  <2>6. QED
    BY <2>2, <2>5
<1>3. QED
  BY <1>1, <1>2 DEF BoundStep
LinksStep == (\E S \in SUBSET Links : LinkStep(S)) /\ BoundStep

\* A request revokes the unused links of its hold points and mints theirs.
LEMMA SaveRequestStep ==
    ASSUME TypeOK, NamesHoldPoint, RoundsInv, NEW q \in Requesters, SaveRequest(q)
    PROVE  LinksStep
<1> DEFINE hps == requester[q].hps
           room == IF requester[q].batch THEN rooms + 1 ELSE 0
<1>1. hps \subseteq HoldPoints
  BY DEF TypeOK, Request
<1>2. PICK new \in [hps -> FreeLinks] : link' = Reissued(hps, new, room)
  BY DEF SaveRequest
<1>3. ASSUME NEW h \in hps
      PROVE  /\ current'[h] = current[h] + 1 /\ current'[h] \in Rounds
             /\ rounds'[h][current'[h]].by = "nobody"
             /\ ~rounds'[h][current'[h]].withdrawn
             /\ rounds[h][current'[h]].by = "nobody"
             /\ \A r \in Rounds \ {current'[h]} : rounds'[h][r] = rounds[h][r]
  <2> DEFINE blank == [BlankRound EXCEPT !.answered = h \in requester[q].answers]
  <2>1. h \in HoldPoints /\ rounds[h] \in [Rounds -> Round]
        /\ current[h] \in 0..MaxRounds
    BY <1>1 DEF TypeOK
  <2>2. /\ current'[h] = current[h] + 1
        /\ current[h] < MaxRounds
        /\ rounds'[h] = [rounds[h] EXCEPT ![current[h] + 1] = blank]
    BY <2>1 DEF SaveRequest
  <2>3. current'[h] \in Rounds /\ current'[h] > current[h]
    BY <2>1, <2>2, ConstantsAssumption DEF Rounds
  <2>4. rounds[h][current'[h]] = BlankRound
    BY <2>1, <2>3 DEF RoundsInv, FutureRoundsBlank
  <2>5. blank.by = "nobody" /\ ~blank.withdrawn /\ BlankRound.by = "nobody"
    BY DEF BlankRound
  <2> HIDE DEF blank
  <2>6. /\ rounds'[h][current'[h]] = blank
        /\ \A r \in Rounds \ {current'[h]} : rounds'[h][r] = rounds[h][r]
    BY <2>1, <2>2, <2>3
  <2>7. QED
    BY <2>2, <2>3, <2>4, <2>5, <2>6
<1>4. ASSUME NEW h \in HoldPoints \ hps
      PROVE  current'[h] = current[h] /\ rounds'[h] = rounds[h]
  BY DEF SaveRequest
<1>5. ASSUME NEW t \in Links, \E h \in hps : new[h] = t
      PROVE  /\ link[t].state = "none" /\ link'[t].state = "live"
             /\ link'[t].hp \in hps /\ link'[t].round = current[link'[t].hp] + 1
  <2> DEFINE g == CHOOSE x \in hps : new[x] = t
  <2>1. link[t] = NoLink
    BY <1>2, <1>5 DEF FreeLinks
  <2>2. g \in hps
    BY <1>5
  <2>3. link'[t] = [state |-> "live", hp |-> g, round |-> current[g] + 1,
                    room |-> room]
    BY <1>2, <1>5 DEF Reissued
  <2> HIDE DEF g
  <2>4. QED
    BY <2>1, <2>2, <2>3 DEF NoLink
<1>6. ASSUME NEW t \in Links, ~ \E h \in hps : new[h] = t
      PROVE  link'[t] = IF Unused(t) /\ link[t].hp \in hps THEN NoLink ELSE link[t]
  BY <1>2, <1>6 DEF Reissued
<1>7. LinkStep({})
  <2>1. ASSUME NEW t \in Links
        PROVE  \/ link'[t] = link[t]
               \/ link[t].state # "used" /\ link'[t].state # "used"
    <3>1. CASE \E h \in hps : new[h] = t
      BY <1>5, <3>1
    <3>2. CASE ~ \E h \in hps : new[h] = t
      BY <1>6, <3>2 DEF Unused, NoLink
    <3>3. QED
      BY <3>1, <3>2
  <2>2. \A h \in HoldPoints, r \in Rounds : rounds'[h][r].by = rounds[h][r].by
    BY <1>3, <1>4
  <2>3. QED
    BY <2>1, <2>2 DEF LinkStep
<1>8. ASSUME NEW t \in Links, Bound(t)'
      PROVE  LET h == link'[t].hp
             IN  \/ /\ Bound(t) /\ link[t].hp = h /\ link[t].round = link'[t].round
                    /\ current'[h] = current[h]
                    /\ rounds'[h][current[h]].withdrawn
                         = rounds[h][current[h]].withdrawn
                 \/ link'[t].round = current'[h] /\ ~rounds'[h][current'[h]].withdrawn
  <2>1. CASE \E h \in hps : new[h] = t
    BY <1>3, <1>5, <2>1
  <2>2. CASE ~ \E h \in hps : new[h] = t
    <3>1. link'[t] = link[t] /\ Bound(t) /\ link[t].hp \notin hps
      BY <1>6, <1>8, <2>2 DEF Bound, Unused, NoLink
    <3>2. link[t].hp \in HoldPoints
      BY <3>1 DEF Bound, Unused, NamesHoldPoint
    <3>3. QED
      BY <1>4, <3>1, <3>2
  <2>3. QED
    BY <2>1, <2>2
<1>9. QED
  BY <1>7, <1>8 DEF LinksStep, BoundStep
\* A withdrawal revokes every unused link of its hold point.
LEMMA WithdrawStep ==
    ASSUME TypeOK, NamesHoldPoint, RoundsInv, NEW h \in HoldPoints,
           WithdrawRequest(h)
    PROVE  LinksStep
<1>1. /\ current' = current
      /\ rounds' = [rounds EXCEPT ![h][current[h]].withdrawn = TRUE]
      /\ link' = Revoked({t \in Links : Unused(t) /\ link[t].hp = h})
  BY DEF WithdrawRequest, Reopen
<1>2. rounds \in [HoldPoints -> [Rounds -> Round]]
  BY DEF TypeOK
<1>3. /\ \A g \in HoldPoints \ {h} : rounds'[g] = rounds[g]
      /\ \A g \in HoldPoints, r \in Rounds : rounds'[g][r].by = rounds[g][r].by
  BY <1>1, <1>2 DEF Round
<1>4. ASSUME NEW t \in Links
      PROVE  \/ link'[t] = link[t] /\ ~(Unused(t) /\ link[t].hp = h)
             \/ Unused(t) /\ link'[t] = NoLink
  BY <1>1 DEF Revoked
<1>5. LinkStep({})
  BY <1>3, <1>4 DEF LinkStep, Unused, NoLink
<1>6. ASSUME NEW t \in Links, Bound(t)'
      PROVE  /\ Bound(t) /\ link[t].hp = link'[t].hp
             /\ link[t].round = link'[t].round
             /\ current'[link[t].hp] = current[link[t].hp]
             /\ rounds'[link[t].hp][current[link[t].hp]].withdrawn
                  = rounds[link[t].hp][current[link[t].hp]].withdrawn
  <2>1. link'[t] = link[t] /\ Bound(t) /\ link[t].hp # h
    BY <1>4, <1>6 DEF Bound, Unused, NoLink
  <2>2. link[t].hp \in HoldPoints
    BY <2>1 DEF Bound, Unused, NamesHoldPoint
  <2>3. QED
    BY <1>1, <1>3, <2>1, <2>2
<1>7. QED
  BY <1>5, <1>6 DEF LinksStep, BoundStep

\* An in-application release names no link and spends none.
LEMMA ReleaseInAppStep ==
    ASSUME TypeOK, NamesHoldPoint, RoundsInv, NEW h \in HoldPoints, ReleaseInApp(h)
    PROVE  LinksStep
<1> DEFINE new == Decided(h, "released", "in_app")
<1>1. /\ current' = current /\ link' = link
      /\ rounds' = [rounds EXCEPT ![h][current[h]] = new]
  BY DEF ReleaseInApp
<1>2. /\ current[h] \in Rounds /\ Now(h) \in Round
      /\ Now(h).verdict = "none" /\ Now(h).by = "nobody"
  <2>1. DecisionEligible(h, current[h])
    BY DEF ReleaseInApp
  <2>2. /\ current[h] \in Rounds /\ Now(h) \in Round
        /\ Now(h).verdict = "none"
    BY <2>1, EligibleRound DEF RoundsInv
  <2>3. QED
    BY <2>2 DEF RoundsInv, UndecidedByNobody, Now
<1>3. new.by = "in_app" /\ new.withdrawn = Now(h).withdrawn
  BY <1>2 DEF Decided, Round
<1> HIDE DEF new
<1>4. /\ rounds'[h][current[h]] = new
      /\ \A g \in HoldPoints, r \in Rounds :
           (g # h \/ r # current[h]) => rounds'[g][r] = rounds[g][r]
      /\ \A g \in HoldPoints \ {h} : rounds'[g] = rounds[g]
  BY <1>1, <1>2 DEF TypeOK
<1>5. LinkStep({})
  BY <1>1, <1>2, <1>3, <1>4, ConstantsAssumption DEF LinkStep, Now
<1>6. ASSUME NEW t \in Links, Bound(t)'
      PROVE  /\ Bound(t)
             /\ rounds'[link[t].hp][current[link[t].hp]].withdrawn
                  = rounds[link[t].hp][current[link[t].hp]].withdrawn
  <2>1. Bound(t)
    BY <1>1, <1>6 DEF Bound, Unused
  <2>2. link[t].hp \in HoldPoints
    BY <2>1 DEF Bound, Unused, NamesHoldPoint
  <2>3. QED
    BY <1>3, <1>4, <2>1, <2>2 DEF Now
<1>7. QED
  BY <1>1, <1>5, <1>6 DEF LinksStep, BoundStep

\* One link decides its hold point's current round.
LEMMA OneLinkDecides ==
    ASSUME TypeOK, NamesHoldPoint, RoundsInv, BoundLinksAreCurrent,
           NEW t \in Links, LinkDecides(t),
           NEW new, new.by = t, new.withdrawn = FALSE,
           current' = current,
           rounds' = [rounds EXCEPT ![link[t].hp][current[link[t].hp]] = new],
           link' = [link EXCEPT ![t] = Spent(t)]
    PROVE  LinksStep
<1> DEFINE h == link[t].hp
<1>1. h \in HoldPoints
  BY DEF LinkDecides, NamesHoldPoint
<1>2. current[h] \in Rounds
  BY <1>1, EligibleRound DEF LinkDecides, RoundsInv
<1>3. /\ rounds'[h][current[h]] = new
      /\ \A g \in HoldPoints, r \in Rounds :
           (g # h \/ r # current[h]) => rounds'[g][r] = rounds[g][r]
  BY <1>1, <1>2 DEF TypeOK
<1>4. link' = [s \in Links |-> IF s \in {t} THEN Spent(s) ELSE link[s]]
  BY DEF TypeOK
<1> DEFINE S == {t}
<1>5. \A s \in S : s = t /\ link[s].hp = h
  OBVIOUS
<1>6. \A s \in S : /\ LinkDecides(s)
                   /\ rounds'[link[s].hp][current[link[s].hp]].by = s
                   /\ rounds'[link[s].hp][current[link[s].hp]].withdrawn = FALSE
  BY <1>3, <1>5
<1>7. \A g \in HoldPoints, r \in Rounds :
        \/ \E s \in S : link[s].hp = g /\ r = current[g]
        \/ rounds'[g][r] = rounds[g][r]
  BY <1>3, <1>5
<1>8. S \in SUBSET Links
  OBVIOUS
<1> HIDE DEF S
<1>9. QED
  BY <1>4, <1>6, <1>7, <1>8, DecidingStep DEF LinksStep, S

\* The links of a room, or a single one, release their hold points together.
LEMMA ReleaseByLinksStep ==
    ASSUME TypeOK, NamesHoldPoint, RoundsInv, BoundLinksAreCurrent,
           NEW S \in SUBSET Links, ReleaseByLinks(S)
    PROVE  LinksStep
<1> DEFINE hps == {link[t].hp : t \in S}
           linkOf(h) == CHOOSE t \in S : link[t].hp = h
<1>1. /\ current' = current
      /\ link' = [t \in Links |-> IF t \in S THEN Spent(t) ELSE link[t]]
      /\ \A t \in S : LinkDecides(t)
  BY DEF ReleaseByLinks
<1>2. ASSUME NEW t \in S
      PROVE  /\ rounds'[link[t].hp][current[link[t].hp]].by = t
             /\ rounds'[link[t].hp][current[link[t].hp]].withdrawn = FALSE
  <2> DEFINE h == link[t].hp
             new == Decided(h, "released", linkOf(h))
  <2>1. h \in HoldPoints /\ DecisionEligible(h, current[h])
    <3>1. h \in HoldPoints /\ DecisionEligible(h, BoundRound(t))
      BY <1>1 DEF LinkDecides, NamesHoldPoint
    <3>2. QED
      BY <3>1, EligibleRound DEF RoundsInv
  <2>2. /\ current[h] \in Rounds /\ Now(h) \in Round /\ ~Now(h).withdrawn
    BY <2>1, EligibleRound DEF RoundsInv
  <2>3. linkOf(h) = t
    BY DEF ReleaseByLinks
  <2>4. rounds'[h] = [rounds[h] EXCEPT ![current[h]] = new]
    BY <2>1 DEF ReleaseByLinks
  <2>5. new.by = t /\ new.withdrawn = FALSE
    BY <2>2, <2>3 DEF Decided, Round
  <2>6. rounds[h] \in [Rounds -> Round]
    BY <2>1 DEF TypeOK
  <2> HIDE DEF new, h
  <2>7. rounds'[h][current[h]] = new
    BY <2>2, <2>4, <2>6
  <2>8. QED
    BY <2>5, <2>7 DEF h
<1>3. ASSUME NEW g \in HoldPoints, NEW r \in Rounds
      PROVE  \/ \E t \in S : link[t].hp = g /\ r = current[g]
             \/ rounds'[g][r] = rounds[g][r]
  <2>1. CASE g \in hps
    <3>1. rounds'[g] = [rounds[g] EXCEPT ![current[g]] = Decided(g, "released", linkOf(g))]
      BY <2>1 DEF ReleaseByLinks
    <3>2. r # current[g] => rounds'[g][r] = rounds[g][r]
      BY <3>1 DEF TypeOK
    <3>3. QED
      BY <2>1, <3>2
  <2>2. CASE g \notin hps
    BY <2>2 DEF ReleaseByLinks
  <2>3. QED
    BY <2>1, <2>2
<1>4. QED
  BY <1>1, <1>2, <1>3, DecidingStep DEF LinksStep
\* A step whose rounds and links are quiet.
LEMMA QuietLinks ==
    ASSUME TypeOK, NamesHoldPoint, BoundLinksAreCurrent, RoundsQuiet,
           \A t \in Links : LinkQuiet(t)
    PROVE  LinksStep
BY QuietSteps DEF LinksStep

\* So is one that leaves the links alone.
LEMMA SameLinksQuiet ==
    ASSUME UNCHANGED link PROVE \A t \in Links : LinkQuiet(t)
BY DEF LinkQuiet

\* Reminders and QR links: links are minted without a round, or revoked unused.
LEMMA MailLinks ==
    ASSUME TypeOK, NamesHoldPoint, BoundLinksAreCurrent, MailStep
    PROVE  LinksStep
<1>1. RoundsQuiet
  BY SameRoundsQuiet
     DEF MailStep, ReadForChase, ReadForQrLink, ReserveChase, RefuseChase,
         MintChaseLink, ChaseDelivered, ChaseFails, ChaseSuppressed, RefundChase,
         MailerDies, MintQrLink, DayPasses, rowVars
<1>2. ASSUME NEW k \in Mailers, MintChaseLink(k) \/ MintQrLink(k)
      PROVE  \A t \in Links : LinkQuiet(t)
  <2>1. PICK t \in FreeLinks : link' = [link EXCEPT ![t] = Minted(t, mailer[k].hp)]
    BY <1>2 DEF MintChaseLink, MintQrLink
  <2>2. mailer[k].hp \in HoldPoints /\ t \in Links
    BY <1>2, <2>1 DEF NamesHoldPoint, MintChaseLink, MintQrLink, FreeLinks
  <2>3. QED
    BY <2>1, <2>2, MintedQuiet
<1>3. ASSUME NEW k \in Mailers, ChaseDelivered(k) PROVE \A t \in Links : LinkQuiet(t)
  <2>1. \A t \in Superseded(k) \cap Links : link[t].state # "used"
    BY DEF Superseded, Unused
  <2>2. link' = Revoked(Superseded(k))
    BY <1>3 DEF ChaseDelivered
  <2>3. QED
    BY <2>1, <2>2, RevokedQuiet
<1>4. ASSUME NEW k \in Mailers, ChaseFails(k) \/ ChaseSuppressed(k)
      PROVE  \A t \in Links : LinkQuiet(t)
  <2> DEFINE S == {t \in {mailer[k].fresh} \cap Links : Unused(t)}
  <2>1. \A t \in S \cap Links : link[t].state # "used"
    BY DEF Unused
  <2>2. link' = Revoked(S)
    BY <1>4 DEF ChaseFails, ChaseSuppressed
  <2> HIDE DEF S
  <2>3. QED
    BY <2>1, <2>2, RevokedQuiet
<1>5. ASSUME NEW k \in Mailers,
             \/ \E h \in HoldPoints : ReadForChase(k, h) \/ ReadForQrLink(k, h)
             \/ ReserveChase(k) \/ RefuseChase(k) \/ RefundChase(k) \/ MailerDies(k)
      PROVE  \A t \in Links : LinkQuiet(t)
  BY <1>5, SameLinksQuiet
     DEF ReadForChase, ReadForQrLink, ReserveChase, RefuseChase, RefundChase,
         MailerDies
<1>6. CASE DayPasses
  BY <1>1, <1>6, SameLinksQuiet, QuietLinks DEF DayPasses
<1>7. \A t \in Links : LinkQuiet(t)
  BY <1>2, <1>3, <1>4, <1>5, SameLinksQuiet DEF MailStep, DayPasses
<1>8. QED
  BY <1>1, <1>7, QuietLinks

\* What the site records leaves links and authors alone.
LEMMA SiteLinks ==
    ASSUME TypeOK, NamesHoldPoint, RoundsInv, BoundLinksAreCurrent, SiteStep
    PROVE  LinksStep
<1>0. rounds \in [HoldPoints -> [Rounds -> Round]]
  BY DEF TypeOK
<1>1. UNCHANGED <<current, link>>
  BY DEF SiteStep, CloseNcr, ReopenNcr, RecordResult, CountOthers, CloseCondition,
         DropCondition, rowVars
<1>2. ASSUME NEW h \in HoldPoints, NEW r \in Rounds,
             CloseNcr(h, r) \/ ReopenNcr(h, r)
      PROVE  RoundsQuiet
  <2>1. PICK v : rounds' = [rounds EXCEPT ![h][r].ncr = v]
    BY <1>2 DEF CloseNcr, ReopenNcr
  <2>2. QED
    BY <1>0, <1>1, <2>1 DEF RoundsQuiet, Round
<1>3. ASSUME NEW c \in Closers, CloseCondition(c) PROVE RoundsQuiet
  <2>1. PICK m : rounds' = [rounds EXCEPT ![closer[c].hp][current[closer[c].hp]].met = m]
    BY <1>3 DEF CloseCondition
  <2>2. ASSUME NEW h \in HoldPoints, NEW r \in Rounds
        PROVE  /\ rounds'[h][r].by = rounds[h][r].by
               /\ rounds'[h][r].withdrawn = rounds[h][r].withdrawn
    <3>1. \/ rounds'[h][r] = rounds[h][r]
          \/ rounds'[h][r] = [rounds[h][r] EXCEPT !.met = m]
      BY <1>0, <2>1
    <3>2. rounds[h][r] \in Round
      BY <1>0
    <3>3. QED
      BY <3>1, <3>2 DEF Round
  <2>3. QED
    BY <1>1, <2>2 DEF RoundsQuiet
<1>4. ASSUME UNCHANGED rounds PROVE RoundsQuiet
  BY <1>1, <1>4, SameRoundsQuiet
<1>5. RoundsQuiet
  BY <1>2, <1>3, <1>4
     DEF SiteStep, RecordResult, CountOthers, DropCondition
<1>6. QED
  BY <1>1, <1>5, SameLinksQuiet, QuietLinks

\* Decisions, expiry and the purge.
LEMMA DecisionLinks ==
    ASSUME TypeOK, NamesHoldPoint, RoundsInv, BoundLinksAreCurrent, DecisionStep
    PROVE  LinksStep
<1>1. ASSUME NEW t \in Links, RejectByLink(t) PROVE LinksStep
  <2> DEFINE h == link[t].hp
             new == [Decided(h, "rejected", t) EXCEPT !.ncr = "open"]
  <2>1. /\ LinkDecides(t) /\ current' = current
        /\ rounds' = [rounds EXCEPT ![h][current[h]] = new]
        /\ link' = [link EXCEPT ![t] = Spent(t)]
    BY <1>1 DEF RejectByLink, Reopen
  <2>2. h \in HoldPoints
    BY <2>1 DEF LinkDecides, NamesHoldPoint
  <2>3. Now(h) \in Round /\ ~Now(h).withdrawn
    BY <2>1, <2>2, EligibleRound DEF LinkDecides, RoundsInv
  <2>4. new.by = t /\ new.withdrawn = FALSE
    BY <2>3 DEF Decided, Round
  <2> HIDE DEF new
  <2>5. QED
    BY <2>1, <2>4, OneLinkDecides
<1>2. ASSUME NEW t \in Links, NEW conds \in SUBSET Conditions,
             ReleaseWithConditions(t, conds)
      PROVE  LinksStep
  <2> DEFINE h == link[t].hp
             new == [Decided(h, "conditional", t) EXCEPT !.conds = conds]
  <2>1. /\ LinkDecides(t) /\ current' = current
        /\ rounds' = [rounds EXCEPT ![h][current[h]] = new]
        /\ link' = [link EXCEPT ![t] = Spent(t)]
    BY <1>2 DEF ReleaseWithConditions
  <2>2. h \in HoldPoints
    BY <2>1 DEF LinkDecides, NamesHoldPoint
  <2>3. Now(h) \in Round /\ ~Now(h).withdrawn
    BY <2>1, <2>2, EligibleRound DEF LinkDecides, RoundsInv
  <2>4. new.by = t /\ new.withdrawn = FALSE
    BY <2>3 DEF Decided, Round
  <2> HIDE DEF new
  <2>5. QED
    BY <2>1, <2>4, OneLinkDecides
<1>3. ASSUME NEW t \in Links, ExpireLink(t) PROVE LinksStep
  <2>1. ASSUME NEW s \in Links PROVE LinkQuiet(s)
    <3>1. link \in [Links -> Link] /\ link[t].state = "live"
          /\ link' = [link EXCEPT ![t].state = "expired"]
      BY <1>3 DEF ExpireLink, TypeOK
    <3>2. CASE s = t
      <4>1. /\ link'[t].state = "expired" /\ link'[t].hp = link[t].hp
            /\ link'[t].round = link[t].round
        BY <3>1 DEF Link
      <4>2. QED
        BY <3>1, <3>2, <4>1 DEF LinkQuiet, Bound, Unused
    <3>3. CASE s # t
      BY <3>1, <3>3 DEF LinkQuiet
    <3>4. QED
      BY <3>2, <3>3
  <2>2. QED
    BY <1>3, <2>1, SameRoundsQuiet, QuietLinks DEF ExpireLink, rowVars
<1>4. ASSUME NEW t \in Links, PurgeLink(t) PROVE LinksStep
  <2>1. \A s \in Links : LinkQuiet(s)
    BY <1>4, RevokedQuiet DEF PurgeLink
  <2>2. QED
    BY <1>4, <2>1, SameRoundsQuiet, QuietLinks DEF PurgeLink, rowVars
<1>5. QED
  BY <1>1, <1>2, <1>3, <1>4, WithdrawStep, ReleaseInAppStep, ReleaseByLinksStep
     DEF DecisionStep, ReleaseByLink, ReleaseRoom

\* Every step is such a step.
LEMMA LinksNext ==
    ASSUME TypeOK, NamesHoldPoint, RoundsInv, BoundLinksAreCurrent, [Next]_vars
    PROVE  LinksStep
<1>1. CASE RequestStep
  <2>1. ASSUME NEW q \in Requesters,
               \/ DropRequest(q)
               \/ \E hps \in (SUBSET HoldPoints) \ {{}}, batch \in BOOLEAN :
                    CheckRequest(q, hps, batch)
        PROVE  LinksStep
    BY <2>1, SameRoundsQuiet, SameLinksQuiet, QuietLinks
       DEF DropRequest, CheckRequest, rowVars
  <2>2. QED
    BY <1>1, <2>1, SaveRequestStep DEF RequestStep
<1>2. CASE UNCHANGED vars
  BY <1>2, SameRoundsQuiet, SameLinksQuiet, QuietLinks DEF vars, rowVars
<1>3. QED
  BY <1>1, <1>2, DecisionLinks, SiteLinks, MailLinks DEF Next

-----------------------------------------------------------------------------
(* The theorems about links. *)

LinkInv == Inv /\ LinkDecidesOnce /\ BoundLinksAreCurrent

\* The inductive invariant behind both theorems.
LEMMA LinkInvAlways == Spec => []LinkInv
<1>1. Init => LinkInv
  <2>1. Init => LinkDecidesOnce /\ BoundLinksAreCurrent
    BY ConstantsAssumption
       DEF Init, LinkDecidesOnce, BoundLinksAreCurrent, Unused, NoLink, BlankRound
  <2>2. QED
    BY <2>1, InvInitial DEF LinkInv
<1>2. LinkInv /\ [Next]_vars => LinkInv'
  <2> SUFFICES ASSUME LinkInv, [Next]_vars PROVE LinkInv'
    OBVIOUS
  <2>1. /\ TypeOK /\ NamesHoldPoint /\ RoundsInv
        /\ LinkDecidesOnce /\ BoundLinksAreCurrent
    BY DEF LinkInv, Inv
  <2>2. LinksStep
    BY <2>1, LinksNext
  <2>3. LinkDecidesOnce' /\ BoundLinksAreCurrent'
    BY <2>1, <2>2, LinkStepKeeps, BoundStepKeeps DEF LinksStep
  <2>4. Inv'
    BY InvStep DEF LinkInv
  <2>5. QED
    BY <2>3, <2>4 DEF LinkInv
<1>3. QED
  BY <1>1, <1>2, PTL DEF Spec

\* claimPublicDecision: a secure link decides one round, once, and the round
\* records it; a round decided by a link was decided by a link spent on it.
THEOREM LinksDecideOnce == Spec => []LinkDecidesOnce
<1>1. LinkInv => LinkDecidesOnce
  BY DEF LinkInv
<1>2. QED
  BY <1>1, LinkInvAlways, PTL

\* A link sent with a request never outlives it: a later request, or the
\* withdrawal of its own, has deleted it before anybody can use it.
THEOREM LinksStayCurrent == Spec => []BoundLinksAreCurrent
<1>1. LinkInv => BoundLinksAreCurrent
  BY DEF LinkInv
<1>2. QED
  BY <1>1, LinkInvAlways, PTL

-----------------------------------------------------------------------------
(* The checklist items that full releases complete. *)

\* A full release, current or past, left the item completed and verified.
ReleasedVerified ==
    \A h \in HoldPoints, r \in Rounds :
       rounds[h][r].verdict = "released" => completion[h] = Verified

\* No step undoes the verification of a completed item.
CompletionStep ==
    \A h \in HoldPoints : completion[h] = Verified => completion'[h] = Verified

\* A round is released in full together with its item's verification.
ReleaseStep ==
    \A h \in HoldPoints, r \in Rounds :
       rounds'[h][r].verdict = "released" =>
          rounds[h][r].verdict = "released" \/ completion'[h] = Verified

\* One item's record is edited.
LEMMA OneCompletion ==
    ASSUME TypeOK, NEW h \in HoldPoints, NEW v,
           completion' = [completion EXCEPT ![h] = v],
           completion[h] = Verified => v = Verified
    PROVE  CompletionStep
<1>1. completion'[h] = v /\ \A g \in HoldPoints \ {h} : completion'[g] = completion[g]
  BY DEF TypeOK
<1>2. QED
  BY <1>1 DEF CompletionStep

\* The item is left alone.
LEMMA SameCompletion ==
    ASSUME UNCHANGED completion PROVE CompletionStep
BY DEF CompletionStep

\* Setting a field to the value it has changes nothing.
LEMMA SetAgain ==
    ASSUME NEW b, NEW x, x = [status |-> "completed", verified |-> b]
    PROVE  [x EXCEPT !.verified = b] = x
OBVIOUS

\* Every action keeps what is verified.
LEMMA CompletionNext ==
    ASSUME TypeOK, NamesHoldPoint, [Next]_vars PROVE CompletionStep
<1>0. completion \in [HoldPoints -> [status : Results, verified : BOOLEAN]]
  BY DEF TypeOK
<1>1. ASSUME NEW h \in HoldPoints, NEW result \in Recorded, RecordResult(h, result)
      PROVE  CompletionStep
  <2> DEFINE v == [completion[h] EXCEPT !.status = result]
  <2>1. completion' = [completion EXCEPT ![h] = v] /\ ~completion[h].verified
    BY <1>1 DEF RecordResult
  <2>2. completion[h] # Verified
    BY <2>1 DEF Verified
  <2> HIDE DEF v
  <2>3. QED
    BY <2>1, <2>2, OneCompletion
<1>2. ASSUME NEW h \in HoldPoints, ReleaseInApp(h) PROVE CompletionStep
  BY <1>2, OneCompletion DEF ReleaseInApp, Verified
<1>3. ASSUME NEW S \in SUBSET Links, ReleaseByLinks(S) PROVE CompletionStep
  <2>1. \A h \in HoldPoints : completion'[h] \in {Verified, completion[h]}
    BY <1>3 DEF ReleaseByLinks
  <2>2. QED
    BY <2>1 DEF CompletionStep
<1>4. ASSUME NEW t \in Links, NEW conds \in SUBSET Conditions,
             ReleaseWithConditions(t, conds)
      PROVE  CompletionStep
  <2> DEFINE h == link[t].hp
             v == [completion[h] EXCEPT !.status = "completed"]
  <2>1. h \in HoldPoints
    BY <1>4 DEF ReleaseWithConditions, LinkDecides, NamesHoldPoint
  <2>2. completion' = [completion EXCEPT ![h] = v]
    BY <1>4 DEF ReleaseWithConditions
  <2>3. completion[h] = Verified => v = Verified
    BY DEF Verified
  <2> HIDE DEF v, h
  <2>4. QED
    BY <2>1, <2>2, <2>3, OneCompletion
<1>5. ASSUME NEW c \in Closers, CloseCondition(c) PROVE CompletionStep
  <2> DEFINE h == closer[c].hp
             v == [completion[h] EXCEPT !.verified = TRUE]
  <2>1. h \in HoldPoints
    BY <1>5 DEF CloseCondition, NamesHoldPoint
  <2>2. completion' = completion \/ completion' = [completion EXCEPT ![h] = v]
    BY <1>5 DEF CloseCondition
  <2>3. completion[h] = Verified => v = Verified
    <3>1. completion[h] = Verified => [completion[h] EXCEPT !.verified = TRUE] = completion[h]
      BY SetAgain, Zenon DEF Verified
    <3>2. QED
      BY <3>1, Zenon
  <2> HIDE DEF v, h
  <2>4. QED
    BY <2>1, <2>2, <2>3, OneCompletion, SameCompletion
<1>6. CASE RequestStep
  BY <1>6, SameCompletion DEF RequestStep, CheckRequest, SaveRequest, DropRequest
<1>7. CASE DecisionStep
  <2>1. ASSUME NEW h \in HoldPoints, WithdrawRequest(h) PROVE CompletionStep
    BY <2>1, SameCompletion DEF WithdrawRequest
  <2>2. ASSUME NEW t \in Links, RejectByLink(t) \/ ExpireLink(t) \/ PurgeLink(t)
        PROVE  CompletionStep
    BY <2>2, SameCompletion DEF RejectByLink, ExpireLink, PurgeLink
  <2>3. QED
    BY <1>2, <1>3, <1>4, <1>7, <2>1, <2>2 DEF DecisionStep, ReleaseByLink, ReleaseRoom
<1>8. CASE SiteStep
  <2>1. ASSUME NEW h \in HoldPoints, NEW r \in Rounds, CloseNcr(h, r) \/ ReopenNcr(h, r)
        PROVE  CompletionStep
    BY <2>1, SameCompletion DEF CloseNcr, ReopenNcr
  <2>2. ASSUME NEW c \in Closers,
               \/ \E h \in HoldPoints, x \in Conditions : CountOthers(c, h, x)
               \/ DropCondition(c)
        PROVE  CompletionStep
    BY <2>2, SameCompletion DEF CountOthers, DropCondition
  <2>3. QED
    BY <1>1, <1>5, <1>8, <2>1, <2>2 DEF SiteStep
<1>9. CASE MailStep
  BY <1>9, SameCompletion
     DEF MailStep, ReadForChase, ReadForQrLink, ReserveChase, RefuseChase,
         MintChaseLink, ChaseDelivered, ChaseFails, ChaseSuppressed, RefundChase,
         MailerDies, MintQrLink, DayPasses
<1>10. CASE UNCHANGED vars
  BY <1>10, SameCompletion DEF vars
<1>11. QED
  BY <1>6, <1>7, <1>8, <1>9, <1>10 DEF Next
-----------------------------------------------------------------------------
(* Full releases. *)

\* A step after which no further round is released in full.
LEMMA NoReleaseStep ==
    ASSUME \A h \in HoldPoints, r \in Rounds :
             rounds'[h][r].verdict = "released" => rounds[h][r].verdict = "released"
    PROVE  ReleaseStep
BY DEF ReleaseStep

\* One round gets another verdict, or none.
LEMMA EditedRound ==
    ASSUME TypeOK, NEW h, NEW r, NEW new,
           rounds' = [rounds EXCEPT ![h][r] = new],
           new.verdict = "released" =>
              h \in HoldPoints /\ r \in Rounds /\ rounds[h][r].verdict = "released"
    PROVE  ReleaseStep
<1>1. ASSUME NEW g \in HoldPoints, NEW s \in Rounds
      PROVE  rounds'[g][s] = rounds[g][s] \/ (g = h /\ s = r /\ rounds'[g][s] = new)
  BY DEF TypeOK
<1>2. QED
  BY <1>1, NoReleaseStep

\* Every action releases in full only with the verification of the item.
LEMMA ReleaseNext ==
    ASSUME TypeOK, NamesHoldPoint, RoundsInv, [Next]_vars PROVE ReleaseStep
<1>0. rounds \in [HoldPoints -> [Rounds -> Round]]
  BY DEF TypeOK
<1>1. ASSUME UNCHANGED rounds PROVE ReleaseStep
  BY <1>1, NoReleaseStep
<1>2. ASSUME NEW q \in Requesters, SaveRequest(q) PROVE ReleaseStep
  <2>1. ASSUME NEW h \in HoldPoints, NEW r \in Rounds,
               rounds'[h][r].verdict = "released"
        PROVE  rounds[h][r].verdict = "released"
    <3> DEFINE new == [BlankRound EXCEPT !.answered = h \in requester[q].answers]
    <3>1. \/ rounds'[h] = rounds[h]
          \/ rounds'[h] = [rounds[h] EXCEPT ![current[h] + 1] = new]
      BY <1>2 DEF SaveRequest
    <3>2. new.verdict = "none"
      BY DEF BlankRound
    <3> HIDE DEF new
    <3>3. rounds'[h][r] = rounds[h][r] \/ rounds'[h][r] = new
      BY <1>0, <3>1
    <3>4. QED
      BY <2>1, <3>2, <3>3
  <2>2. QED
    BY <2>1, NoReleaseStep
<1>3. ASSUME NEW h \in HoldPoints, WithdrawRequest(h) PROVE ReleaseStep
  <2>1. Now(h).verdict = "none" /\ Now(h) \in Round
    BY <1>3, EligibleRound DEF WithdrawRequest, RoundsInv
  <2>2. rounds' = [rounds EXCEPT ![h][current[h]] = [Now(h) EXCEPT !.withdrawn = TRUE]]
    BY <1>3 DEF WithdrawRequest, Now
  <2>3. [Now(h) EXCEPT !.withdrawn = TRUE].verdict = "none"
    BY <2>1 DEF Round
  <2>4. QED
    BY <2>2, <2>3, EditedRound
<1>4. ASSUME NEW h \in HoldPoints, ReleaseInApp(h) PROVE ReleaseStep
  <2>1. completion'[h] = Verified
    BY <1>4 DEF ReleaseInApp, TypeOK
  <2>2. \A g \in HoldPoints \ {h} : rounds'[g] = rounds[g]
    BY <1>0, <1>4 DEF ReleaseInApp
  <2>3. QED
    BY <2>1, <2>2 DEF ReleaseStep
<1>5. ASSUME NEW S \in SUBSET Links, ReleaseByLinks(S) PROVE ReleaseStep
  <2>1. \A h \in HoldPoints : rounds'[h] = rounds[h] \/ completion'[h] = Verified
    BY <1>5 DEF ReleaseByLinks
  <2>2. QED
    BY <2>1 DEF ReleaseStep
<1>6. ASSUME NEW t \in Links,
             \/ RejectByLink(t)
             \/ \E conds \in SUBSET Conditions : ReleaseWithConditions(t, conds)
      PROVE  ReleaseStep
  <2> DEFINE h == link[t].hp
  <2>1. LinkDecides(t) /\ h \in HoldPoints
    BY <1>6 DEF RejectByLink, ReleaseWithConditions, LinkDecides, NamesHoldPoint
  <2>2. Now(h) \in Round
    BY <2>1, EligibleRound DEF LinkDecides, RoundsInv
  <2>3. PICK new : /\ rounds' = [rounds EXCEPT ![h][current[h]] = new]
                   /\ new.verdict \in {"rejected", "conditional"}
    <3>1. CASE RejectByLink(t)
      <4> DEFINE new == [Decided(h, "rejected", t) EXCEPT !.ncr = "open"]
      <4>1. new.verdict = "rejected"
        BY <2>2 DEF Decided, Round
      <4>2. rounds' = [rounds EXCEPT ![h][current[h]] = new]
        BY <3>1 DEF RejectByLink
      <4>3. QED
        BY <4>1, <4>2
    <3>2. CASE \E conds \in SUBSET Conditions : ReleaseWithConditions(t, conds)
      <4>1. PICK conds \in SUBSET Conditions : ReleaseWithConditions(t, conds)
        BY <3>2
      <4> DEFINE new == [Decided(h, "conditional", t) EXCEPT !.conds = conds]
      <4>2. new.verdict = "conditional"
        BY <2>2 DEF Decided, Round
      <4>3. rounds' = [rounds EXCEPT ![h][current[h]] = new]
        BY <4>1 DEF ReleaseWithConditions
      <4>4. QED
        BY <4>2, <4>3
    <3>3. QED
      BY <1>6, <3>1, <3>2
  <2>4. QED
    BY <2>3, EditedRound
<1>7. ASSUME NEW h \in HoldPoints, NEW r \in Rounds, CloseNcr(h, r) \/ ReopenNcr(h, r)
      PROVE  ReleaseStep
  <2>1. PICK v : rounds' = [rounds EXCEPT ![h][r] = [rounds[h][r] EXCEPT !.ncr = v]]
    BY <1>7 DEF CloseNcr, ReopenNcr
  <2>2. [rounds[h][r] EXCEPT !.ncr = v].verdict = rounds[h][r].verdict
    BY <1>0 DEF Round
  <2>3. QED
    BY <2>1, <2>2, EditedRound
<1>8. ASSUME NEW c \in Closers, CloseCondition(c) PROVE ReleaseStep
  <2> DEFINE h == closer[c].hp
  <2>1. h \in HoldPoints
    BY <1>8 DEF CloseCondition, NamesHoldPoint
  <2>2. PICK m : rounds' = [rounds EXCEPT ![h][current[h]].met = m]
    BY <1>8 DEF CloseCondition
  <2> HIDE DEF h
  <2>3. ASSUME NEW g \in HoldPoints, NEW r \in Rounds
        PROVE  rounds'[g][r].verdict = rounds[g][r].verdict
    <3>1. \/ rounds'[g][r] = rounds[g][r]
          \/ rounds'[g][r] = [rounds[g][r] EXCEPT !.met = m]
      BY <1>0, <2>2
    <3>2. QED
      BY <1>0, <3>1 DEF Round
  <2>4. QED
    BY <2>3, NoReleaseStep
<1>9. CASE RequestStep
  BY <1>1, <1>2, <1>9 DEF RequestStep, CheckRequest, DropRequest
<1>10. CASE DecisionStep
  <2>1. ASSUME NEW t \in Links, ExpireLink(t) \/ PurgeLink(t) PROVE ReleaseStep
    BY <1>1, <2>1 DEF ExpireLink, PurgeLink
  <2>2. QED
    BY <1>3, <1>4, <1>5, <1>6, <1>10, <2>1 DEF DecisionStep, ReleaseByLink, ReleaseRoom
<1>11. CASE SiteStep
  <2>1. ASSUME NEW h \in HoldPoints, NEW result \in Recorded, RecordResult(h, result)
        PROVE  ReleaseStep
    BY <1>1, <2>1 DEF RecordResult
  <2>2. ASSUME NEW c \in Closers,
               \/ \E h \in HoldPoints, x \in Conditions : CountOthers(c, h, x)
               \/ DropCondition(c)
        PROVE  ReleaseStep
    BY <1>1, <2>2 DEF CountOthers, DropCondition
  <2>3. QED
    BY <1>7, <1>8, <1>11, <2>1, <2>2 DEF SiteStep
<1>12. CASE MailStep
  BY <1>1, <1>12
     DEF MailStep, ReadForChase, ReadForQrLink, ReserveChase, RefuseChase,
         MintChaseLink, ChaseDelivered, ChaseFails, ChaseSuppressed, RefundChase,
         MailerDies, MintQrLink, DayPasses
<1>13. CASE UNCHANGED vars
  BY <1>1, <1>13 DEF vars
<1>14. QED
  BY <1>9, <1>10, <1>11, <1>12, <1>13 DEF Next

FullInv == Inv /\ ReleasedVerified

\* Full releases and verified items go together in every reachable state.
LEMMA FullInvAlways == Spec => []FullInv
<1>1. Init => FullInv
  BY InvInitial DEF FullInv, ReleasedVerified, Init, BlankRound
<1>2. FullInv /\ [Next]_vars => FullInv'
  <2> SUFFICES ASSUME FullInv, [Next]_vars PROVE FullInv'
    OBVIOUS
  <2>1. TypeOK /\ NamesHoldPoint /\ RoundsInv
    BY DEF FullInv, Inv
  <2>2. CompletionStep /\ ReleaseStep
    BY <2>1, CompletionNext, ReleaseNext
  <2>3. ReleasedVerified'
    BY <2>2 DEF FullInv, ReleasedVerified, CompletionStep, ReleaseStep, Verified
  <2>4. QED
    BY <2>3, InvStep DEF FullInv
<1>3. QED
  BY <1>1, <1>2, PTL DEF Spec

\* executeHoldPointTokenRelease: an unconditional release leaves the checklist
\* item completed and verified, and nothing recorded later undoes it.
THEOREM FullReleasesVerified == Spec => []FullReleaseIsVerified
<1>1. FullInv => FullReleaseIsVerified
  <2> SUFFICES ASSUME FullInv, NEW h \in HoldPoints,
                      status[h] = "released", Now(h).verdict = "released"
               PROVE  completion[h] = Verified
    BY DEF FullReleaseIsVerified
  <2>1. current[h] # 0
    BY DEF FullInv, Inv, RoundsInv, StatusFollowsRound
  <2>2. current[h] \in Rounds
    BY <2>1, NowIsRound DEF FullInv, Inv
  <2>3. QED
    BY <2>2 DEF FullInv, ReleasedVerified, Now
<1>2. QED
  BY <1>1, FullInvAlways, PTL

-----------------------------------------------------------------------------
(* Reminders: no request is chased too often. *)

\* The reminders that have taken an attempt of request r and still are to use it
\* or to give it back.
Taken(h, r) ==
    {k \in Mailers : /\ mailer[k].at \in {"reserved", "sending", "refund"}
                     /\ mailer[k].hp = h /\ mailer[k].gen = r}

\* What the row lets the current request have; an earlier one has what it had.
Allowance(h, r) == IF r = sentAt[h] THEN chases[h] ELSE MaxChases

AttemptsTaken ==
    \A h \in HoldPoints, r \in Rounds :
       /\ IsFiniteSet(Taken(h, r))
       /\ reminders[h][r] + Cardinality(Taken(h, r)) <= Allowance(h, r)

\* Nobody has read of a request that is still to come, or reminded of one.
RequestsKnown ==
    /\ \A h \in HoldPoints : sentAt[h] <= current[h]
    /\ \A h \in HoldPoints, r \in Rounds : r > current[h] => reminders[h][r] = 0
    /\ \A k \in Mailers : mailer[k].at \in {"read", "reserved", "sending", "refund"} =>
         mailer[k].gen <= current[mailer[k].hp]

RefundsFollowFailures == SendsMayFail \/ \A k \in Mailers : mailer[k].at # "refund"

RemindersInv == AttemptsTaken /\ RequestsKnown /\ RefundsFollowFailures

LEMMA RemindersInitial == Init => RemindersInv
<1> SUFFICES ASSUME Init PROVE RemindersInv
  OBVIOUS
<1>1. \A h \in HoldPoints, r \in Rounds : Taken(h, r) = {}
  BY DEF Init, Taken, IdleMail
<1>2. AttemptsTaken
  <2>1. ASSUME NEW h \in HoldPoints, NEW r \in Rounds
        PROVE  reminders[h][r] = 0 /\ Allowance(h, r) = MaxChases
    BY <2>1 DEF Init, Allowance, Rounds
  <2>2. IsFiniteSet({}) /\ Cardinality({}) = 0 /\ 0 + 0 <= MaxChases
    BY FS_EmptySet, ConstantsAssumption
  <2> QED BY <1>1, <2>1, <2>2 DEF AttemptsTaken
<1>3. RequestsKnown /\ RefundsFollowFailures
  BY DEF Init, RequestsKnown, RefundsFollowFailures, IdleMail
<1> QED BY <1>2, <1>3 DEF RemindersInv

\* No attempt is taken and none of the allowance is lost.
LEMMA NoMoreTaken ==
    ASSUME TypeOK, TypeOK', AttemptsTaken,
           \A h \in HoldPoints, r \in Rounds :
              /\ Taken(h, r)' \subseteq Taken(h, r)
              /\ reminders'[h][r] = reminders[h][r]
              /\ Allowance(h, r)' >= Allowance(h, r)
    PROVE  AttemptsTaken'
<1> SUFFICES ASSUME NEW h \in HoldPoints, NEW r \in Rounds
             PROVE  /\ IsFiniteSet(Taken(h, r)')
                    /\ reminders'[h][r] + Cardinality(Taken(h, r)') <= Allowance(h, r)'
  BY DEF AttemptsTaken
<1>1. IsFiniteSet(Taken(h, r)) /\ reminders[h][r] + Cardinality(Taken(h, r)) <= Allowance(h, r)
  BY DEF AttemptsTaken
<1>2. IsFiniteSet(Taken(h, r)') /\ Cardinality(Taken(h, r)') <= Cardinality(Taken(h, r))
  BY <1>1, FS_Subset
<1>3. /\ Cardinality(Taken(h, r)) \in Nat /\ Cardinality(Taken(h, r)') \in Nat
      /\ reminders[h][r] \in Nat
  BY <1>1, <1>2, FS_CardinalityType DEF TypeOK
<1>4. Allowance(h, r) \in Nat /\ Allowance(h, r)' \in Nat
  BY ConstantsAssumption DEF TypeOK, Allowance
<1> QED BY <1>1, <1>2, <1>3, <1>4

\* The same where handlers change but for what they have taken.
LEMMA OthersTaken ==
    ASSUME NEW k \in Mailers, \A j \in Mailers \ {k} : mailer'[j] = mailer[j]
    PROVE  \A h \in HoldPoints, r \in Rounds :
             /\ Taken(h, r)' \subseteq Taken(h, r) \cup {k}
             /\ Taken(h, r) \subseteq Taken(h, r)' \cup {k}
BY DEF Taken

Untaken(m) == m.at \notin {"reserved", "sending", "refund"}

LEMMA SameTaken ==
    ASSUME NEW k \in Mailers, \A j \in Mailers \ {k} : mailer'[j] = mailer[j],
           Untaken(mailer'[k]) \/ ( /\ ~Untaken(mailer[k])
                                    /\ mailer'[k].hp = mailer[k].hp
                                    /\ mailer'[k].gen = mailer[k].gen )
    PROVE  \A h \in HoldPoints, r \in Rounds : Taken(h, r)' \subseteq Taken(h, r)
BY DEF Taken, Untaken

\* An attempt is reserved.
LEMMA ReserveKeeps ==
    ASSUME Inv, RemindersInv, TypeOK', NEW k \in Mailers, ReserveChase(k)
    PROVE  AttemptsTaken'
<1> DEFINE g == mailer[k].hp
           n == mailer[k].gen
<1>1. /\ mailer[k].at = "read" /\ g \in HoldPoints /\ n = sentAt[g] /\ n # 0
      /\ chases \in [HoldPoints -> 0..MaxChases]
      /\ reminders \in [HoldPoints -> [Rounds -> Nat]]
      /\ sentAt' = sentAt /\ reminders' = reminders
      /\ chases' = [chases EXCEPT ![g] = @ + 1]
      /\ mailer \in [Mailers -> Mail]
      /\ mailer' = [mailer EXCEPT ![k].at = "reserved"]
  BY DEF Inv, NamesHoldPoint, TypeOK, ReserveChase, Reservable
<1>2. /\ \A j \in Mailers \ {k} : mailer'[j] = mailer[j]
      /\ mailer'[k].at = "reserved" /\ mailer'[k].hp = g /\ mailer'[k].gen = n
  BY <1>1 DEF Mail
<1> HIDE DEF g, n
<1> SUFFICES ASSUME NEW h \in HoldPoints, NEW r \in Rounds
             PROVE  /\ IsFiniteSet(Taken(h, r)')
                    /\ reminders'[h][r] + Cardinality(Taken(h, r)') <= Allowance(h, r)'
  BY DEF AttemptsTaken
<1>3. /\ IsFiniteSet(Taken(h, r)) /\ Cardinality(Taken(h, r)) \in Nat
      /\ reminders[h][r] + Cardinality(Taken(h, r)) <= Allowance(h, r)
      /\ reminders[h][r] \in Nat
  BY <1>1, FS_CardinalityType DEF RemindersInv, AttemptsTaken
<1>4. CASE h = g /\ r = n
  <2>1. Taken(h, r)' = Taken(h, r) \cup {k} /\ k \notin Taken(h, r)
    BY <1>1, <1>2, <1>4 DEF Taken, g, n
  <2>2. IsFiniteSet(Taken(h, r)') /\ Cardinality(Taken(h, r)') = Cardinality(Taken(h, r)) + 1
    BY <1>3, <2>1, FS_AddElement
  <2>3. Allowance(h, r) = chases[h] /\ Allowance(h, r)' = chases[h] + 1 /\ chases[h] \in Nat
    BY <1>1, <1>4 DEF Allowance
  <2> QED BY <1>1, <1>3, <2>2, <2>3
<1>5. CASE ~(h = g /\ r = n)
  <2>1. Taken(h, r)' = Taken(h, r)
    BY <1>1, <1>2, <1>5 DEF Taken, g, n
  <2>2. Allowance(h, r)' = Allowance(h, r)
    BY <1>1, <1>5 DEF Allowance
  <2> QED BY <1>1, <1>3, <2>1, <2>2
<1> QED BY <1>4, <1>5

\* A reserved attempt is used, or given back to the request that it was taken from.
LEMMA ReturnKeeps ==
    ASSUME Inv, RemindersInv, TypeOK', NEW k \in Mailers,
           mailer[k].at \in {"sending", "refund"},
           mailer' = [mailer EXCEPT ![k] = IdleMail], sentAt' = sentAt,
           \/ /\ chases' = chases
              /\ reminders' = [reminders EXCEPT ![mailer[k].hp][mailer[k].gen] = @ + 1]
           \/ /\ reminders' = reminders
              /\ chases[mailer[k].hp] > 0
              /\ chases' = [chases EXCEPT ![mailer[k].hp] = @ - 1]
              /\ sentAt[mailer[k].hp] \in {0, mailer[k].gen}
    PROVE  AttemptsTaken'
<1> DEFINE g == mailer[k].hp
           n == mailer[k].gen
<1>1. /\ g \in HoldPoints /\ n \in Rounds
      /\ chases \in [HoldPoints -> 0..MaxChases]
      /\ reminders \in [HoldPoints -> [Rounds -> Nat]]
      /\ sentAt \in [HoldPoints -> 0..MaxRounds]
      /\ mailer \in [Mailers -> Mail]
  BY DEF Inv, NamesHoldPoint, TypeOK
<1>2. /\ \A j \in Mailers \ {k} : mailer'[j] = mailer[j]
      /\ mailer'[k].at = "idle"
  BY <1>1 DEF IdleMail
<1> SUFFICES ASSUME NEW h \in HoldPoints, NEW r \in Rounds
             PROVE  /\ IsFiniteSet(Taken(h, r)')
                    /\ reminders'[h][r] + Cardinality(Taken(h, r)') <= Allowance(h, r)'
  BY DEF AttemptsTaken
<1>3. /\ IsFiniteSet(Taken(h, r)) /\ Cardinality(Taken(h, r)) \in Nat
      /\ reminders[h][r] + Cardinality(Taken(h, r)) <= Allowance(h, r)
      /\ reminders[h][r] \in Nat /\ chases[h] \in Nat
      /\ MaxChases \in Nat
  BY <1>1, FS_CardinalityType, ConstantsAssumption DEF RemindersInv, AttemptsTaken
<1>4. CASE h = g /\ r = n
  <2>1. Taken(h, r)' = Taken(h, r) \ {k} /\ k \in Taken(h, r)
    BY <1>1, <1>2, <1>4 DEF Taken
  <2>2. /\ IsFiniteSet(Taken(h, r)')
        /\ Cardinality(Taken(h, r)') = Cardinality(Taken(h, r)) - 1
    BY <1>3, <2>1, FS_RemoveElement
  <2>3. CASE chases' = chases /\ reminders' = [reminders EXCEPT ![g][n] = @ + 1]
    <3>1. reminders'[h][r] = reminders[h][r] + 1
      BY <1>1, <1>4, <2>3
    <3>2. Allowance(h, r)' = Allowance(h, r)
      BY <2>3 DEF Allowance
    <3> QED BY <1>3, <2>2, <3>1, <3>2 DEF Allowance
  <2>4. CASE /\ reminders' = reminders
             /\ chases[g] > 0 /\ chases' = [chases EXCEPT ![g] = @ - 1]
             /\ sentAt[g] \in {0, n}
    <3>1. chases'[h] = chases[h] - 1
      BY <1>1, <1>4, <2>4
    <3> QED BY <1>3, <2>2, <2>4, <3>1 DEF Allowance
  <2> QED BY <2>3, <2>4
<1>5. CASE ~(h = g /\ r = n)
  <2>1. Taken(h, r)' = Taken(h, r)
    BY <1>1, <1>2, <1>5 DEF Taken
  <2>2. CASE chases' = chases /\ reminders' = [reminders EXCEPT ![g][n] = @ + 1]
    <3>1. reminders'[h][r] = reminders[h][r]
      BY <1>1, <1>5, <2>2
    <3> QED BY <1>3, <2>1, <2>2, <3>1 DEF Allowance
  <2>3. CASE /\ reminders' = reminders
             /\ chases[g] > 0 /\ chases' = [chases EXCEPT ![g] = @ - 1]
             /\ sentAt[g] \in {0, n}
    <3>1. Allowance(h, r)' = Allowance(h, r)
      <4>1. CASE h = g
        <5>1. r # sentAt[h]
          BY <1>5, <2>3, <4>1 DEF Rounds
        <5> QED BY <5>1 DEF Allowance
      <4>2. CASE h # g
        BY <1>1, <2>3, <4>2 DEF Allowance
      <4> QED BY <4>1, <4>2
    <3> QED BY <1>3, <2>1, <2>3, <3>1
  <2> QED BY <2>2, <2>3
<1> QED BY <1>4, <1>5

\* A new request begins with its whole allowance.
LEMMA SaveKeeps ==
    ASSUME Inv, RemindersInv, TypeOK', NEW q \in Requesters, SaveRequest(q)
    PROVE  RemindersInv'
<1> DEFINE hps == requester[q].hps
<1>1. /\ current \in [HoldPoints -> 0..MaxRounds] /\ sentAt \in [HoldPoints -> 0..MaxRounds]
      /\ chases \in [HoldPoints -> 0..MaxChases] /\ mailer \in [Mailers -> Mail]
  BY DEF Inv, TypeOK
<1>2. /\ current' = [h \in HoldPoints |-> IF h \in hps THEN current[h] + 1 ELSE current[h]]
      /\ sentAt' = [h \in HoldPoints |-> IF h \in hps THEN current[h] + 1 ELSE sentAt[h]]
      /\ chases' = [h \in HoldPoints |-> IF h \in hps THEN 0 ELSE chases[h]]
      /\ mailer' = mailer /\ reminders' = reminders
  BY DEF SaveRequest
<1>3. RequestsKnown'
  <2>1. \A h \in HoldPoints : current'[h] >= current[h] /\ sentAt'[h] <= current'[h]
    BY <1>1, <1>2 DEF RemindersInv, RequestsKnown
  <2>2. ASSUME NEW k \in Mailers, mailer[k].at \in {"read", "reserved", "sending", "refund"}
        PROVE  mailer[k].gen <= current'[mailer[k].hp]
    <3>1. mailer[k].hp \in HoldPoints /\ mailer[k].gen <= current[mailer[k].hp]
          /\ mailer[k].gen \in 0..MaxRounds
      BY <1>1, <2>2 DEF Inv, NamesHoldPoint, RemindersInv, RequestsKnown, Mail
    <3>2. current'[mailer[k].hp] \in 0..MaxRounds
      BY <3>1 DEF TypeOK
    <3> QED BY <1>1, <2>1, <3>1, <3>2
  <2>3. \A h \in HoldPoints, r \in Rounds : r > current'[h] => reminders'[h][r] = 0
    BY <1>1, <1>2, <2>1 DEF RemindersInv, RequestsKnown, Rounds, TypeOK
  <2> QED BY <1>2, <2>1, <2>2, <2>3 DEF RequestsKnown
<1>4. AttemptsTaken'
  <2> SUFFICES ASSUME NEW h \in HoldPoints, NEW r \in Rounds
               PROVE  /\ IsFiniteSet(Taken(h, r)')
                      /\ reminders'[h][r] + Cardinality(Taken(h, r)') <= Allowance(h, r)'
    BY DEF AttemptsTaken
  <2>1. /\ Taken(h, r)' = Taken(h, r)
        /\ IsFiniteSet(Taken(h, r)) /\ Cardinality(Taken(h, r)) \in Nat
        /\ reminders[h][r] + Cardinality(Taken(h, r)) <= Allowance(h, r)
        /\ reminders[h][r] \in Nat
    BY <1>2, FS_CardinalityType DEF RemindersInv, AttemptsTaken, Taken, Inv, TypeOK
  <2>2. CASE h \in hps /\ r = current[h] + 1
    <3>1. Taken(h, r) = {}
      BY <1>1, <2>2 DEF Taken, RemindersInv, RequestsKnown, Mail
    <3>2. reminders[h][r] = 0
      BY <1>1, <2>2 DEF RemindersInv, RequestsKnown
    <3>3. Allowance(h, r)' = 0
      BY <1>2, <2>2 DEF Allowance
    <3> QED BY <1>2, <2>1, <3>1, <3>2, <3>3, FS_EmptySet
  <2>3. CASE ~(h \in hps /\ r = current[h] + 1)
    <3>1. Allowance(h, r)' >= Allowance(h, r) /\ Allowance(h, r) \in Nat
          /\ Allowance(h, r)' \in Nat
      BY <1>1, <1>2, <2>3, ConstantsAssumption DEF Allowance
    <3> QED BY <1>2, <2>1, <3>1
  <2> QED BY <2>2, <2>3
<1>5. RefundsFollowFailures'
  BY <1>2 DEF RemindersInv, RefundsFollowFailures
<1> QED BY <1>3, <1>4, <1>5 DEF RemindersInv

\* Withdrawn or rejected: the row forgets its request.
LEMMA ReopenKeeps ==
    ASSUME Inv, RemindersInv, TypeOK', NEW h \in HoldPoints, Reopen(h),
           UNCHANGED <<mailer, reminders>>
    PROVE  RemindersInv'
<1>1. /\ sentAt' = [sentAt EXCEPT ![h] = 0] /\ chases' = [chases EXCEPT ![h] = 0]
      /\ current' = current
      /\ chases \in [HoldPoints -> 0..MaxChases]
      /\ sentAt \in [HoldPoints -> 0..MaxRounds] /\ current \in [HoldPoints -> 0..MaxRounds]
  BY DEF Reopen, Inv, TypeOK
<1>2. \A g \in HoldPoints, r \in Rounds : Allowance(g, r)' >= Allowance(g, r)
  BY <1>1, ConstantsAssumption DEF Allowance, Rounds
<1>3. AttemptsTaken'
  BY <1>2, NoMoreTaken DEF RemindersInv, Inv, Taken
<1>4. RequestsKnown' /\ RefundsFollowFailures'
  BY <1>1 DEF RemindersInv, RequestsKnown, RefundsFollowFailures
<1> QED BY <1>3, <1>4 DEF RemindersInv

\* A handler moves on without reserving or using anything.
LEMMA QuietMailer ==
    ASSUME Inv, RemindersInv, TypeOK', NEW k \in Mailers,
           UNCHANGED <<current, sentAt, chases, reminders>>,
           \A j \in Mailers \ {k} : mailer'[j] = mailer[j],
           \/ mailer'[k].at \in {"idle", "linking"}
           \/ mailer'[k].at = "read" /\ mailer'[k].gen <= current[mailer'[k].hp]
           \/ /\ mailer[k].at \in {"reserved", "sending"}
              /\ mailer'[k].at = "sending" \/ (SendsMayFail /\ mailer'[k].at = "refund")
              /\ mailer'[k].hp = mailer[k].hp /\ mailer'[k].gen = mailer[k].gen
    PROVE  RemindersInv'
<1>1. \A h \in HoldPoints, r \in Rounds : Taken(h, r)' \subseteq Taken(h, r)
  BY SameTaken DEF Untaken
<1>2. \A h \in HoldPoints, r \in Rounds :
        /\ reminders'[h][r] = reminders[h][r]
        /\ Allowance(h, r)' = Allowance(h, r) /\ Allowance(h, r) \in Nat
  BY ConstantsAssumption DEF Allowance, Inv, TypeOK
<1>3. AttemptsTaken'
  BY <1>1, <1>2, NoMoreTaken DEF RemindersInv, Inv
<1>4. RequestsKnown' /\ RefundsFollowFailures'
  BY DEF RemindersInv, RequestsKnown, RefundsFollowFailures
<1> QED BY <1>3, <1>4 DEF RemindersInv

\* Refunds do no harm where every request is the only one, and there are none
\* where the provider refuses nothing.
Refunds == SendsMayFail => MaxRounds = 1

LEMMA RemindersMail ==
    ASSUME Refunds, Inv, RemindersInv, TypeOK', MailStep
    PROVE  RemindersInv'
<1>0. /\ mailer \in [Mailers -> Mail] /\ current \in [HoldPoints -> 0..MaxRounds]
      /\ sentAt \in [HoldPoints -> 0..MaxRounds] /\ chases \in [HoldPoints -> 0..MaxChases]
  BY DEF Inv, TypeOK
<1>1. ASSUME NEW k \in Mailers, NEW h \in HoldPoints, ReadForChase(k, h)
      PROVE  RemindersInv'
  <2>1. /\ \A j \in Mailers \ {k} : mailer'[j] = mailer[j]
        /\ mailer'[k].at = "read" /\ mailer'[k].hp = h /\ mailer'[k].gen = sentAt[h]
        /\ UNCHANGED <<current, sentAt, chases, reminders>>
    BY <1>0, <1>1 DEF ReadForChase, rowVars
  <2>2. sentAt[h] <= current[h]
    BY DEF RemindersInv, RequestsKnown
  <2> QED BY <2>1, <2>2, QuietMailer
<1>2. ASSUME NEW k \in Mailers, NEW h \in HoldPoints, ReadForQrLink(k, h)
      PROVE  RemindersInv'
  <2>1. /\ \A j \in Mailers \ {k} : mailer'[j] = mailer[j]
        /\ mailer'[k].at = "linking"
        /\ UNCHANGED <<current, sentAt, chases, reminders>>
    BY <1>0, <1>2 DEF ReadForQrLink, rowVars, IdleMail
  <2> QED BY <2>1, QuietMailer
<1>3. ASSUME NEW k \in Mailers,
             \/ RefuseChase(k) \/ ChaseSuppressed(k) \/ MailerDies(k) \/ MintQrLink(k)
      PROVE  RemindersInv'
  <2>1. /\ \A j \in Mailers \ {k} : mailer'[j] = mailer[j]
        /\ mailer'[k].at = "idle"
        /\ UNCHANGED <<current, sentAt, chases, reminders>>
    BY <1>0, <1>3 DEF RefuseChase, ChaseSuppressed, MailerDies, MintQrLink, rowVars, IdleMail
  <2> QED BY <2>1, QuietMailer
<1>4. ASSUME NEW k \in Mailers, MintChaseLink(k) PROVE RemindersInv'
  <2>1. PICK t \in FreeLinks : mailer' = [mailer EXCEPT ![k].at = "sending", ![k].fresh = t]
    BY <1>4 DEF MintChaseLink
  <2>2. /\ \A j \in Mailers \ {k} : mailer'[j] = mailer[j]
        /\ mailer'[k].at = "sending"
        /\ mailer'[k].hp = mailer[k].hp /\ mailer'[k].gen = mailer[k].gen
    BY <1>0, <2>1 DEF Mail
  <2>3. mailer[k].at = "reserved" /\ UNCHANGED <<current, sentAt, chases, reminders>>
    BY <1>4 DEF MintChaseLink, rowVars
  <2> QED BY <2>2, <2>3, QuietMailer
<1>5. ASSUME NEW k \in Mailers, ChaseFails(k) PROVE RemindersInv'
  <2>1. mailer' = [mailer EXCEPT ![k].at = "refund"]
    BY <1>5 DEF ChaseFails
  <2>2. /\ \A j \in Mailers \ {k} : mailer'[j] = mailer[j]
        /\ mailer'[k].at = "refund"
        /\ mailer'[k].hp = mailer[k].hp /\ mailer'[k].gen = mailer[k].gen
    BY <1>0, <2>1 DEF Mail
  <2>3. SendsMayFail /\ mailer[k].at \in {"reserved", "sending"}
        /\ UNCHANGED <<current, sentAt, chases, reminders>>
    BY <1>5 DEF ChaseFails, rowVars
  <2> QED BY <2>2, <2>3, QuietMailer
<1>6. ASSUME NEW k \in Mailers, ReserveChase(k) PROVE RemindersInv'
  <2>1. AttemptsTaken'
    BY <1>6, ReserveKeeps
  <2>2. /\ \A j \in Mailers \ {k} : mailer'[j] = mailer[j]
        /\ mailer[k].at = "read" /\ mailer'[k].at = "reserved"
        /\ mailer'[k].hp = mailer[k].hp /\ mailer'[k].gen = mailer[k].gen
        /\ UNCHANGED <<current, sentAt, reminders>>
    BY <1>0, <1>6 DEF ReserveChase, Mail
  <2>3. RequestsKnown' /\ RefundsFollowFailures'
    BY <2>2 DEF RemindersInv, RequestsKnown, RefundsFollowFailures
  <2> QED BY <2>1, <2>3 DEF RemindersInv
<1>7. ASSUME NEW k \in Mailers, ChaseDelivered(k) PROVE RemindersInv'
  <2> DEFINE g == mailer[k].hp
             n == mailer[k].gen
  <2>1. /\ mailer[k].at = "sending" /\ mailer' = [mailer EXCEPT ![k] = IdleMail]
        /\ reminders' = [reminders EXCEPT ![g][n] = @ + 1]
        /\ UNCHANGED <<current, sentAt, chases>>
    BY <1>7 DEF ChaseDelivered, rowVars
  <2>2. AttemptsTaken'
    BY <2>1, ReturnKeeps
  <2>3. /\ \A j \in Mailers \ {k} : mailer'[j] = mailer[j]
        /\ mailer'[k].at = "idle"
    BY <1>0, <2>1 DEF IdleMail
  <2>4. g \in HoldPoints /\ n \in Rounds /\ n <= current[g]
    BY <2>1 DEF Inv, NamesHoldPoint, RemindersInv, RequestsKnown
  <2>5. \A h \in HoldPoints, r \in Rounds :
          reminders'[h][r] = IF h = g /\ r = n THEN reminders[h][r] + 1 ELSE reminders[h][r]
    BY <2>1, <2>4 DEF Inv, TypeOK
  <2> HIDE DEF g, n
  <2>6. RequestsKnown' /\ RefundsFollowFailures'
    BY <1>0, <2>1, <2>3, <2>4, <2>5 DEF RemindersInv, RequestsKnown, RefundsFollowFailures, Rounds
  <2> QED BY <2>2, <2>6 DEF RemindersInv
<1>8. ASSUME NEW k \in Mailers, RefundChase(k) PROVE RemindersInv'
  <2> DEFINE g == mailer[k].hp
  <2>1. /\ mailer[k].at = "refund" /\ mailer' = [mailer EXCEPT ![k] = IdleMail]
        /\ UNCHANGED <<current, sentAt, reminders>>
        /\ \/ chases[g] > 0 /\ chases' = [chases EXCEPT ![g] = @ - 1]
           \/ chases' = chases
    BY <1>8 DEF RefundChase
  <2>2. /\ \A j \in Mailers \ {k} : mailer'[j] = mailer[j]
        /\ mailer'[k].at = "idle"
    BY <1>0, <2>1 DEF IdleMail
  <2>3. CASE chases' = chases
    BY <2>1, <2>2, <2>3, QuietMailer
  <2>4. CASE chases[g] > 0 /\ chases' = [chases EXCEPT ![g] = @ - 1]
    <3>1. MaxRounds = 1
      BY <2>1 DEF RemindersInv, RefundsFollowFailures, Refunds
    <3>2. sentAt[g] \in {0, mailer[k].gen}
      BY <1>0, <2>1, <3>1 DEF Inv, NamesHoldPoint, Rounds
    <3>3. AttemptsTaken'
      BY <2>1, <2>4, <3>2, ReturnKeeps
    <3>4. RequestsKnown' /\ RefundsFollowFailures'
      BY <2>1, <2>2 DEF RemindersInv, RequestsKnown, RefundsFollowFailures
    <3> QED BY <3>3, <3>4 DEF RemindersInv
  <2> QED BY <2>1, <2>3, <2>4
<1>9. CASE DayPasses
  <2>1. /\ UNCHANGED <<current, sentAt, chases, reminders>>
        /\ mailer' = [k \in Mailers |-> [mailer[k] EXCEPT !.cooled = TRUE]]
    BY <1>9 DEF DayPasses
  <2>2. \A k \in Mailers : /\ mailer'[k].at = mailer[k].at /\ mailer'[k].hp = mailer[k].hp
                            /\ mailer'[k].gen = mailer[k].gen
    BY <1>0, <2>1 DEF Mail
  <2>3. \A h \in HoldPoints, r \in Rounds :
          Taken(h, r)' = Taken(h, r) /\ Allowance(h, r)' = Allowance(h, r)
    BY <2>1, <2>2 DEF Taken, Allowance
  <2>4. AttemptsTaken'
    BY <2>1, <2>3 DEF RemindersInv, AttemptsTaken
  <2>5. RequestsKnown' /\ RefundsFollowFailures'
    BY <2>1, <2>2 DEF RemindersInv, RequestsKnown, RefundsFollowFailures
  <2> QED BY <2>4, <2>5 DEF RemindersInv
<1> QED BY <1>1, <1>2, <1>3, <1>4, <1>5, <1>6, <1>7, <1>8, <1>9 DEF MailStep

LEMMA RemindersStep ==
    ASSUME Refunds, Inv, RemindersInv, TypeOK', [Next]_vars
    PROVE  RemindersInv'
<1>1. CASE UNCHANGED <<current, sentAt, chases, mailer, reminders>>
  BY <1>1 DEF RemindersInv, AttemptsTaken, Taken, Allowance, RequestsKnown, RefundsFollowFailures
<1>2. CASE RequestStep
  <2>1. ASSUME NEW q \in Requesters, NEW hps, NEW batch, CheckRequest(q, hps, batch) \/ DropRequest(q)
        PROVE  RemindersInv'
    BY <1>1, <2>1 DEF CheckRequest, DropRequest, rowVars
  <2> QED BY <1>2, <2>1, SaveKeeps DEF RequestStep
<1>3. CASE DecisionStep
  <2>1. ASSUME NEW h \in HoldPoints, WithdrawRequest(h) PROVE RemindersInv'
    BY <2>1, ReopenKeeps DEF WithdrawRequest, processVars
  <2>2. ASSUME NEW t \in Links, RejectByLink(t) PROVE RemindersInv'
    <3>1. link[t].hp \in HoldPoints
      BY <2>2 DEF RejectByLink, LinkDecides, Inv, NamesHoldPoint
    <3> QED BY <2>2, <3>1, ReopenKeeps DEF RejectByLink, processVars
  <2>3. ASSUME NEW h \in HoldPoints, ReleaseInApp(h) PROVE RemindersInv'
    BY <1>1, <2>3 DEF ReleaseInApp, processVars
  <2>4. ASSUME NEW t \in Links, NEW conds,
               ReleaseWithConditions(t, conds) \/ ExpireLink(t) \/ PurgeLink(t)
        PROVE  RemindersInv'
    BY <1>1, <2>4 DEF ReleaseWithConditions, ExpireLink, PurgeLink, rowVars, processVars
  <2>5. ASSUME NEW S, ReleaseByLinks(S) PROVE RemindersInv'
    BY <1>1, <2>5 DEF ReleaseByLinks, processVars
  <2> QED BY <1>3, <2>1, <2>2, <2>3, <2>4, <2>5 DEF DecisionStep, ReleaseByLink, ReleaseRoom
<1>4. CASE SiteStep
  BY <1>1, <1>4 DEF SiteStep, CloseNcr, ReopenNcr, RecordResult, CountOthers, CloseCondition,
                    DropCondition, rowVars, processVars
<1>5. CASE MailStep
  BY <1>5, RemindersMail
<1>6. CASE UNCHANGED vars
  BY <1>1, <1>6 DEF vars, rowVars, processVars
<1> QED BY <1>2, <1>3, <1>4, <1>5, <1>6 DEF Next

\* No request is chased more than MAX_CHASES_PER_REQUEST times, however many
\* senders read, reserve and send at once, as long as a failed reminder cannot
\* give its attempt back to a later request: rollbackHoldPointChase does not ask
\* which request it belongs to.
THEOREM RemindersStayCapped ==
    ASSUME SendsMayFail => MaxRounds = 1
    PROVE  Spec => []RemindersCapped
<1>1. Refunds
  BY DEF Refunds
<1>2. Inv /\ RemindersInv /\ [Next]_vars => RemindersInv'
  <2>1. Inv /\ [Next]_vars => TypeOK'
    BY InvStep DEF Inv
  <2> QED BY <1>1, <2>1, RemindersStep
<1>3. Inv /\ RemindersInv => RemindersCapped
  <2> SUFFICES ASSUME Inv, RemindersInv, NEW h \in HoldPoints, NEW r \in Rounds
               PROVE  reminders[h][r] <= MaxChases
    BY DEF RemindersCapped
  <2>1. /\ Cardinality(Taken(h, r)) \in Nat
        /\ reminders[h][r] + Cardinality(Taken(h, r)) <= Allowance(h, r)
        /\ reminders[h][r] \in Nat
    BY FS_CardinalityType DEF RemindersInv, AttemptsTaken, Inv, TypeOK
  <2>2. Allowance(h, r) \in 0..MaxChases
    BY ConstantsAssumption DEF Allowance, Inv, TypeOK
  <2> QED BY <2>1, <2>2, ConstantsAssumption
<1> QED BY <1>2, <1>3, RemindersInitial, InvAlways, PTL DEF Spec

-----------------------------------------------------------------------------
(* Conditions: whoever closes the last one verifies the item. *)

Conditional(h) == status[h] = "released" /\ Now(h).verdict = "conditional"

Counting(c, h) == closer[c].at = "counted" /\ closer[c].hp = h

\* One closing at a time holds the round, and what it counted still stands; an
\* undecided round has no condition met.
ConditionsInv(h) ==
    /\ \A c \in Closers : Counting(c, h) =>
          /\ Conditional(h)
          /\ closer[c].last <=> OpenConditions(h) \subseteq closer[c].cond
    /\ \A c, d \in Closers : Counting(c, h) /\ Counting(d, h) => c = d
    /\ Conditional(h) /\ OpenConditions(h) = {} => completion[h].verified
    /\ \A r \in Rounds : rounds[h][r].verdict = "none" => rounds[h][r].met = {}

ConditionsCounted == \A h \in HoldPoints : ConditionsInv(h)

\* Nothing changes for the hold point but that its item may be verified.
LEMMA UndisturbedConditions ==
    ASSUME Inv, NEW h \in HoldPoints, ConditionsInv(h),
           status'[h] = status[h], current'[h] = current[h],
           \A r \in Rounds : /\ rounds'[h][r].verdict = rounds[h][r].verdict
                             /\ rounds'[h][r].conds = rounds[h][r].conds
                             /\ rounds'[h][r].met = rounds[h][r].met,
           \A c \in Closers : Counting(c, h)' => closer'[c] = closer[c],
           completion[h].verified => completion'[h].verified
    PROVE  ConditionsInv(h)'
<1>1. CASE status[h] = "released"
  <2>1. current[h] \in Rounds
    BY <1>1, ConstantsAssumption DEF Inv, RoundsInv, StatusFollowsRound, TypeOK, Rounds
  <2> QED BY <2>1 DEF ConditionsInv, Conditional, Counting, OpenConditions, Now
<1>2. CASE status[h] # "released"
  BY <1>2 DEF ConditionsInv, Conditional, Counting
<1> QED BY <1>1, <1>2

\* The hold point was not released, so nobody is closing its conditions.
LEMMA NewDecision ==
    ASSUME NEW h \in HoldPoints, ConditionsInv(h), status[h] # "released", UNCHANGED closer,
           \A r \in Rounds : rounds'[h][r].verdict = "none" => rounds'[h][r].met = {},
           Conditional(h)' => OpenConditions(h)' # {}
    PROVE  ConditionsInv(h)'
BY DEF ConditionsInv, Conditional, Counting

\* The round that may be decided is decided, or withdrawn.
LEMMA OneDecision ==
    ASSUME Inv, ConditionsCounted, NEW h \in HoldPoints, NEW new,
           DecisionEligible(h, current[h]), UNCHANGED <<closer, current>>,
           \A g \in HoldPoints \ {h} :
              status'[g] = status[g] /\ (completion[g].verified => completion'[g].verified),
           rounds' = [rounds EXCEPT ![h][current[h]] = new],
           new.verdict = "none" => new.met = {},
           new.verdict = "conditional" => new.conds \ new.met # {}
    PROVE  ConditionsCounted'
<1>1. rounds \in [HoldPoints -> [Rounds -> Round]] /\ current[h] \in Rounds
      /\ status[h] # "released"
  BY EligibleRound DEF Inv, TypeOK, RoundsInv
<1>2. /\ \A g \in HoldPoints \ {h} : rounds'[g] = rounds[g]
      /\ \A r \in Rounds : rounds'[h][r] = IF r = current[h] THEN new ELSE rounds[h][r]
  BY <1>1
<1>3. ASSUME NEW g \in HoldPoints \ {h} PROVE ConditionsInv(g)'
  BY <1>2, UndisturbedConditions DEF ConditionsCounted
<1>4. ConditionsInv(h)'
  <2>1. Conditional(h)' => OpenConditions(h)' # {}
    BY <1>1, <1>2 DEF Conditional, OpenConditions, Now
  <2>2. \A r \in Rounds : rounds'[h][r].verdict = "none" => rounds'[h][r].met = {}
    BY <1>2 DEF ConditionsCounted, ConditionsInv
  <2> QED BY <1>1, <2>1, <2>2, NewDecision DEF ConditionsCounted
<1> QED BY <1>3, <1>4 DEF ConditionsCounted

LEMMA ConditionsInitial == Init => ConditionsCounted
BY DEF Init, ConditionsCounted, ConditionsInv, Conditional, Counting, IdleCloser, BlankRound

\* Steps that touch neither rounds nor closings, and undo no verification.
LEMMA ElsewhereConditions ==
    ASSUME Inv, ConditionsCounted, UNCHANGED <<status, current, rounds, closer>>,
           \A h \in HoldPoints : completion[h].verified => completion'[h].verified
    PROVE  ConditionsCounted'
BY UndisturbedConditions DEF ConditionsCounted

LEMMA ConditionsRequest ==
    ASSUME Inv, ConditionsCounted, NEW q \in Requesters, SaveRequest(q)
    PROVE  ConditionsCounted'
<1> DEFINE hps == requester[q].hps
<1>1. hps \subseteq HoldPoints /\ rounds \in [HoldPoints -> [Rounds -> Round]]
  BY DEF Inv, TypeOK, Request
<1>2. ASSUME NEW h \in HoldPoints, h \in hps PROVE ConditionsInv(h)'
  <2> DEFINE new == [BlankRound EXCEPT !.answered = h \in requester[q].answers]
  <2>1. /\ status[h] # "released" /\ status'[h] = "notified" /\ closer' = closer
        /\ rounds'[h] = [rounds[h] EXCEPT ![current[h] + 1] = new]
    BY <1>2 DEF SaveRequest
  <2>2. new.met = {}
    BY DEF BlankRound
  <2> HIDE DEF new
  <2>3. \A r \in Rounds : rounds'[h][r] = new \/ rounds'[h][r] = rounds[h][r]
    BY <1>1, <2>1
  <2>4. \A r \in Rounds : rounds'[h][r].verdict = "none" => rounds'[h][r].met = {}
    BY <2>2, <2>3 DEF ConditionsCounted, ConditionsInv
  <2>5. ~Conditional(h)'
    BY <2>1 DEF Conditional
  <2> QED BY <2>1, <2>4, <2>5, NewDecision DEF ConditionsCounted
<1>3. ASSUME NEW h \in HoldPoints, h \notin hps PROVE ConditionsInv(h)'
  <2>1. /\ status'[h] = status[h] /\ current'[h] = current[h] /\ rounds'[h] = rounds[h]
        /\ UNCHANGED <<completion, closer>>
    BY <1>3 DEF SaveRequest
  <2> QED BY <2>1, UndisturbedConditions DEF ConditionsCounted
<1> QED BY <1>2, <1>3 DEF ConditionsCounted

LEMMA ConditionsDecided ==
    ASSUME Inv, ConditionsCounted, DecisionStep
    PROVE  ConditionsCounted'
<1>0. /\ rounds \in [HoldPoints -> [Rounds -> Round]] /\ status \in [HoldPoints -> Statuses]
      /\ completion \in [HoldPoints -> [status : Results, verified : BOOLEAN]]
      /\ StatusFollowsRound /\ TypeOK
  BY DEF Inv, TypeOK, RoundsInv
<1>1. ASSUME NEW h \in HoldPoints, WithdrawRequest(h) PROVE ConditionsCounted'
  <2> DEFINE new == [Now(h) EXCEPT !.withdrawn = TRUE]
  <2>1. DecisionEligible(h, current[h]) /\ Now(h) \in Round /\ current[h] \in Rounds
        /\ Now(h).verdict = "none"
    BY <1>0, <1>1, EligibleRound DEF WithdrawRequest
  <2>2. /\ status' = [status EXCEPT ![h] = "pending"]
        /\ UNCHANGED <<current, completion, closer>>
        /\ rounds' = [rounds EXCEPT ![h][current[h]] = new]
    BY <1>1 DEF WithdrawRequest, Reopen, Now, processVars
  <2>3. new.verdict = "none" /\ new.met = {}
    BY <2>1 DEF Round, ConditionsCounted, ConditionsInv, Now
  <2> HIDE DEF new
  <2> QED BY <1>0, <2>1, <2>2, <2>3, OneDecision
<1>2. ASSUME NEW h \in HoldPoints, ReleaseInApp(h) PROVE ConditionsCounted'
  <2> DEFINE new == Decided(h, "released", "in_app")
  <2>1. DecisionEligible(h, current[h]) /\ Now(h) \in Round
    BY <1>0, <1>2, EligibleRound DEF ReleaseInApp
  <2>2. /\ status' = [status EXCEPT ![h] = "released"] /\ UNCHANGED <<current, closer>>
        /\ completion' = [completion EXCEPT ![h] = Verified]
        /\ rounds' = [rounds EXCEPT ![h][current[h]] = new]
    BY <1>2 DEF ReleaseInApp, processVars
  <2>3. new.verdict = "released"
    BY <2>1 DEF Round, Decided
  <2> HIDE DEF new
  <2> QED BY <1>0, <2>1, <2>2, <2>3, OneDecision
<1>3. ASSUME NEW t \in Links, LinkDecides(t)
      PROVE  /\ link[t].hp \in HoldPoints
             /\ DecisionEligible(link[t].hp, current[link[t].hp])
             /\ Now(link[t].hp) \in Round /\ current[link[t].hp] \in Rounds
             /\ Now(link[t].hp).verdict = "none"
  <2>1. link[t].hp \in HoldPoints
    BY <1>3 DEF LinkDecides, Inv, NamesHoldPoint
  <2> QED BY <1>0, <1>3, <2>1, EligibleRound DEF LinkDecides
<1>4. ASSUME NEW t \in Links, RejectByLink(t) PROVE ConditionsCounted'
  <2> DEFINE h == link[t].hp
             new == [Decided(h, "rejected", t) EXCEPT !.ncr = "open"]
  <2>1. h \in HoldPoints /\ DecisionEligible(h, current[h]) /\ Now(h) \in Round
    BY <1>3, <1>4 DEF RejectByLink
  <2>2. /\ status' = [status EXCEPT ![h] = "pending"]
        /\ UNCHANGED <<current, completion, closer>>
        /\ rounds' = [rounds EXCEPT ![h][current[h]] = new]
    BY <1>4 DEF RejectByLink, Reopen, processVars
  <2>3. new.verdict = "rejected"
    BY <2>1 DEF Round, Decided
  <2> HIDE DEF new, h
  <2> QED BY <1>0, <2>1, <2>2, <2>3, OneDecision
<1>5. ASSUME NEW t \in Links, NEW conds \in SUBSET Conditions, conds # {},
             ReleaseWithConditions(t, conds)
      PROVE  ConditionsCounted'
  <2> DEFINE h == link[t].hp
             new == [Decided(h, "conditional", t) EXCEPT !.conds = conds]
  <2>1. h \in HoldPoints /\ DecisionEligible(h, current[h]) /\ Now(h) \in Round
        /\ current[h] \in Rounds /\ Now(h).verdict = "none"
    BY <1>3, <1>5 DEF ReleaseWithConditions
  <2>2. /\ status' = [status EXCEPT ![h] = "released"]
        /\ completion' = [completion EXCEPT ![h].status = "completed"]
        /\ UNCHANGED <<current, closer>>
        /\ rounds' = [rounds EXCEPT ![h][current[h]] = new]
    BY <1>5 DEF ReleaseWithConditions, processVars
  <2>3. new.verdict = "conditional" /\ new.conds = conds /\ new.met = Now(h).met
    BY <2>1 DEF Round, Decided
  <2>4. Now(h).met = {}
    BY <2>1 DEF ConditionsCounted, ConditionsInv, Now
  <2> HIDE DEF new, h
  <2> QED BY <1>0, <1>5, <2>1, <2>2, <2>3, <2>4, OneDecision
<1>6. ASSUME NEW S \in SUBSET Links, ReleaseByLinks(S) PROVE ConditionsCounted'
  <2> DEFINE hps == {link[t].hp : t \in S}
             linkOf(h) == CHOOSE t \in S : link[t].hp = h
  <2>1. ASSUME NEW h \in HoldPoints, h \in hps PROVE ConditionsInv(h)'
    <3> DEFINE new == Decided(h, "released", linkOf(h))
    <3>1. PICK t \in S : link[t].hp = h
      BY <2>1
    <3>2. LinkDecides(t)
      BY <1>6 DEF ReleaseByLinks
    <3>3. Now(h) \in Round /\ current[h] \in Rounds /\ status[h] = "notified"
      BY <1>3, <3>1, <3>2 DEF DecisionEligible
    <3>4. rounds'[h] = [rounds[h] EXCEPT ![current[h]] = new] /\ UNCHANGED <<closer, current>>
      BY <1>6, <2>1 DEF ReleaseByLinks, processVars
    <3>5. new.verdict = "released"
      BY <3>3 DEF Round, Decided
    <3> HIDE DEF new
    <3>6. \A r \in Rounds : rounds'[h][r] = IF r = current[h] THEN new ELSE rounds[h][r]
      BY <1>0, <3>4
    <3>7. ~Conditional(h)'
      BY <3>3, <3>4, <3>5, <3>6 DEF Conditional, Now
    <3> QED BY <3>3, <3>4, <3>5, <3>6, <3>7, NewDecision DEF ConditionsCounted, ConditionsInv
  <2>2. ASSUME NEW h \in HoldPoints, h \notin hps PROVE ConditionsInv(h)'
    BY <1>6, <2>2, UndisturbedConditions DEF ReleaseByLinks, processVars, ConditionsCounted
  <2> QED BY <2>1, <2>2 DEF ConditionsCounted
<1>7. ASSUME NEW t \in Links, ExpireLink(t) \/ PurgeLink(t) PROVE ConditionsCounted'
  <2>1. UNCHANGED <<status, current, rounds, completion, closer>>
    BY <1>7 DEF ExpireLink, PurgeLink, rowVars, processVars
  <2> QED BY <2>1, ElsewhereConditions
<1> QED BY <1>1, <1>2, <1>4, <1>5, <1>6, <1>7 DEF DecisionStep, ReleaseByLink, ReleaseRoom

LEMMA WhatWasCounted ==
    ASSUME NEW h, NEW x, NEW b \in BOOLEAN, NEW m,
           m = [at |-> "counted", hp |-> h, cond |-> {x}, last |-> b]
    PROVE  m.last <=> b
OBVIOUS

LEMMA ConditionsOnSite ==
    ASSUME Inv, ConditionsCounted, SiteStep
    PROVE  ConditionsCounted'
<1>0. /\ rounds \in [HoldPoints -> [Rounds -> Round]] /\ closer \in [Closers -> Closing]
      /\ completion \in [HoldPoints -> [status : Results, verified : BOOLEAN]]
      /\ StatusFollowsRound /\ TypeOK
  BY DEF Inv, TypeOK, RoundsInv
<1>1. ASSUME NEW h \in HoldPoints, NEW r \in Rounds, CloseNcr(h, r) \/ ReopenNcr(h, r)
      PROVE  ConditionsCounted'
  <2>1. PICK x \in {"open", "closed"} :
          /\ rounds' = [rounds EXCEPT ![h][r].ncr = x]
          /\ UNCHANGED <<status, current, completion, closer>>
    BY <1>1 DEF CloseNcr, ReopenNcr, rowVars, processVars
  <2>2. ASSUME NEW g \in HoldPoints, NEW q \in Rounds
        PROVE  /\ rounds'[g][q].verdict = rounds[g][q].verdict
               /\ rounds'[g][q].conds = rounds[g][q].conds
               /\ rounds'[g][q].met = rounds[g][q].met
    BY <1>0, <2>1 DEF Round
  <2> QED BY <2>1, <2>2, UndisturbedConditions DEF ConditionsCounted
<1>2. ASSUME NEW h \in HoldPoints, NEW result \in Recorded, RecordResult(h, result)
      PROVE  ConditionsCounted'
  <2>1. UNCHANGED <<status, current, rounds, closer>>
    BY <1>2 DEF RecordResult, rowVars, processVars
  <2>2. \A g \in HoldPoints : completion[g].verified => completion'[g].verified
    BY <1>0, <1>2 DEF RecordResult
  <2> QED BY <2>1, <2>2, ElsewhereConditions
<1>3. ASSUME NEW c \in Closers, NEW h \in HoldPoints, NEW x \in Conditions, CountOthers(c, h, x)
      PROVE  ConditionsCounted'
  <2>1. /\ closer'[c] = [at |-> "counted", hp |-> h, cond |-> {x}, last |-> OpenConditions(h) = {x}]
        /\ \A d \in Closers \ {c} : closer'[d] = closer[d]
        /\ UNCHANGED <<status, current, rounds, completion>>
        /\ x \in OpenConditions(h) /\ Conditional(h)
        /\ \A d \in Closers : closer[d].hp # h
    BY <1>0, <1>3 DEF CountOthers, rowVars, Conditional
  <2>2. ConditionsInv(h)'
    <3>1. OpenConditions(h)' = OpenConditions(h) /\ (Conditional(h)' <=> Conditional(h))
      BY <2>1 DEF OpenConditions, Conditional, Now
    <3>2. \A d \in Closers : Counting(d, h)' => d = c
      BY <2>1 DEF Counting
    <3>3. closer'[c].last <=> OpenConditions(h) \subseteq closer'[c].cond
      <4>1. closer'[c].last <=> OpenConditions(h) = {x}
        <5> DEFINE b == OpenConditions(h) = {x}
                   m == closer'[c]
        <5>1. b \in BOOLEAN
          OBVIOUS
        <5>2. m = [at |-> "counted", hp |-> h, cond |-> {x}, last |-> b]
          BY <2>1
        <5> HIDE DEF b, m
        <5>3. m.last <=> b
          BY <5>1, <5>2, WhatWasCounted
        <5> QED BY <5>3 DEF b, m
      <4>2. closer'[c].cond = {x}
        BY <2>1
      <4> QED BY <2>1, <4>1, <4>2
    <3> QED BY <2>1, <3>1, <3>2, <3>3 DEF ConditionsInv, ConditionsCounted
  <2>3. ASSUME NEW g \in HoldPoints \ {h} PROVE ConditionsInv(g)'
    BY <2>1, UndisturbedConditions DEF ConditionsCounted, Counting
  <2> QED BY <2>2, <2>3 DEF ConditionsCounted
<1>4. ASSUME NEW c \in Closers, DropCondition(c) PROVE ConditionsCounted'
  <2>1. closer'[c].at = "idle" /\ \A d \in Closers \ {c} : closer'[d] = closer[d]
    BY <1>0, <1>4 DEF DropCondition, IdleCloser
  <2>2. UNCHANGED <<status, current, rounds, completion>>
    BY <1>4 DEF DropCondition, rowVars
  <2> QED BY <2>1, <2>2, UndisturbedConditions DEF ConditionsCounted, Counting
<1>5. ASSUME NEW c \in Closers, CloseCondition(c) PROVE ConditionsCounted'
  <2>a. PICK h \in HoldPoints : h = closer[c].hp
    BY <1>5 DEF CloseCondition, Inv, NamesHoldPoint
  <2>1. Counting(c, h) /\ Conditional(h) /\ current[h] \in Rounds
    <3>1. closer[c].at = "counted"
      BY <1>5 DEF CloseCondition
    <3>2. h = closer[c].hp
      BY <2>a
    <3>3. Counting(c, h) /\ Conditional(h)
      BY <3>1, <3>2 DEF Counting, ConditionsCounted, ConditionsInv
    <3>4. current[h] # 0
      BY <1>0, <3>3 DEF Conditional, StatusFollowsRound
    <3> QED BY <1>0, <3>3, <3>4, NowIsRound
  <2>2. /\ rounds' = [rounds EXCEPT ![h][current[h]].met = @ \cup closer[c].cond]
        /\ closer'[c].at = "idle" /\ \A d \in Closers \ {c} : closer'[d] = closer[d]
        /\ UNCHANGED <<status, current>>
        /\ completion' = IF closer[c].last THEN [completion EXCEPT ![h].verified = TRUE]
                         ELSE completion
    BY <1>0, <1>5, <2>a DEF CloseCondition, IdleCloser, rowVars
  <2>3. closer[c].last <=> OpenConditions(h) \subseteq closer[c].cond
    BY <2>1 DEF ConditionsCounted, ConditionsInv
  <2>4. \A d \in Closers : Counting(d, h) => d = c
    BY <2>1 DEF ConditionsCounted, ConditionsInv
  <2>5. \A g \in HoldPoints : completion[g].verified => completion'[g].verified
    BY <1>0, <2>1, <2>2
  <2>6. closer[c].last => completion'[h].verified
    BY <1>0, <2>1, <2>2
  <2>7. /\ \A g \in HoldPoints \ {h} : rounds'[g] = rounds[g]
        /\ \A r \in Rounds \ {current[h]} : rounds'[h][r] = rounds[h][r]
        /\ rounds'[h][current[h]].verdict = Now(h).verdict
        /\ rounds'[h][current[h]].conds = Now(h).conds
        /\ rounds'[h][current[h]].met = Now(h).met \cup closer[c].cond
    BY <1>0, <2>1, <2>2 DEF Round, Now
  <2>8. ConditionsInv(h)'
    <3>1. \A d \in Closers : ~Counting(d, h)'
      BY <2>2, <2>4 DEF Counting
    <3>2. OpenConditions(h)' = OpenConditions(h) \ closer[c].cond
      BY <2>2, <2>7 DEF OpenConditions, Now
    <3>3. OpenConditions(h)' = {} => completion'[h].verified
      BY <2>3, <2>6, <3>2
    <3>4. \A r \in Rounds : rounds'[h][r].verdict = "none" => rounds'[h][r].met = {}
      BY <2>1, <2>7 DEF ConditionsCounted, ConditionsInv, Conditional
    <3> QED BY <3>1, <3>3, <3>4 DEF ConditionsInv
  <2>9. ASSUME NEW g \in HoldPoints \ {h} PROVE ConditionsInv(g)'
    <3>1. \A d \in Closers : Counting(d, g)' => closer'[d] = closer[d]
      BY <2>2 DEF Counting
    <3> QED BY <2>2, <2>5, <2>7, <3>1, UndisturbedConditions DEF ConditionsCounted
  <2> QED BY <2>8, <2>9 DEF ConditionsCounted
<1> QED BY <1>1, <1>2, <1>3, <1>4, <1>5 DEF SiteStep

LEMMA ConditionsStep ==
    ASSUME Inv, ConditionsCounted, [Next]_vars
    PROVE  ConditionsCounted'
<1>1. CASE RequestStep
  <2>1. ASSUME NEW q \in Requesters, NEW hps, NEW batch, CheckRequest(q, hps, batch) \/ DropRequest(q)
        PROVE  ConditionsCounted'
    <3>1. UNCHANGED <<status, current, rounds, completion, closer>>
      BY <2>1 DEF CheckRequest, DropRequest, rowVars
    <3> QED BY <3>1, ElsewhereConditions
  <2> QED BY <1>1, <2>1, ConditionsRequest DEF RequestStep
<1>2. CASE MailStep
  <2>1. UNCHANGED <<status, current, rounds, completion, closer>>
    BY <1>2 DEF MailStep, ReadForChase, ReadForQrLink, ReserveChase, RefuseChase, MintChaseLink,
         ChaseDelivered, ChaseFails, ChaseSuppressed, RefundChase, MailerDies, MintQrLink, DayPasses,
         rowVars
  <2> QED BY <2>1, ElsewhereConditions
<1>3. CASE UNCHANGED vars
  <2>1. UNCHANGED <<status, current, rounds, completion, closer>>
    BY <1>3 DEF vars, rowVars, processVars
  <2> QED BY <2>1, ElsewhereConditions
<1> QED BY <1>1, <1>2, <1>3, ConditionsDecided, ConditionsOnSite DEF Next

\* Whoever closes the last open condition of a conditional release verifies the
\* checklist item, however many people close conditions at once: each holds the
\* round's row while it counts the others' (conditionsRoutes.ts).
THEOREM ConditionsVerify == Spec => []ClosedConditionsVerify
<1>1. ConditionsCounted => ClosedConditionsVerify
  BY DEF ConditionsCounted, ConditionsInv, ClosedConditionsVerify, Conditional
<1> QED BY <1>1, ConditionsInitial, ConditionsStep, InvAlways, PTL DEF Spec

-----------------------------------------------------------------------------
(* Review rooms: a reminder takes no hold point out of one. *)

\* The link that a reminder has minted belongs to no room.
FreshSingle ==
    \A k \in Mailers : mailer[k].fresh \in Links => link[mailer[k].fresh].room = 0

InRoom(t) == link[t].state = "live" /\ link[t].room # 0

\* What a step may do to a link: only a free one is put into a room, and one that
\* works in a room goes with the row of its hold point.
RoomMoves(t) ==
    /\ link'[t].room \in {0, link[t].room} \/ t \in FreeLinks
    /\ InRoom(t) /\ current[link[t].hp] = current'[link[t].hp]
         /\ status[link[t].hp] = status'[link[t].hp] => link'[t] # NoLink

FreshMoves(k) ==
    \/ mailer'[k].fresh \in {mailer[k].fresh, NoLinkId}
    \/ mailer'[k].fresh \in Links => link'[mailer'[k].fresh].room = 0

RoomStep == (\A t \in Links : RoomMoves(t)) /\ (\A k \in Mailers : FreshMoves(k))

LEMMA LinksUntouched ==
    ASSUME UNCHANGED link PROVE \A t \in Links : RoomMoves(t)
BY DEF RoomMoves, InRoom, NoLink

LEMMA MailersUntouched ==
    ASSUME UNCHANGED mailer PROVE \A k \in Mailers : FreshMoves(k)
BY DEF FreshMoves

\* Links that are taken away are in no room or do not work.
LEMMA OthersRevoked ==
    ASSUME NEW S, \A t \in S \cap Links : ~InRoom(t), link' = Revoked(S)
    PROVE  \A t \in Links : RoomMoves(t)
BY DEF Revoked, RoomMoves, InRoom, NoLink

\* A link is used, or expires.
LEMMA OneUsed ==
    ASSUME TypeOK, NEW t \in Links, NEW m, link' = [link EXCEPT ![t] = m],
           m.room = link[t].room, m.state # "none"
    PROVE  \A s \in Links : RoomMoves(s)
<1>1. link'[t] = m /\ \A s \in Links \ {t} : link'[s] = link[s]
  BY DEF TypeOK
<1>2. m # NoLink
  BY DEF NoLink
<1> QED BY <1>1, <1>2 DEF RoomMoves, InRoom, NoLink

\* A free row is minted.
LEMMA OneMinted ==
    ASSUME TypeOK, NEW t \in FreeLinks, NEW m, link' = [link EXCEPT ![t] = m]
    PROVE  \A s \in Links : RoomMoves(s)
<1>1. \A s \in Links \ {t} : link'[s] = link[s]
  BY DEF TypeOK
<1>2. link[t] = NoLink
  BY DEF FreeLinks
<1> QED BY <1>1, <1>2 DEF RoomMoves, InRoom, NoLink

LEMMA SpentRoom ==
    ASSUME TypeOK, NEW t \in Links
    PROVE  Spent(t).room = link[t].room /\ Spent(t).state # "none"
BY DEF TypeOK, Spent, Link

LEMMA RequestRooms ==
    ASSUME Inv, NEW q \in Requesters, SaveRequest(q)
    PROVE  RoomStep
<1> DEFINE hps == requester[q].hps
<1>0. PICK new \in [hps -> FreeLinks] : \E room : link' = Reissued(hps, new, room)
  BY DEF SaveRequest
<1>1. PICK room : link' = Reissued(hps, new, room)
  BY <1>0
<1>2. hps \subseteq HoldPoints /\ \A h \in hps : current'[h] = current[h] + 1
  BY DEF SaveRequest, Inv, TypeOK, Request
<1>3. ASSUME NEW t \in Links PROVE RoomMoves(t)
  <2>1. CASE \E h \in hps : new[h] = t
    <3>1. t \in FreeLinks /\ link[t] = NoLink
      BY <2>1 DEF FreeLinks
    <3> QED BY <3>1 DEF RoomMoves, InRoom, NoLink
  <2>2. CASE ~\E h \in hps : new[h] = t
    <3>1. link'[t] = IF Unused(t) /\ link[t].hp \in hps THEN NoLink ELSE link[t]
      BY <1>1, <2>2 DEF Reissued
    <3>2. link[t].hp \in hps => current[link[t].hp] # current'[link[t].hp]
      BY <1>2 DEF Inv, TypeOK
    <3> QED BY <3>1, <3>2 DEF RoomMoves, InRoom, NoLink
  <2> QED BY <2>1, <2>2
<1> QED BY <1>3, MailersUntouched DEF SaveRequest, RoomStep

LEMMA DecisionRooms ==
    ASSUME Inv, DecisionStep
    PROVE  RoomStep
<1>0. TypeOK /\ link \in [Links -> Link] /\ UNCHANGED mailer
  BY DEF Inv, TypeOK, DecisionStep, WithdrawRequest, ReleaseInApp, RejectByLink, ReleaseByLink,
         ReleaseWithConditions, ExpireLink, PurgeLink, ReleaseRoom, ReleaseByLinks, processVars
<1> SUFFICES \A t \in Links : RoomMoves(t)
  BY <1>0, MailersUntouched DEF RoomStep
<1>1. ASSUME NEW h \in HoldPoints, WithdrawRequest(h), NEW t \in Links PROVE RoomMoves(t)
  <2>1. status[h] = "notified" /\ status'[h] = "pending"
    BY <1>1 DEF WithdrawRequest, DecisionEligible, Reopen, Inv, TypeOK
  <2>2. link'[t] = IF Unused(t) /\ link[t].hp = h THEN NoLink ELSE link[t]
    BY <1>1 DEF WithdrawRequest, Revoked
  <2> QED BY <2>1, <2>2 DEF RoomMoves, InRoom, NoLink
<1>2. ASSUME NEW t \in Links, \/ RejectByLink(t)
                              \/ \E conds \in SUBSET Conditions : ReleaseWithConditions(t, conds)
      PROVE  \A s \in Links : RoomMoves(s)
  BY <1>0, <1>2, SpentRoom, OneUsed DEF RejectByLink, ReleaseWithConditions
<1>3. ASSUME NEW S \in SUBSET Links, ReleaseByLinks(S), NEW t \in Links PROVE RoomMoves(t)
  <2>1. link'[t] = IF t \in S THEN Spent(t) ELSE link[t]
    BY <1>3 DEF ReleaseByLinks
  <2>2. Spent(t).room = link[t].room /\ Spent(t) # NoLink
    BY <1>0, SpentRoom DEF NoLink
  <2> QED BY <2>1, <2>2 DEF RoomMoves, InRoom, NoLink
<1>4. ASSUME NEW h \in HoldPoints, ReleaseInApp(h) PROVE \A t \in Links : RoomMoves(t)
  BY <1>4, LinksUntouched DEF ReleaseInApp
<1>5. ASSUME NEW t \in Links, ExpireLink(t) PROVE \A s \in Links : RoomMoves(s)
  <2> DEFINE m == [link[t] EXCEPT !.state = "expired"]
  <2>1. link' = [link EXCEPT ![t] = m]
    BY <1>5 DEF ExpireLink
  <2>2. m.room = link[t].room /\ m.state # "none"
    BY <1>0 DEF Link
  <2> HIDE DEF m
  <2> QED BY <1>0, <2>1, <2>2, OneUsed
<1>6. ASSUME NEW t \in Links, PurgeLink(t) PROVE \A s \in Links : RoomMoves(s)
  BY <1>6, OthersRevoked DEF PurgeLink, InRoom
<1> QED BY <1>1, <1>2, <1>3, <1>4, <1>5, <1>6 DEF DecisionStep, ReleaseByLink, ReleaseRoom

LEMMA MailRooms ==
    ASSUME Inv, FreshSingle, MailStep
    PROVE  RoomStep
<1>0. TypeOK /\ link \in [Links -> Link] /\ mailer \in [Mailers -> Mail]
  BY DEF Inv, TypeOK
<1>1. ASSUME NEW k \in Mailers, NEW h \in HoldPoints, ReadForChase(k, h) \/ ReadForQrLink(k, h)
      PROVE  RoomStep
  <2>1. UNCHANGED link /\ mailer'[k].fresh = NoLinkId
        /\ \A j \in Mailers \ {k} : mailer'[j] = mailer[j]
    <3>1. CASE ReadForChase(k, h)
      BY <1>0, <3>1 DEF ReadForChase
    <3>2. CASE ReadForQrLink(k, h)
      <4> DEFINE m == [IdleMail EXCEPT !.at = "linking", !.hp = h]
      <4>1. mailer' = [mailer EXCEPT ![k] = m] /\ UNCHANGED link
        BY <3>2 DEF ReadForQrLink
      <4>2. m.fresh = NoLinkId
        BY DEF IdleMail
      <4> HIDE DEF m
      <4> QED BY <1>0, <4>1, <4>2
    <3> QED BY <1>1, <3>1, <3>2
  <2> QED BY <2>1, LinksUntouched DEF RoomStep, FreshMoves
<1>2. ASSUME NEW k \in Mailers, RefuseChase(k) \/ MailerDies(k) \/ RefundChase(k) PROVE RoomStep
  <2>1. UNCHANGED link /\ mailer'[k].fresh = NoLinkId
        /\ \A j \in Mailers \ {k} : mailer'[j] = mailer[j]
    BY <1>0, <1>2 DEF RefuseChase, MailerDies, RefundChase, IdleMail
  <2> QED BY <2>1, LinksUntouched DEF RoomStep, FreshMoves
<1>3. ASSUME NEW k \in Mailers, ReserveChase(k) PROVE RoomStep
  <2>1. UNCHANGED link /\ \A j \in Mailers : mailer'[j].fresh = mailer[j].fresh
    BY <1>0, <1>3 DEF ReserveChase, Mail
  <2> QED BY <2>1, LinksUntouched DEF RoomStep, FreshMoves
<1>4. ASSUME NEW k \in Mailers, MintChaseLink(k) PROVE RoomStep
  <2>1. PICK t \in FreeLinks :
          /\ link' = [link EXCEPT ![t] = Minted(t, mailer[k].hp)]
          /\ mailer' = [mailer EXCEPT ![k].at = "sending", ![k].fresh = t]
    BY <1>4 DEF MintChaseLink
  <2>2. \A s \in Links : RoomMoves(s)
    BY <1>0, <2>1, OneMinted
  <2>3. t \in Links /\ link'[t] = Minted(t, mailer[k].hp) /\ mailer'[k].fresh = t
        /\ \A j \in Mailers \ {k} : mailer'[j] = mailer[j]
    BY <1>0, <2>1 DEF FreeLinks, Mail
  <2>4. link'[t].room = 0
    BY <2>3 DEF Minted
  <2> QED BY <2>2, <2>3, <2>4 DEF RoomStep, FreshMoves
<1>5. ASSUME NEW k \in Mailers, ChaseDelivered(k) PROVE RoomStep
  <2>1. \A t \in Links : RoomMoves(t)
    BY <1>5, OthersRevoked DEF ChaseDelivered, Superseded, InRoom
  <2>2. mailer'[k].fresh = NoLinkId /\ \A j \in Mailers \ {k} : mailer'[j] = mailer[j]
    BY <1>0, <1>5 DEF ChaseDelivered, IdleMail
  <2> QED BY <2>1, <2>2 DEF RoomStep, FreshMoves
<1>6. ASSUME NEW k \in Mailers, ChaseFails(k) \/ ChaseSuppressed(k) PROVE RoomStep
  <2>1. \A t \in Links : RoomMoves(t)
    <3>1. link' = Revoked({t \in {mailer[k].fresh} \cap Links : Unused(t)})
      BY <1>6 DEF ChaseFails, ChaseSuppressed
    <3> QED BY <3>1, OthersRevoked DEF FreshSingle, InRoom
  <2>2. \A j \in Mailers : mailer'[j].fresh \in {mailer[j].fresh, NoLinkId}
    BY <1>0, <1>6 DEF ChaseFails, ChaseSuppressed, IdleMail, Mail
  <2> QED BY <2>1, <2>2 DEF RoomStep, FreshMoves
<1>7. ASSUME NEW k \in Mailers, MintQrLink(k) PROVE RoomStep
  <2>1. \A t \in Links : RoomMoves(t)
    BY <1>0, <1>7, OneMinted DEF MintQrLink
  <2>2. mailer'[k].fresh = NoLinkId /\ \A j \in Mailers \ {k} : mailer'[j] = mailer[j]
    BY <1>0, <1>7 DEF MintQrLink, IdleMail
  <2> QED BY <2>1, <2>2 DEF RoomStep, FreshMoves
<1>8. CASE DayPasses
  <2>1. UNCHANGED link /\ \A j \in Mailers : mailer'[j].fresh = mailer[j].fresh
    BY <1>0, <1>8 DEF DayPasses, Mail
  <2> QED BY <2>1, LinksUntouched DEF RoomStep, FreshMoves
<1> QED BY <1>1, <1>2, <1>3, <1>4, <1>5, <1>6, <1>7, <1>8 DEF MailStep

LEMMA EveryRoomStep ==
    ASSUME Inv, FreshSingle, [Next]_vars
    PROVE  RoomStep
<1>1. CASE UNCHANGED <<link, mailer>>
  BY <1>1, LinksUntouched, MailersUntouched DEF RoomStep
<1>2. CASE RequestStep
  BY <1>1, <1>2, RequestRooms DEF RequestStep, CheckRequest, DropRequest
<1>3. CASE SiteStep
  BY <1>1, <1>3 DEF SiteStep, CloseNcr, ReopenNcr, RecordResult, CountOthers, CloseCondition,
                    DropCondition, processVars
<1>4. CASE UNCHANGED vars
  BY <1>1, <1>4 DEF vars, processVars
<1> QED BY <1>2, <1>3, <1>4, DecisionRooms, MailRooms DEF Next

LEMMA FreshStep ==
    ASSUME Inv, FreshSingle, RoomStep
    PROVE  FreshSingle'
<1> SUFFICES ASSUME NEW k \in Mailers, mailer'[k].fresh \in Links
             PROVE  link'[mailer'[k].fresh].room = 0
  BY DEF FreshSingle
<1>1. CASE mailer'[k].fresh = mailer[k].fresh
  <2>1. mailer[k].fresh \notin FreeLinks
    BY DEF FreeLinks
  <2> QED BY <1>1, <2>1 DEF RoomStep, RoomMoves, FreshSingle
<1>2. CASE mailer'[k].fresh # mailer[k].fresh
  BY <1>2, ConstantsAssumption DEF RoomStep, FreshMoves
<1> QED BY <1>1, <1>2

\* A working link of a review room disappears only when its hold point is
\* requested again or its request is withdrawn: neither the links that a delivered
\* reminder replaces (chaseSend.ts) nor the one that a failed reminder takes back
\* is a room's.
THEOREM RoomsKeepLinks == Spec => RoomLinkSurvives
<1>1. Init => FreshSingle
  BY ConstantsAssumption DEF Init, FreshSingle, IdleMail
<1>2. Inv /\ FreshSingle /\ [Next]_vars => RoomStep /\ FreshSingle'
  BY EveryRoomStep, FreshStep
<1>3. RoomStep =>
        \A t \in Links :
         LET h == link[t].hp
         IN  /\ link[t].state = "live" /\ link[t].room # 0
             /\ current[h] = current'[h] /\ status[h] = status'[h]
             => link'[t] # NoLink
  BY DEF RoomStep, RoomMoves, InRoom
<1> QED BY <1>1, <1>2, <1>3, InvAlways, PTL DEF Spec, RoomLinkSurvives

-----------------------------------------------------------------------------
(* The register: what the site was promised. *)

RegisterStep == [Register!RegisterNext]_<<current, Decisions>>

\* A request that was neither decided nor withdrawn has left no trace.
UndecidedBlank ==
    \A h \in HoldPoints, r \in Rounds :
       Decisions[h][r].verdict = "none" => Decisions[h][r] = Register!Undecided

RegisterInv == LinkInv /\ UndecidedBlank

\* Where neither status nor current round changes, no decision does.
LEMMA NothingDecided ==
    ASSUME Inv, [Next]_vars, UNCHANGED <<status, current>>
    PROVE  RegisterStep
<1>1. HoldPointStep /\ current \in [HoldPoints -> 0..MaxRounds]
  BY DecisionsStep DEF Inv, RoundsInv, TypeOK
<1>2. ASSUME NEW h \in HoldPoints PROVE Stays(h)
  <2>1. ~Settles(h)
    BY DEF Settles, Outcome
  <2>2. ~AsksAgain(h)
    BY <1>1 DEF AsksAgain
  <2> QED BY <1>1, <2>1, <2>2 DEF HoldPointStep
<1>3. ASSUME NEW h \in HoldPoints, NEW r \in Rounds
      PROVE  DecisionOf(rounds[h][r])' = DecisionOf(rounds[h][r])
  BY <1>2 DEF Stays, SameDecision, DecisionOf
<1>4. UNCHANGED Decisions
  BY <1>3 DEF Decisions
<1> QED BY <1>4 DEF RegisterStep

\* What may be decided awaits its decision in the register.
LEMMA EligibleAwaits ==
    ASSUME RegisterInv, NEW h \in HoldPoints, NEW r, DecisionEligible(h, r)
    PROVE  Register!Awaiting(h) /\ current[h] \in Rounds /\ current[h] # 0
<1>1. /\ current[h] \in Rounds /\ current[h] # 0
      /\ Now(h).verdict = "none" /\ ~Now(h).withdrawn
  BY EligibleRound, ConstantsAssumption DEF RegisterInv, LinkInv, Inv, RoundsInv, Rounds
<1>2. Decisions[h][current[h]].verdict = "none"
  BY <1>1 DEF Decisions, DecisionOf, Now
<1>3. Decisions[h][current[h]] = Register!Undecided
  BY <1>1, <1>2 DEF RegisterInv, UndecidedBlank
<1> QED BY <1>1, <1>3 DEF Register!Awaiting, Register!Latest

\* A link that may decide has decided nothing yet.
LEMMA DecidingUnspent ==
    ASSUME LinkInv, NEW t \in Links, LinkDecides(t)
    PROVE  t \notin Register!Spent
<1> SUFFICES ASSUME NEW h \in HoldPoints, NEW r \in Rounds, Decisions[h][r].by = t
             PROVE  FALSE
  BY DEF Register!Spent
<1>1. rounds[h][r].by = t
  BY DEF Decisions, DecisionOf
<1>2. link[t].state = "used"
  BY <1>1 DEF LinkInv, LinkDecidesOnce
<1> QED BY <1>2 DEF LinkDecides

\* One decision or withdrawal.
LEMMA OneRecord ==
    ASSUME RegisterInv, NEW h \in HoldPoints, DecisionEligible(h, current[h]),
           NEW new, current' = current,
           rounds' = [rounds EXCEPT ![h][current[h]] = new],
           NEW verdict, NEW by, NEW conds,
           DecisionOf(new) = [verdict |-> verdict, by |-> by, conds |-> conds]
    PROVE  Register!Record(h, verdict, by, conds)
<1>1. Register!Awaiting(h) /\ current[h] \in Rounds
  BY EligibleAwaits
<1>2. rounds \in [HoldPoints -> [Rounds -> Round]]
  BY DEF RegisterInv, LinkInv, Inv, TypeOK
<1>3. ASSUME NEW g \in HoldPoints, NEW r \in Rounds
      PROVE  rounds'[g][r] = IF g = h /\ r = current[h] THEN new ELSE rounds[g][r]
  BY <1>1, <1>2
<1>4. Decisions' = [Decisions EXCEPT ![h][current[h]] = DecisionOf(new)]
  <2>1. Decisions' = [g \in HoldPoints |-> [r \in Rounds |->
                        IF g = h /\ r = current[h] THEN DecisionOf(new) ELSE Decisions[g][r]]]
    BY <1>3 DEF Decisions, DecisionOf
  <2> QED BY <1>1, <2>1 DEF Decisions
<1> QED BY <1>1, <1>4 DEF Register!Record

LEMMA RecordIsStep ==
    ASSUME NEW h \in HoldPoints,
           \/ Register!Withdraw(h) \/ Register!ReleaseInside(h)
           \/ \E t \in Links : Register!DecideByLink(h, t)
    PROVE  RegisterStep
BY DEF RegisterStep, Register!RegisterNext

\* The site asks: requests of hold points that were released are not saved.
LEMMA RequestAsks ==
    ASSUME RegisterInv, NEW q \in Requesters, SaveRequest(q)
    PROVE  RegisterStep
<1> DEFINE hps == requester[q].hps
<1>0. /\ rounds \in [HoldPoints -> [Rounds -> Round]]
      /\ current \in [HoldPoints -> 0..MaxRounds]
      /\ status \in [HoldPoints -> Statuses]
      /\ hps \subseteq HoldPoints
      /\ StatusFollowsRound /\ FutureRoundsBlank
  BY DEF RegisterInv, LinkInv, Inv, RoundsInv, TypeOK, Request
<1>1. ASSUME NEW h \in hps
      PROVE  /\ current[h] + 1 \in Rounds
             /\ current[h] # 0 => Decisions[h][current[h]].verdict \notin Register!Final
  <2>1. status[h] # "released" /\ current[h] < MaxRounds
    BY DEF SaveRequest
  <2>2. current[h] + 1 \in Rounds
    BY <1>0, <2>1, ConstantsAssumption DEF Rounds
  <2>3. ASSUME current[h] # 0 PROVE Decisions[h][current[h]].verdict \notin Register!Final
    <3>1. current[h] \in Rounds
      BY <1>0, <2>3, ConstantsAssumption DEF Rounds
    <3>2. \/ Now(h).verdict = "none" \/ Now(h).verdict = "rejected" \/ Now(h).withdrawn
      BY <1>0, <2>1, <2>3 DEF StatusFollowsRound, Statuses
    <3> QED BY <1>0, <3>1, <3>2 DEF Decisions, DecisionOf, Now, Register!Final
  <2> QED BY <2>2, <2>3
<1>2. current' = [h \in HoldPoints |-> IF h \in hps THEN current[h] + 1 ELSE current[h]]
  BY DEF SaveRequest
<1>3. ASSUME NEW h \in HoldPoints, NEW r \in Rounds
      PROVE  DecisionOf(rounds[h][r])' = DecisionOf(rounds[h][r])
  <2>1. CASE h \in hps
    <3> DEFINE new == [BlankRound EXCEPT !.answered = h \in requester[q].answers]
    <3>1. rounds'[h] = [rounds[h] EXCEPT ![current[h] + 1] = new]
      BY <2>1 DEF SaveRequest
    <3>2. DecisionOf(new) = DecisionOf(BlankRound)
      BY DEF DecisionOf, BlankRound
    <3> HIDE DEF new
    <3>3. CASE r = current[h] + 1
      <4>1. rounds[h][r] = BlankRound
        <5>1. r > current[h]
          BY <1>0, <3>3
        <5> QED BY <1>0, <5>1 DEF FutureRoundsBlank
      <4>2. rounds'[h][r] = new
        BY <1>0, <3>1, <3>3
      <4> QED BY <3>2, <4>1, <4>2 DEF DecisionOf
    <3>4. CASE r # current[h] + 1
      BY <1>0, <3>1, <3>4 DEF DecisionOf
    <3> QED BY <3>3, <3>4
  <2>2. CASE h \notin hps
    BY <2>2 DEF SaveRequest, DecisionOf
  <2> QED BY <2>1, <2>2
<1>4. UNCHANGED Decisions
  BY <1>3 DEF Decisions
<1> HIDE DEF hps
<1>5. Register!Ask(hps)
  BY <1>1, <1>2, <1>4 DEF Register!Ask, Register!Latest
<1> QED BY <1>0, <1>5 DEF RegisterStep, Register!RegisterNext

LEMMA WithdrawalRecorded ==
    ASSUME RegisterInv, NEW h \in HoldPoints, WithdrawRequest(h)
    PROVE  RegisterStep
<1> DEFINE new == [Now(h) EXCEPT !.withdrawn = TRUE]
<1>1. /\ DecisionEligible(h, current[h]) /\ current' = current
      /\ rounds' = [rounds EXCEPT ![h][current[h]] = new]
  BY DEF WithdrawRequest, Reopen, Now
<1>2. Register!Awaiting(h) /\ current[h] \in Rounds
  BY <1>1, EligibleAwaits
<1>3. DecisionOf(new) = [verdict |-> "withdrawn", by |-> "nobody", conds |-> {}]
  <2>1. Now(h) \in Round
    BY <1>2 DEF RegisterInv, LinkInv, Inv, TypeOK, Now
  <2>2. DecisionOf(Now(h)) = Register!Undecided
    BY <1>2 DEF Register!Awaiting, Register!Latest, Decisions, Now
  <2> QED BY <2>1, <2>2 DEF DecisionOf, Round, Register!Undecided
<1> HIDE DEF new
<1>4. Register!Withdraw(h)
  BY <1>1, <1>3, OneRecord DEF Register!Withdraw
<1> QED BY <1>4, RecordIsStep

\* The verdicts that a link, or the application, may put on a round.
LEMMA VerdictRecorded ==
    ASSUME RegisterInv, NEW h \in HoldPoints, DecisionEligible(h, current[h]),
           NEW verdict, NEW by, NEW new,
           new \in {Decided(h, verdict, by), [Decided(h, verdict, by) EXCEPT !.ncr = "open"]}
    PROVE  DecisionOf(new) = [verdict |-> verdict, by |-> by, conds |-> {}]
<1>1. Register!Awaiting(h) /\ current[h] \in Rounds
  BY EligibleAwaits
<1>2. Now(h) \in Round /\ ~Now(h).withdrawn
  BY <1>1 DEF RegisterInv, LinkInv, Inv, TypeOK, Now, DecisionEligible
<1>3. DecisionOf(Now(h)) = Register!Undecided
  BY <1>1 DEF Register!Awaiting, Register!Latest, Decisions, Now
<1> QED BY <1>2, <1>3 DEF DecisionOf, Decided, Round, Register!Undecided

LEMMA InsideRecorded ==
    ASSUME RegisterInv, NEW h \in HoldPoints, ReleaseInApp(h)
    PROVE  RegisterStep
<1> DEFINE new == Decided(h, "released", "in_app")
<1>1. /\ h \in Internal /\ DecisionEligible(h, current[h]) /\ current' = current
      /\ rounds' = [rounds EXCEPT ![h][current[h]] = new]
  BY DEF ReleaseInApp
<1>2. DecisionOf(new) = [verdict |-> "released", by |-> "in_app", conds |-> {}]
  BY <1>1, VerdictRecorded
<1> HIDE DEF new
<1>3. Register!ReleaseInside(h)
  BY <1>1, <1>2, OneRecord DEF Register!ReleaseInside
<1> QED BY <1>3, RecordIsStep

LEMMA RejectionRecorded ==
    ASSUME RegisterInv, NEW t \in Links, RejectByLink(t)
    PROVE  RegisterStep
<1> DEFINE h == link[t].hp
           new == [Decided(h, "rejected", t) EXCEPT !.ncr = "open"]
<1>1. h \in HoldPoints /\ DecisionEligible(h, current[h]) /\ LinkDecides(t)
  BY EligibleRound DEF RejectByLink, LinkDecides, RegisterInv, LinkInv, Inv, NamesHoldPoint,
                       DecisionEligible
<1>2. current' = current /\ rounds' = [rounds EXCEPT ![h][current[h]] = new]
  BY DEF RejectByLink, Reopen
<1>3. DecisionOf(new) = [verdict |-> "rejected", by |-> t, conds |-> {}]
  BY <1>1, VerdictRecorded
<1>4. t \notin Register!Spent
  BY <1>1, DecidingUnspent DEF RegisterInv
<1> HIDE DEF new, h
<1>5. Register!DecideByLink(h, t)
  BY <1>1, <1>2, <1>3, <1>4, OneRecord DEF Register!DecideByLink
<1> QED BY <1>1, <1>5, RecordIsStep

LEMMA ConditionsRecorded ==
    ASSUME RegisterInv, NEW t \in Links, NEW conds \in (SUBSET Conditions) \ {{}},
           ReleaseWithConditions(t, conds)
    PROVE  RegisterStep
<1> DEFINE h == link[t].hp
           new == [Decided(h, "conditional", t) EXCEPT !.conds = conds]
<1>1. h \in HoldPoints /\ DecisionEligible(h, current[h]) /\ LinkDecides(t)
  BY DEF ReleaseWithConditions, LinkDecides, RegisterInv, LinkInv, Inv, NamesHoldPoint,
         DecisionEligible
<1>2. current' = current /\ rounds' = [rounds EXCEPT ![h][current[h]] = new]
  BY DEF ReleaseWithConditions
<1>3. DecisionOf(new) = [verdict |-> "conditional", by |-> t, conds |-> conds]
  <2>1. Now(h) \in Round /\ ~Now(h).withdrawn
    BY <1>1, EligibleAwaits DEF RegisterInv, LinkInv, Inv, TypeOK, Now, DecisionEligible
  <2> QED BY <2>1 DEF DecisionOf, Decided, Round
<1>4. t \notin Register!Spent
  BY <1>1, DecidingUnspent DEF RegisterInv
<1> HIDE DEF new, h
<1>5. Register!Record(h, "conditional", t, conds)
  BY <1>1, <1>2, <1>3, OneRecord
<1>6. Register!DecideByLink(h, t)
  BY <1>4, <1>5 DEF Register!DecideByLink
<1> QED BY <1>1, <1>6, RecordIsStep

\* One link, or a review room's: every hold point by the link of its own.
LEMMA ReleasesRecorded ==
    ASSUME RegisterInv, NEW S \in SUBSET Links, ReleaseByLinks(S)
    PROVE  RegisterStep
<1> DEFINE hps == {link[t].hp : t \in S}
           by == [h \in hps |-> CHOOSE t \in S : link[t].hp = h]
<1>0. rounds \in [HoldPoints -> [Rounds -> Round]]
  BY DEF RegisterInv, LinkInv, Inv, TypeOK
<1>1. ASSUME NEW t \in S
      PROVE  /\ link[t].hp \in HoldPoints /\ t \notin Register!Spent
             /\ DecisionEligible(link[t].hp, current[link[t].hp])
  BY DecidingUnspent
     DEF ReleaseByLinks, LinkDecides, RegisterInv, LinkInv, Inv, NamesHoldPoint, DecisionEligible
<1>2. ASSUME NEW h \in hps PROVE by[h] \in S /\ link[by[h]].hp = h
  OBVIOUS
<1>3. ASSUME NEW h \in hps
      PROVE  /\ h \in HoldPoints /\ DecisionEligible(h, current[h])
             /\ Register!Awaiting(h) /\ current[h] \in Rounds
  BY <1>1, EligibleAwaits
<1>4. ASSUME NEW h \in HoldPoints, NEW r \in Rounds
      PROVE  DecisionOf(rounds[h][r])' =
               IF h \in hps /\ r = current[h]
               THEN [verdict |-> "released", by |-> by[h], conds |-> {}]
               ELSE DecisionOf(rounds[h][r])
  <2>1. CASE h \in hps
    <3> DEFINE new == Decided(h, "released", by[h])
    <3>1. rounds'[h] = [rounds[h] EXCEPT ![current[h]] = new]
      BY <2>1 DEF ReleaseByLinks
    <3>2. DecisionOf(new) = [verdict |-> "released", by |-> by[h], conds |-> {}]
      BY <1>3, <2>1, VerdictRecorded
    <3> HIDE DEF new, hps, by
    <3>3. rounds'[h][r] = IF r = current[h] THEN new ELSE rounds[h][r]
      BY <1>0, <3>1
    <3>4. DecisionOf(rounds[h][r])' = DecisionOf(rounds'[h][r])
      BY DEF DecisionOf
    <3> QED BY <2>1, <3>2, <3>3, <3>4
  <2>2. CASE h \notin hps
    BY <2>2 DEF ReleaseByLinks, DecisionOf
  <2> QED BY <2>1, <2>2
<1>5. current' = current
  BY DEF ReleaseByLinks
<1> HIDE DEF hps, by
<1>6. Decisions' = [h \in HoldPoints |->
        IF h \in hps
        THEN [Decisions[h] EXCEPT ![current[h]] =
                [verdict |-> "released", by |-> by[h], conds |-> {}]]
        ELSE Decisions[h]]
  <2>1. Decisions' = [h \in HoldPoints |-> [r \in Rounds |->
                        IF h \in hps /\ r = current[h]
                        THEN [verdict |-> "released", by |-> by[h], conds |-> {}]
                        ELSE Decisions[h][r]]]
    BY <1>4 DEF Decisions
  <2>2. \A h \in HoldPoints : Decisions[h] = [r \in Rounds |-> Decisions[h][r]]
    BY DEF Decisions
  <2> QED BY <2>1, <2>2
<1>7. by \in [hps -> Links] /\ hps \subseteq HoldPoints
  <2>1. by = [h \in hps |-> by[h]]
    BY DEF by
  <2> QED BY <1>2, <1>3, <2>1
<1>8. Register!ReleaseByLinks(hps, by)
  BY <1>1, <1>2, <1>3, <1>5, <1>6, <1>7 DEF Register!ReleaseByLinks
<1> QED BY <1>7, <1>8 DEF RegisterStep, Register!RegisterNext

\* Every step of the routes is one of the register, or none.
LEMMA EveryRegisterStep == RegisterInv /\ [Next]_vars => RegisterStep
<1> SUFFICES ASSUME RegisterInv, [Next]_vars PROVE RegisterStep
  OBVIOUS
<1>0. Inv /\ (UNCHANGED <<status, current>> => RegisterStep)
  BY NothingDecided DEF RegisterInv, LinkInv
<1>1. CASE RequestStep
  BY <1>0, <1>1, RequestAsks DEF RequestStep, CheckRequest, DropRequest, rowVars
<1>2. CASE DecisionStep
  BY <1>0, <1>2, WithdrawalRecorded, InsideRecorded, RejectionRecorded, ConditionsRecorded,
     ReleasesRecorded, Zenon
     DEF DecisionStep, ReleaseByLink, ReleaseRoom, ExpireLink, PurgeLink, rowVars
<1>3. CASE SiteStep
  BY <1>0, <1>3, Zenon DEF SiteStep, CloseNcr, ReopenNcr, RecordResult, CountOthers, CloseCondition,
                    DropCondition, rowVars
<1>4. CASE MailStep
  BY <1>0, <1>4, Zenon
     DEF MailStep, ReadForChase, ReadForQrLink, ReserveChase, RefuseChase, MintChaseLink,
         ChaseDelivered, ChaseFails, ChaseSuppressed, RefundChase, MailerDies, MintQrLink,
         DayPasses, rowVars
<1>5. CASE UNCHANGED vars
  BY <1>0, <1>5 DEF vars, rowVars
<1> QED BY <1>1, <1>2, <1>3, <1>4, <1>5 DEF Next

\* The register writes no blank decision.
LEMMA BlankKept == UndecidedBlank /\ RegisterStep => UndecidedBlank'
<1> SUFFICES ASSUME UndecidedBlank, RegisterStep, NEW h \in HoldPoints, NEW r \in Rounds,
                    Decisions'[h][r].verdict = "none"
             PROVE  Decisions'[h][r] = Register!Undecided
  BY DEF UndecidedBlank, Register!Undecided
<1> DEFINE Entries == {DecisionOf(rounds[g][s]) : g \in HoldPoints, s \in Rounds}
<1>0. Decisions \in [HoldPoints -> [Rounds -> Entries]]
  BY DEF Decisions
<1> HIDE DEF Entries
<1>1. ASSUME UNCHANGED Decisions PROVE Decisions'[h][r] = Register!Undecided
  BY <1>1 DEF UndecidedBlank
<1>2. ASSUME NEW g \in HoldPoints, NEW v \in {"withdrawn", "rejected", "conditional", "released"},
             NEW by, NEW conds, Register!Record(g, v, by, conds)
      PROVE  Decisions'[h][r] = Register!Undecided
  <2>1. Decisions'[h][r] = IF g = h /\ r = current[g]
                           THEN [verdict |-> v, by |-> by, conds |-> conds]
                           ELSE Decisions[h][r]
    BY <1>0, <1>2 DEF Register!Record
  <2> QED BY <2>1 DEF UndecidedBlank
<1>3. ASSUME NEW S, NEW by, Register!ReleaseByLinks(S, by)
      PROVE  Decisions'[h][r] = Register!Undecided
  <2>1. Decisions'[h][r] = IF h \in S /\ r = current[h]
                           THEN [verdict |-> "released", by |-> by[h], conds |-> {}]
                           ELSE Decisions[h][r]
    BY <1>0, <1>3 DEF Register!ReleaseByLinks
  <2> QED BY <2>1 DEF UndecidedBlank
<1> QED BY <1>1, <1>2, <1>3
   DEF RegisterStep, Register!RegisterNext, Register!Ask, Register!Withdraw,
       Register!ReleaseInside, Register!DecideByLink

\* What the routes, their links and their rooms do is what the register promises:
\* a request is settled once and only while it is the latest, a link settles one,
\* and nothing that was released is asked for again (recordDecision, the request
\* and withdrawal routes).
THEOREM RegisterImplemented == Spec => ImplementsRegister
<1>1. Init => Register!RegisterInit /\ UndecidedBlank
  BY DEF Init, Register!RegisterInit, UndecidedBlank, Decisions, DecisionOf, BlankRound,
         Register!Undecided
<1>2. RegisterInv /\ [Next]_vars => RegisterStep /\ UndecidedBlank'
  BY EveryRegisterStep, BlankKept DEF RegisterInv
<1>3. LinkInv /\ UndecidedBlank => RegisterInv
  BY DEF RegisterInv
<1> QED BY <1>1, <1>2, <1>3, LinkInvAlways, PTL
        DEF Spec, ImplementsRegister, Register!RegisterSpec, RegisterStep
=============================================================================
