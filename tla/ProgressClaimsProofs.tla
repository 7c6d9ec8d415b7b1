------------------------ MODULE ProgressClaimsProofs ------------------------
(***************************************************************************)
(* What holds of ProgressClaims for any lots, claims, variations, dialogs  *)
(* and amounts.  What is billed and what is recorded are cardinalities, so *)
(* that a claim or a payment adds a set disjoint from those that are there.*)
(***************************************************************************)
EXTENDS ProgressClaims, FiniteSetTheorems, TLAPS

ClaimRows == [status : ClaimStatuses, key : Dialogs \cup {None},
              share : [Lots -> Shares \cup {0}], total : Totals,
              certified : Nat, paid : Nat, certificate : BOOLEAN,
              history : [Payments -> Nat]]

\* The money of a claim: what is paid is certified, and a payment is only ever
\* recorded beside a certificate, so that a dispute keeps it.
Sound(row) ==
    /\ row.paid <= row.certified
    /\ row.status \in {"certified", "partially_paid"} => row.certificate
    /\ \A p \in Payments : row.history[p] > 0 => row.certificate /\ row.status # "draft"

Exists(row) == row.status \notin Absent

\* A live claim answers the dialog whose key it holds, and no other claim holds it.
KeysTell ==
    /\ \A c \in Live : madeFor[c] = claim[c].key
    /\ \A c, e \in Live : claim[c].key = claim[e].key => c = e

IInv ==
    /\ TypeOK
    /\ \A c \in Claims : Sound(claim[c])
    /\ KeysTell
    /\ ClaimedMeansBilled

LEMMA BlankRow == NoClaim \in ClaimRows /\ Sound(NoClaim)
  <1>1. 0 \in Totals
    BY DEF Totals
  <1>2. \A b \in BOOLEAN :
            [status |-> "none", key |-> None, share |-> [l \in Lots |-> 0],
             total |-> 0, certified |-> 0, paid |-> 0, certificate |-> b,
             history |-> [p \in Payments |-> 0]] \in ClaimRows
    BY <1>1 DEF ClaimRows, ClaimStatuses, Absent
  <1>3. NoClaim \in ClaimRows
    BY <1>2 DEF NoClaim
  <1>4. QED
    BY <1>3 DEF NoClaim, Sound

LEMMA Start == Init => IInv
  <1> SUFFICES ASSUME Init PROVE IInv
    OBVIOUS
  <1>1. \A c \in Claims : claim[c] = NoClaim
    BY DEF Init
  <1>2. \A c \in Claims : claim[c].status = "none"
    BY <1>1 DEF NoClaim
  <1>3. Live = {}
    BY <1>2 DEF Live, Absent
  <1>4. TypeOK
    <2>1. claim \in [Claims -> ClaimRows]
      BY BlankRow DEF Init
    <2>2. \A c \in Claims : claim[c] = [NoClaim EXCEPT !.status = claim[c].status]
      BY <1>1, <1>2, BlankRow DEF NoClaim
    <2>3. variation \in [Variations -> [status : VariationStatuses, claim : Claims \cup {None}]]
      BY DEF Init, VariationStatuses
    <2>4. QED
      BY <2>1, <2>2, <2>3 DEF Init, TypeOK, ClaimRows, LotStatuses
  <1>5. ClaimedMeansBilled
    BY DEF Init, ClaimedMeansBilled
  <1>6. QED
    BY <1>1, <1>3, <1>4, <1>5, BlankRow DEF IInv, KeysTell

-----------------------------------------------------------------------------
(* Steps that write one claim that exists, and nothing else. *)

LEMMA Rewrite ==
    ASSUME IInv, NEW c \in Live, NEW row \in ClaimRows, SetClaim(c, row),
           Exists(row), Sound(row), row.key = claim[c].key, row.share = claim[c].share
    PROVE  IInv'
  <1>0. c \in Claims /\ claim \in [Claims -> ClaimRows]
    BY DEF IInv, TypeOK, ClaimRows, Live
  <1>1. /\ claim' \in [Claims -> ClaimRows]
        /\ claim'[c] = row
        /\ \A e \in Claims \ {c} : claim'[e] = claim[e]
    BY <1>0 DEF SetClaim
  <1>2. Live' = Live
    BY <1>0, <1>1 DEF Live, Exists
  <1>3. TypeOK'
    <2>1. \A e \in (Claims \ Live)' : claim'[e] = [NoClaim EXCEPT !.status = claim'[e].status]
      BY <1>1, <1>2 DEF IInv, TypeOK
    <2>2. QED
      BY <1>1, <2>1 DEF SetClaim, IInv, TypeOK, ClaimRows
  <1>4. \A e \in Claims : Sound(claim'[e])
    BY <1>1 DEF IInv
  <1>5. \A e \in Claims : claim'[e].key = claim[e].key /\ claim'[e].share = claim[e].share
    BY <1>1
  <1>6. KeysTell'
    BY <1>2, <1>5 DEF SetClaim, IInv, KeysTell, Live
  <1>7. ClaimedMeansBilled'
    BY <1>2, <1>5 DEF SetClaim, IInv, ClaimedMeansBilled, Live
  <1>8. QED
    BY <1>3, <1>4, <1>6, <1>7 DEF IInv

\* SetClaim leaves a claim's row out of sight of a step's guard: what each handler
\* knows of the row it rewrites.
LEMMA RowFacts ==
    ASSUME IInv, NEW c \in Claims
    PROVE  /\ claim[c] \in ClaimRows
           /\ Sound(claim[c])
           /\ c \in Live <=> Exists(claim[c])
BY DEF IInv, TypeOK, ClaimRows, Live, Exists

LEMMA SubmitStep == ASSUME IInv, NEW c \in Claims, Submit(c) PROVE IInv'
  <1> DEFINE row == [claim[c] EXCEPT !.status = "submitted"]
  <1>1. claim[c] \in ClaimRows /\ Sound(claim[c]) /\ c \in Live
    BY RowFacts DEF Submit, Exists, Absent
  <1>2. row \in ClaimRows /\ row.key = claim[c].key /\ row.share = claim[c].share
    BY <1>1 DEF ClaimRows, ClaimStatuses
  <1>3. Exists(row) /\ Sound(row)
    BY <1>1 DEF ClaimRows, Exists, Absent, Sound
  <1>4. SetClaim(c, row)
    BY DEF Submit
  <1> HIDE DEF row
  <1>5. QED
    BY <1>1, <1>2, <1>3, <1>4, Rewrite

\* The row that Certify writes.
Certified(r, amount, b) ==
    [r EXCEPT !.status = IF amount = 0 THEN "paid" ELSE "certified",
              !.certified = amount,
              !.paid = IF amount = 0 THEN 0 ELSE @,
              !.certificate = b]

\* Certifying nothing settles the claim, and only one that received nothing.
LEMMA CertifyRow ==
    ASSUME NEW r \in ClaimRows, Sound(r), NEW amount \in Nat, r.paid <= amount,
           NEW b \in BOOLEAN, b
    PROVE  /\ Certified(r, amount, b) \in ClaimRows
           /\ Certified(r, amount, b).key = r.key
           /\ Certified(r, amount, b).share = r.share
           /\ Exists(Certified(r, amount, b)) /\ Sound(Certified(r, amount, b))
  <1> DEFINE row == Certified(r, amount, b)
  <1>1. row \in ClaimRows
    BY DEF ClaimRows, ClaimStatuses, Certified
  <1>2. /\ row.key = r.key /\ row.share = r.share /\ row.certificate = b
        /\ row.status \in {"paid", "certified"}
    BY DEF ClaimRows, Certified
  <1>3. Exists(row)
    BY DEF ClaimRows, Exists, Absent, Certified
  <1>4. row.paid <= row.certified
    BY DEF ClaimRows, Certified
  <1>5. Sound(row)
    BY <1>2, <1>4 DEF Sound
  <1>6. QED
    BY <1>1, <1>2, <1>3, <1>5

LEMMA CertifyStep ==
    ASSUME IInv, NEW c \in Claims, NEW amount \in Amounts, Certify(c, amount) PROVE IInv'
  <1> DEFINE row == Certified(claim[c], amount, TRUE)
  <1>1. claim[c] \in ClaimRows /\ Sound(claim[c]) /\ c \in Live
    BY RowFacts DEF Certify, Exists, Absent
  <1>2. amount \in Nat /\ claim[c].paid <= amount
    BY ConstantsAssumption DEF Certify, MayCertify
  <1>3. /\ row \in ClaimRows /\ row.key = claim[c].key
        /\ row.share = claim[c].share /\ Exists(row) /\ Sound(row)
    BY <1>1, <1>2, CertifyRow
  <1>4. SetClaim(c, row)
    BY DEF Certify, Certified
  <1> HIDE DEF row
  <1>5. QED
    BY <1>1, <1>3, <1>4, Rewrite

LEMMA DisputeStep == ASSUME IInv, NEW c \in Claims, Dispute(c) PROVE IInv'
  <1> DEFINE row == [claim[c] EXCEPT !.status = "disputed",
                                     !.history = DisputedNotes(claim[c])]
  <1>1. claim[c] \in ClaimRows /\ Sound(claim[c]) /\ c \in Live
    BY RowFacts DEF Dispute, Exists, Absent
  <1>2. /\ DisputedNotes(claim[c]) \in [Payments -> Nat]
        /\ \A p \in Payments : DisputedNotes(claim[c])[p] > 0 => claim[c].certificate
    BY <1>1 DEF DisputedNotes, ClaimRows, Sound
  <1>3. /\ row \in ClaimRows /\ row.key = claim[c].key /\ row.share = claim[c].share
        /\ row.paid = claim[c].paid /\ row.certified = claim[c].certified
        /\ row.history = DisputedNotes(claim[c]) /\ row.certificate = claim[c].certificate
    BY <1>1, <1>2 DEF ClaimRows, ClaimStatuses
  <1>4. Exists(row)
    BY <1>1 DEF ClaimRows, Exists, Absent
  <1>5. Sound(row)
    BY <1>1, <1>2, <1>3 DEF Sound
  <1>6. SetClaim(c, row)
    BY DEF Dispute
  <1> HIDE DEF row
  <1>7. QED
    BY <1>1, <1>3, <1>4, <1>5, <1>6, Rewrite

LEMMA MarkPaidStep == ASSUME IInv, NEW c \in Claims, MarkPaid(c) PROVE IInv'
  <1> DEFINE row == [claim[c] EXCEPT !.status = "paid", !.paid = claim[c].certified]
  <1>1. claim[c] \in ClaimRows /\ Sound(claim[c]) /\ c \in Live
    BY RowFacts DEF MarkPaid, Exists, Absent
  <1>2. row \in ClaimRows /\ row.key = claim[c].key /\ row.share = claim[c].share
    BY <1>1 DEF ClaimRows, ClaimStatuses
  <1>3. Exists(row) /\ Sound(row)
    BY <1>1 DEF ClaimRows, Exists, Absent, Sound
  <1>4. SetClaim(c, row)
    BY DEF MarkPaid
  <1> HIDE DEF row
  <1>5. QED
    BY <1>1, <1>2, <1>3, <1>4, Rewrite

LEMMA PayRow ==
    ASSUME NEW r \in ClaimRows, Sound(r), r.status \in {"certified", "partially_paid"},
           NEW p \in Payments, NEW amount \in Nat, r.paid + amount <= r.certified
    PROVE  LET row == [r EXCEPT !.status = IF r.paid + amount = r.certified
                                           THEN "paid" ELSE "partially_paid",
                                !.paid = @ + amount,
                                !.history[p] = amount]
           IN  /\ row \in ClaimRows /\ row.key = r.key /\ row.share = r.share
               /\ Exists(row) /\ Sound(row)
  <1> DEFINE row == [r EXCEPT !.status = IF r.paid + amount = r.certified
                                         THEN "paid" ELSE "partially_paid",
                              !.paid = @ + amount,
                              !.history[p] = amount]
  <1>1. /\ [r.history EXCEPT ![p] = amount] \in [Payments -> Nat]
        /\ r.paid + amount \in Nat
    BY DEF ClaimRows
  <1>2. /\ row \in ClaimRows /\ row.key = r.key /\ row.share = r.share
        /\ row.certificate = r.certificate /\ row.paid <= row.certified
    BY <1>1 DEF ClaimRows, ClaimStatuses
  <1>3. Exists(row)
    BY DEF ClaimRows, Exists, Absent
  <1>4. r.certificate
    BY DEF Sound
  <1>5. Sound(row)
    BY <1>2, <1>4 DEF Sound
  <1>6. QED
    BY <1>2, <1>3, <1>5

LEMMA PayStep ==
    ASSUME IInv, NEW c \in Claims, NEW p \in Payments, NEW amount \in Amounts,
           Pay(c, p, amount)
    PROVE  IInv'
  <1> DEFINE row == [claim[c] EXCEPT
                        !.status = IF claim[c].paid + amount = claim[c].certified
                                   THEN "paid" ELSE "partially_paid",
                        !.paid = @ + amount,
                        !.history[p] = amount]
  <1>1. claim[c] \in ClaimRows /\ Sound(claim[c]) /\ c \in Live
    BY RowFacts DEF Pay, Exists, Absent
  <1>2. amount \in Nat
    BY ConstantsAssumption
  <1>3. /\ row \in ClaimRows /\ row.key = claim[c].key /\ row.share = claim[c].share
        /\ Exists(row) /\ Sound(row)
    BY <1>1, <1>2, PayRow DEF Pay
  <1>4. SetClaim(c, row)
    BY DEF Pay
  <1> HIDE DEF row
  <1>5. QED
    BY <1>1, <1>3, <1>4, Rewrite

-----------------------------------------------------------------------------
(* Creation and deletion. *)

LEMMA DraftRow ==
    ASSUME NEW d \in Dialogs, NEW ask \in Asks
    PROVE  /\ Draft(d, ask) \in ClaimRows /\ Draft(d, ask).key = d
           /\ Draft(d, ask).share = ask.share
           /\ Exists(Draft(d, ask)) /\ Sound(Draft(d, ask))
  <1>1. ask.share \in [Lots -> Shares \cup {0}] /\ TotalOf(ask) \in Totals
    BY DEF Asks, Totals
  <1>2. NoClaim \in ClaimRows /\ Sound(NoClaim) /\ NoClaim.certificate = FALSE
    BY BlankRow DEF NoClaim
  <1>3. \A r \in ClaimRows, t \in Totals :
            LET row == [r EXCEPT !.status = "draft", !.key = d, !.share = ask.share, !.total = t]
            IN  /\ row \in ClaimRows /\ row.key = d /\ row.share = ask.share
                /\ row.status = "draft" /\ row.paid = r.paid /\ row.certified = r.certified
                /\ row.history = r.history /\ row.certificate = r.certificate
    BY <1>1 DEF ClaimRows, ClaimStatuses
  <1>4. Draft(d, ask).status = "draft"
    BY <1>1, <1>2, <1>3 DEF Draft
  <1>5. Exists(Draft(d, ask))
    BY <1>4 DEF Exists, Absent
  <1>6. Sound(Draft(d, ask))
    BY <1>1, <1>2, <1>3 DEF Draft, Sound
  <1>7. QED
    BY <1>1, <1>2, <1>3, <1>5, <1>6 DEF Draft

LEMMA CreateKeeps ==
    ASSUME IInv, NEW r \in Requests, NEW c \in Claims, Create(r, c) PROVE IInv'
  <1> DEFINE d == request[r].dialog
             ask == request[r].ask
             full == {l \in Chosen(ask) : ClaimedSoFar(l) + ask.share[l] >= Whole}
  <1>1. d \in Dialogs /\ ask \in Asks
    BY DEF Create, IInv, TypeOK, Sent
  <1>2. /\ claim \in [Claims -> ClaimRows] /\ c \notin Live
    BY DEF Create, IInv, TypeOK, ClaimRows, Live, Absent
  <1>3. /\ Keyed(d) = {}
        /\ claim' = [claim EXCEPT ![c] = Draft(d, ask)]
        /\ madeFor' = [madeFor EXCEPT ![c] = d]
        /\ lotStatus' = [l \in Lots |-> IF l \in full THEN "claimed" ELSE lotStatus[l]]
        /\ lotClaim' = [l \in Lots |-> IF l \in full THEN c ELSE lotClaim[l]]
        /\ variation' = [v \in Variations |-> IF v \in ask.variations
                THEN [status |-> "claimed", claim |-> c] ELSE variation[v]]
        /\ request' = [request EXCEPT ![r] = None]
        /\ UNCHANGED removing
    BY DEF Create
  <1>4. \A l \in full : l \in Lots /\ ask.share[l] > 0
    BY DEF Chosen
  <1>5. /\ Draft(d, ask) \in ClaimRows /\ Draft(d, ask).key = d
        /\ Draft(d, ask).share = ask.share
        /\ Exists(Draft(d, ask)) /\ Sound(Draft(d, ask))
    BY <1>1, DraftRow
  <1> HIDE DEF d, ask, full
  <1>6. /\ claim' \in [Claims -> ClaimRows] /\ claim'[c] = Draft(d, ask)
        /\ \A e \in Claims \ {c} : claim'[e] = claim[e]
    BY <1>2, <1>3, <1>5
  <1>7. Live' = Live \cup {c}
    BY <1>5, <1>6 DEF Live, Exists
  <1>8. TypeOK'
    <2>1. \A e \in (Claims \ Live)' : claim'[e] = [NoClaim EXCEPT !.status = claim'[e].status]
      BY <1>6, <1>7 DEF IInv, TypeOK
    <2>2. lotStatus' \in [Lots -> LotStatuses] /\ lotClaim' \in [Lots -> Claims \cup {None}]
      BY <1>3 DEF IInv, TypeOK, LotStatuses
    <2>3. variation' \in [Variations -> [status : VariationStatuses, claim : Claims \cup {None}]]
      BY <1>3 DEF IInv, TypeOK, VariationStatuses
    <2>4. madeFor' \in [Claims -> Dialogs \cup {None}] /\ request' \in [Requests -> Sent \cup {None}]
      BY <1>1, <1>3 DEF IInv, TypeOK
    <2>5. removing' \subseteq Variations
      BY <1>3 DEF IInv, TypeOK
    <2>6. QED
      BY <1>6, <2>1, <2>2, <2>3, <2>4, <2>5 DEF TypeOK, ClaimRows
  <1>9. \A e \in Claims : Sound(claim'[e])
    BY <1>5, <1>6 DEF IInv
  <1>10. KeysTell'
    <2>1. \A e \in Live : claim[e].key # d
      BY <1>3 DEF Keyed
    <2>2. madeFor'[c] = d /\ \A e \in Claims \ {c} : madeFor'[e] = madeFor[e]
      BY <1>3 DEF IInv, TypeOK
    <2>3. QED
      BY <1>2, <1>5, <1>6, <1>7, <2>1, <2>2 DEF IInv, KeysTell, Live
  <1>11. ClaimedMeansBilled'
    <2>1. ASSUME NEW v \in Variations, variation'[v].status = "claimed"
          PROVE  variation'[v].claim \in Live'
      BY <1>3, <1>7, <2>1 DEF IInv, ClaimedMeansBilled
    <2>2. ASSUME NEW l \in Lots, lotStatus'[l] = "claimed"
          PROVE  lotClaim'[l] \in Live' /\ claim'[lotClaim'[l]].share[l] > 0
      <3>1. CASE l \in full
        BY <1>3, <1>4, <1>5, <1>6, <1>7, <3>1
      <3>2. CASE l \notin full
        BY <1>2, <1>3, <1>6, <1>7, <2>2, <3>2 DEF IInv, ClaimedMeansBilled, Live
      <3>3. QED
        BY <3>1, <3>2
    <2>3. QED
      BY <2>1, <2>2 DEF ClaimedMeansBilled
  <1>12. QED
    BY <1>8, <1>9, <1>10, <1>11 DEF IInv

LEMMA DeleteKeeps == ASSUME IInv, NEW c \in Claims, DeleteDraft(c) PROVE IInv'
  <1>1. claim \in [Claims -> ClaimRows] /\ c \in Live
    BY DEF DeleteDraft, IInv, TypeOK, ClaimRows, Live, Absent
  <1>2. /\ Erased(c) \in ClaimRows /\ Sound(Erased(c)) /\ ~Exists(Erased(c))
        /\ Erased(c) = [NoClaim EXCEPT !.status = Erased(c).status]
    <2>1. \A r \in ClaimRows :
            LET row == [r EXCEPT !.status = "deleted"]
            IN  /\ row \in ClaimRows /\ row.status = "deleted"
                /\ row.paid = r.paid /\ row.certified = r.certified
                /\ row.history = r.history /\ row.certificate = r.certificate
      BY DEF ClaimRows, ClaimStatuses, Absent
    <2>2. Erased(c) \in ClaimRows /\ Erased(c).status = "deleted"
      BY <2>1, BlankRow DEF Erased
    <2>3. Sound(Erased(c))
      BY <2>1, BlankRow DEF Erased, Sound
    <2>4. QED
      BY <2>2, <2>3 DEF Erased, Exists, Absent
  <1>3. /\ claim' \in [Claims -> ClaimRows] /\ claim'[c] = Erased(c)
        /\ \A e \in Claims \ {c} : claim'[e] = claim[e]
    BY <1>1, <1>2 DEF DeleteDraft
  <1>4. Live' = Live \ {c}
    BY <1>2, <1>3 DEF Live, Exists
  <1>5. /\ \A v \in Variations : variation'[v] = Released(v, c)
        /\ variation' \in [Variations -> [status : VariationStatuses, claim : Claims \cup {None}]]
    BY DEF DeleteDraft, Released, IInv, TypeOK, VariationStatuses
  <1>6. TypeOK'
    <2>1. \A e \in (Claims \ Live)' : claim'[e] = [NoClaim EXCEPT !.status = claim'[e].status]
      BY <1>2, <1>3, <1>4 DEF IInv, TypeOK
    <2>2. lotStatus' \in [Lots -> LotStatuses] /\ lotClaim' \in [Lots -> Claims \cup {None}]
      BY DEF DeleteDraft, IInv, TypeOK, LotStatuses
    <2>3. QED
      BY <1>3, <1>5, <2>1, <2>2 DEF DeleteDraft, IInv, TypeOK, ClaimRows
  <1>7. \A e \in Claims : Sound(claim'[e])
    BY <1>2, <1>3 DEF IInv
  <1>8. KeysTell'
    <2>1. madeFor' = madeFor
      BY DEF DeleteDraft
    <2>2. \A e \in Live' : e \in Live /\ claim'[e] = claim[e]
      BY <1>3, <1>4 DEF Live
    <2>3. QED
      BY <2>1, <2>2 DEF IInv, KeysTell
  <1>9. ClaimedMeansBilled'
    <2>1. ASSUME NEW v \in Variations, variation'[v].status = "claimed"
          PROVE  variation'[v].claim \in Live'
      <3>1. CASE variation[v].claim = c
        BY <1>5, <2>1, <3>1 DEF Released
      <3>2. CASE variation[v].claim # c
        BY <1>4, <1>5, <2>1, <3>2 DEF Released, IInv, ClaimedMeansBilled
      <3>3. QED
        BY <3>1, <3>2
    <2>2. ASSUME NEW l \in Lots, lotStatus'[l] = "claimed"
          PROVE  lotClaim'[l] \in Live' /\ claim'[lotClaim'[l]].share[l] > 0
      <3>1. lotStatus[l] = "claimed" /\ lotClaim[l] # c /\ lotClaim'[l] = lotClaim[l]
        BY <2>2 DEF DeleteDraft
      <3>2. QED
        BY <1>3, <1>4, <3>1 DEF IInv, ClaimedMeansBilled, Live
    <2>3. QED
      BY <2>1, <2>2 DEF ClaimedMeansBilled
  <1>10. QED
    BY <1>6, <1>7, <1>8, <1>9 DEF IInv

-----------------------------------------------------------------------------
(* Steps that write no claim. *)

\* Requests and removals in flight are no concern of the rest.
LEMMA AsideKeeps ==
    ASSUME IInv, UNCHANGED <<lotStatus, lotClaim, variation, claim, madeFor>>,
           request' \in [Requests -> Sent \cup {None}], removing' \subseteq Variations
    PROVE  IInv'
BY DEF IInv, TypeOK, KeysTell, ClaimedMeansBilled, Live

LEMMA VariationKeeps ==
    ASSUME IInv, NEW v \in Variations, NEW row \in [status : VariationStatuses, claim : Claims \cup {None}],
           row.status # "claimed", variation' = [variation EXCEPT ![v] = row],
           removing' \subseteq Variations,
           UNCHANGED <<lotStatus, lotClaim, claim, madeFor, request>>
    PROVE  IInv'
  <1>1. variation' \in [Variations -> [status : VariationStatuses, claim : Claims \cup {None}]]
    BY DEF IInv, TypeOK
  <1>2. Live' = Live
    BY DEF Live
  <1>3. ClaimedMeansBilled'
    <2>1. \A u \in Variations : variation'[u].status = "claimed" =>
              variation[u].status = "claimed" /\ variation'[u].claim = variation[u].claim
      BY DEF IInv, TypeOK
    <2>2. QED
      BY <1>2, <2>1 DEF IInv, ClaimedMeansBilled
  <1>4. QED
    BY <1>1, <1>2, <1>3 DEF IInv, TypeOK, KeysTell

LEMMA MoveKeeps ==
    ASSUME IInv, NEW v \in Variations, NEW s \in VariationStatuses, MoveVariation(v, s)
    PROVE  IInv'
  <1> DEFINE row == [variation[v] EXCEPT !.status = s]
  <1>1. variation[v] \in [status : VariationStatuses, claim : Claims \cup {None}]
    BY DEF IInv, TypeOK
  <1>2. row \in [status : VariationStatuses, claim : Claims \cup {None}] /\ row.status = s
    BY <1>1
  <1>3. s # "claimed"
    BY DEF MoveVariation, VariationMoves
  <1>4. /\ variation' = [variation EXCEPT ![v] = row]
        /\ removing' \subseteq Variations
        /\ UNCHANGED <<lotStatus, lotClaim, claim, madeFor, request>>
    BY DEF MoveVariation, IInv, TypeOK
  <1> HIDE DEF row
  <1>5. QED
    BY <1>2, <1>3, <1>4, VariationKeeps

LEMMA RemoveKeeps == ASSUME IInv, NEW v \in Variations, RemoveVariation(v) PROVE IInv'
  <1> DEFINE row == [status |-> "removed", claim |-> None]
  <1>1. /\ row \in [status : VariationStatuses, claim : Claims \cup {None}]
        /\ row.status # "claimed"
    BY DEF VariationStatuses
  <1>2. /\ variation' = [variation EXCEPT ![v] = row]
        /\ removing' \subseteq Variations
        /\ UNCHANGED <<lotStatus, lotClaim, claim, madeFor, request>>
    BY DEF RemoveVariation, IInv, TypeOK
  <1> HIDE DEF row
  <1>3. QED
    BY <1>1, <1>2, VariationKeeps

LEMMA LotKeeps ==
    ASSUME IInv, NEW l \in Lots, NEW s \in {"open", "conformed"}, SetLot(l, s) PROVE IInv'
  <1>1. lotStatus' \in [Lots -> LotStatuses]
    BY DEF SetLot, IInv, TypeOK, LotStatuses
  <1>2. Live' = Live
    BY DEF SetLot, Live
  <1>3. ClaimedMeansBilled'
    <2>1. \A k \in Lots : lotStatus'[k] = "claimed" => lotStatus[k] = "claimed"
      BY DEF SetLot, IInv, TypeOK
    <2>2. QED
      BY <1>2, <2>1 DEF SetLot, IInv, ClaimedMeansBilled
  <1>4. QED
    BY <1>1, <1>2, <1>3 DEF SetLot, IInv, TypeOK, KeysTell

-----------------------------------------------------------------------------

LEMMA Step == IInv /\ [Next]_vars => IInv'
  <1> SUFFICES ASSUME IInv, [Next]_vars PROVE IInv'
    OBVIOUS
  <1>1. ASSUME NEW r \in Requests, NEW d \in Dialogs, NEW ask \in Asks, FindByKey(r, d, ask)
        PROVE  IInv'
    <2>1. request' \in [Requests -> Sent \cup {None}] /\ removing' \subseteq Variations
      BY <1>1 DEF FindByKey, IInv, TypeOK, Sent
    <2>2. QED
      BY <1>1, <2>1, AsideKeeps DEF FindByKey
  <1>2. ASSUME NEW r \in Requests, CreateEnds(r) PROVE IInv'
    <2>1. request' \in [Requests -> Sent \cup {None}] /\ removing' \subseteq Variations
      BY <1>2 DEF CreateEnds, IInv, TypeOK
    <2>2. QED
      BY <1>2, <2>1, AsideKeeps DEF CreateEnds
  <1>3. ASSUME NEW v \in Variations, CheckRemoval(v) PROVE IInv'
    <2>1. request' \in [Requests -> Sent \cup {None}] /\ removing' \subseteq Variations
      BY <1>3 DEF CheckRemoval, IInv, TypeOK
    <2>2. QED
      BY <1>3, <2>1, AsideKeeps DEF CheckRemoval
  <1>4. CASE UNCHANGED vars
    BY <1>4, AsideKeeps DEF vars, IInv, TypeOK
  <1>5. CASE CreateStep
    BY <1>1, <1>2, <1>5, CreateKeeps DEF CreateStep
  <1>6. CASE ClaimStep
    BY <1>6, SubmitStep, CertifyStep, DisputeStep, MarkPaidStep, PayStep, DeleteKeeps DEF ClaimStep
  <1>7. CASE VariationStep
    BY <1>3, <1>7, MoveKeeps, RemoveKeeps DEF VariationStep
  <1>8. CASE LotStep
    BY <1>8, LotKeeps DEF LotStep, Conform, LoseConformance
  <1>9. QED
    BY <1>4, <1>5, <1>6, <1>7, <1>8 DEF Next

\* Every column and every request in flight keeps its type, whatever is created,
\* certified, disputed, paid and deleted: workflowRoutes.ts and
\* postEvidenceWorkflowRoutes.ts write no row that the schema would not take.
THEOREM TypeCorrect == Spec => []TypeOK
  <1>1. IInv => TypeOK
    BY DEF IInv
  <1>2. QED
    BY <1>1, Start, Step, PTL DEF Spec

\* A claim is never paid beyond what is certified (assertCertifiedAmountCoversPaid),
\* for any amounts and any number of disputes and instalments.
THEOREM NeverOverpaid == Spec => []PaidWithinCertified
  <1>1. IInv => PaidWithinCertified
    BY DEF IInv, Sound, PaidWithinCertified
  <1>2. QED
    BY <1>1, Start, Step, PTL DEF Spec

\* However many requests of one dialog run and are repeated, one claim that it made
\* exists at most (the unique request key of workflowRoutes.ts).
THEOREM DialogsBillOnce == Spec => []RetriesBillOnce
  <1>1. IInv => RetriesBillOnce
    BY DEF IInv, KeysTell, RetriesBillOnce
  <1>2. QED
    BY <1>1, Start, Step, PTL DEF Spec

\* What is marked as claimed hangs on a claim that exists, through creations,
\* deletions, removals and reopened lots.
THEOREM ClaimedIsBilled == Spec => []ClaimedMeansBilled
  <1>1. IInv => ClaimedMeansBilled
    BY DEF IInv
  <1>2. QED
    BY <1>1, Start, Step, PTL DEF Spec

-----------------------------------------------------------------------------
(* Recorded payments. *)

\* A step that changes no payment on record.
Records == \A c \in Claims, p \in Payments :
    claim[c].history[p] > 0 => claim'[c].history[p] = claim[c].history[p]

LEMMA RewriteRecords ==
    ASSUME IInv, NEW c \in Claims, NEW row, SetClaim(c, row),
           \A p \in Payments : claim[c].history[p] > 0 => row.history[p] = claim[c].history[p]
    PROVE  Records
BY DEF SetClaim, IInv, TypeOK, Records

LEMMA StepRecords == IInv /\ [Next]_vars => Records
  <1> SUFFICES ASSUME IInv, [Next]_vars PROVE Records
    OBVIOUS
  <1>0. /\ claim \in [Claims -> ClaimRows]
        /\ \A c \in Claims : claim[c] \in ClaimRows /\ Sound(claim[c])
    BY DEF IInv, TypeOK, ClaimRows
  <1>1. ASSUME claim' = claim PROVE Records
    BY <1>1 DEF Records
  <1>2. ASSUME NEW c \in Claims, Submit(c) \/ MarkPaid(c) PROVE Records
    <2> DEFINE sent == [claim[c] EXCEPT !.status = "submitted"]
               settled == [claim[c] EXCEPT !.status = "paid", !.paid = claim[c].certified]
    <2>1. sent.history = claim[c].history /\ settled.history = claim[c].history
      BY <1>0 DEF ClaimRows
    <2>2. SetClaim(c, sent) \/ SetClaim(c, settled)
      BY <1>2 DEF Submit, MarkPaid
    <2> HIDE DEF sent, settled
    <2>3. QED
      BY <2>1, <2>2, RewriteRecords
  <1>3. ASSUME NEW c \in Claims, NEW amount \in Amounts, Certify(c, amount) PROVE Records
    <2>1. SetClaim(c, Certified(claim[c], amount, TRUE))
      BY <1>3 DEF Certify, Certified
    <2>2. Certified(claim[c], amount, TRUE).history = claim[c].history
      BY <1>0 DEF Certified, ClaimRows
    <2>3. QED
      BY <2>1, <2>2, RewriteRecords
  <1>4. ASSUME NEW c \in Claims, Dispute(c) PROVE Records
    <2> DEFINE row == [claim[c] EXCEPT !.status = "disputed",
                                       !.history = DisputedNotes(claim[c])]
    <2>1. SetClaim(c, row)
      BY <1>4 DEF Dispute
    <2>2. row.history = DisputedNotes(claim[c])
      BY <1>0 DEF ClaimRows
    <2>3. \A p \in Payments : claim[c].history[p] > 0 =>
              DisputedNotes(claim[c])[p] = claim[c].history[p]
      BY <1>0 DEF DisputedNotes, Sound
    <2> HIDE DEF row
    <2>4. QED
      BY <2>1, <2>2, <2>3, RewriteRecords
  <1>5. ASSUME NEW c \in Claims, NEW p \in Payments, NEW amount \in Amounts, Pay(c, p, amount)
        PROVE  Records
    <2> DEFINE row == [claim[c] EXCEPT
                          !.status = IF claim[c].paid + amount = claim[c].certified
                                     THEN "paid" ELSE "partially_paid",
                          !.paid = @ + amount,
                          !.history[p] = amount]
    <2>1. SetClaim(c, row)
      BY <1>5 DEF Pay
    <2>2. ~(claim[c].history[p] > 0)
      BY <1>5 DEF Pay, IsReplay
    <2>3. row.history = [claim[c].history EXCEPT ![p] = amount]
      BY <1>0 DEF ClaimRows
    <2>4. claim[c].history \in [Payments -> Nat]
      BY <1>0 DEF ClaimRows
    <2> HIDE DEF row
    <2>5. \A q \in Payments : claim[c].history[q] > 0 => row.history[q] = claim[c].history[q]
      BY <2>2, <2>3, <2>4
    <2>6. QED
      BY <2>1, <2>5, RewriteRecords
  <1>6. ASSUME NEW c \in Claims, DeleteDraft(c) PROVE Records
    <2>1. \A p \in Payments : ~(claim[c].history[p] > 0)
      BY <1>0, <1>6 DEF DeleteDraft, Sound
    <2>2. \A e \in Claims \ {c} : claim'[e] = claim[e]
      BY <1>0, <1>6 DEF DeleteDraft
    <2>3. QED
      BY <2>1, <2>2 DEF Records
  <1>7. ASSUME NEW r \in Requests, NEW c \in Claims, Create(r, c) PROVE Records
    <2>1. claim[c] = [NoClaim EXCEPT !.status = claim[c].status]
      BY <1>7 DEF Create, IInv, TypeOK, Live, Absent
    <2>2. \A p \in Payments : claim[c].history[p] = 0
      BY <2>1 DEF NoClaim
    <2>3. \A e \in Claims \ {c} : claim'[e] = claim[e]
      BY <1>0, <1>7 DEF Create
    <2>4. QED
      BY <2>2, <2>3 DEF Records
  <1>8. CASE CreateStep
    BY <1>1, <1>7, <1>8 DEF CreateStep, FindByKey, CreateEnds
  <1>9. CASE ClaimStep
    BY <1>2, <1>3, <1>4, <1>5, <1>6, <1>9 DEF ClaimStep
  <1>10. CASE VariationStep
    BY <1>1, <1>10 DEF VariationStep, MoveVariation, CheckRemoval, RemoveVariation
  <1>11. CASE LotStep \/ UNCHANGED vars
    BY <1>1, <1>11 DEF LotStep, Conform, LoseConformance, SetLot, vars
  <1>12. QED
    BY <1>8, <1>9, <1>10, <1>11 DEF Next

\* No step touches a payment on record, a dispute that rewrites the notes included:
\* serializeDisputeNotesForStatusTransition keeps the column where a certificate is
\* in it, and payments are recorded beside certificates only.
THEOREM PaymentsAreKept == Spec => PaymentsStayRecorded
  <1>1. IInv /\ [Next]_vars => [Records]_vars
    BY StepRecords
  <1>2. IInv /\ [Next]_vars => [\A c \in Claims, p \in Payments :
            claim[c].history[p] > 0 => claim'[c].history[p] = claim[c].history[p]]_vars
    BY <1>1 DEF Records
  <1>3. QED
    BY <1>2, Start, Step, PTL DEF Spec, PaymentsStayRecorded

-----------------------------------------------------------------------------
(* Sums.  What a claim takes of a lot, and what a payment adds to a claim, *)
(* is a set of units of its own, disjoint from those that are there.       *)

LEMMA Column ==
    ASSUME NEW x, NEW n \in Nat
    PROVE  IsFiniteSet({x} \X (1..n)) /\ Cardinality({x} \X (1..n)) = n
  <1>1. IsFiniteSet({x}) /\ Cardinality({x}) = 1
    BY FS_Singleton
  <1>2. IsFiniteSet(1..n) /\ Cardinality(1..n) = n
    BY FS_Interval
  <1>3. /\ IsFiniteSet({x} \X (1..n))
        /\ Cardinality({x} \X (1..n)) = Cardinality({x}) * Cardinality(1..n)
    BY <1>1, <1>2, FS_Product, Zenon
  <1>4. QED
    BY <1>1, <1>2, <1>3

LEMMA AddColumn ==
    ASSUME NEW S, IsFiniteSet(S), NEW x, NEW n \in Nat, \A u \in S : u[1] # x
    PROVE  /\ IsFiniteSet(S \cup ({x} \X (1..n)))
           /\ Cardinality(S \cup ({x} \X (1..n))) = Cardinality(S) + n
  <1> DEFINE T == {x} \X (1..n)
  <1>1. IsFiniteSet(T) /\ Cardinality(T) = n
    BY Column
  <1>2. S \cap T = {}
    OBVIOUS
  <1>3. Cardinality(S) \in Nat
    BY FS_CardinalityType
  <1> HIDE DEF T
  <1>4. /\ IsFiniteSet(S \cup T)
        /\ Cardinality(S \cup T) = Cardinality(S) + Cardinality(T) - Cardinality(S \cap T)
    BY <1>1, FS_Union
  <1>5. Cardinality(S \cap T) = 0
    BY <1>2, FS_EmptySet
  <1>6. /\ IsFiniteSet(S \cup T)
        /\ Cardinality(S \cup T) = Cardinality(S) + n
    BY <1>1, <1>3, <1>4, <1>5
  <1>7. QED
    BY <1>6 DEF T

\* What a row received is what its history adds up to, or it was settled by hand.
Reconciled(row) ==
    /\ IsFiniteSet(Units(row))
    /\ \/ row.paid = Recorded(row)
       \/ row.status = "paid" /\ row.paid = row.certified /\ Recorded(row) <= row.paid

Money == \A c \in Claims : Reconciled(claim[c])

LEMMA NothingRecorded ==
    ASSUME NEW row, \A p \in Payments : row.history[p] = 0
    PROVE  IsFiniteSet(Units(row)) /\ Recorded(row) = 0
  <1>1. \A p \in Payments : {p} \X (1..row.history[p]) = {}
    OBVIOUS
  <1>2. Units(row) = {}
    BY <1>1 DEF Units
  <1>3. QED
    BY <1>2, FS_EmptySet DEF Recorded

LEMMA SameUnits ==
    ASSUME NEW r, NEW row, row.history = r.history
    PROVE  Units(row) = Units(r) /\ Recorded(row) = Recorded(r)
BY DEF Units, Recorded

\* Beside a payment on record, a new one adds its amount.
LEMMA AddPayment ==
    ASSUME NEW r \in ClaimRows, IsFiniteSet(Units(r)), NEW p \in Payments, NEW amount \in Nat,
           r.history[p] = 0, NEW row, row.history = [r.history EXCEPT ![p] = amount]
    PROVE  IsFiniteSet(Units(row)) /\ Recorded(row) = Recorded(r) + amount
  <1>1. r.history \in [Payments -> Nat]
    BY DEF ClaimRows
  <1>2. {p} \X (1..r.history[p]) = {}
    OBVIOUS
  <1>3. \A q \in Payments : row.history[q] = IF q = p THEN amount ELSE r.history[q]
    BY <1>1
  <1>4. Units(row) = Units(r) \cup ({p} \X (1..amount))
    BY <1>2, <1>3 DEF Units
  <1>5. \A u \in Units(r) : u[1] # p
    BY <1>2 DEF Units
  <1> DEFINE S == Units(r)
  <1> HIDE DEF S
  <1>6. /\ IsFiniteSet(S \cup ({p} \X (1..amount)))
        /\ Cardinality(S \cup ({p} \X (1..amount))) = Cardinality(S) + amount
    BY <1>5, AddColumn DEF S
  <1>7. QED
    BY <1>4, <1>6 DEF Recorded, S

\* The rows that the handlers write keep the books.
LEMMA BooksKept ==
    ASSUME NEW r \in ClaimRows, NEW row \in ClaimRows, Reconciled(r),
           row.history = r.history, row.paid = r.paid, r.paid = Recorded(r)
    PROVE  Reconciled(row)
BY SameUnits DEF Reconciled

LEMMA NotSettled ==
    ASSUME NEW r, Reconciled(r), r.status # "paid" PROVE r.paid = Recorded(r)
BY DEF Reconciled

LEMMA MoneyWritten ==
    ASSUME IInv, Money, NEW c \in Claims, NEW row, SetClaim(c, row), Reconciled(row)
    PROVE  Money'
  <1>1. \A e \in Claims : claim'[e] = IF e = c THEN row ELSE claim[e]
    BY DEF SetClaim, IInv, TypeOK
  <1>2. \A e \in Claims : Reconciled(claim'[e])
    BY <1>1 DEF Money
  <1>3. QED
    BY <1>2 DEF Money

LEMMA MoneyStep == IInv /\ Money /\ [Next]_vars => Money'
  <1> SUFFICES ASSUME IInv, Money, [Next]_vars PROVE Money'
    OBVIOUS
  <1>0. /\ claim \in [Claims -> ClaimRows]
        /\ \A c \in Claims : claim[c] \in ClaimRows /\ Sound(claim[c]) /\ Reconciled(claim[c])
    BY DEF IInv, TypeOK, ClaimRows, Money
  <1>1. ASSUME claim' = claim PROVE Money'
    BY <1>1 DEF Money
  <1>2. ASSUME NEW c \in Claims, Submit(c) PROVE Money'
    <2> DEFINE row == [claim[c] EXCEPT !.status = "submitted"]
    <2>1. row \in ClaimRows /\ row.history = claim[c].history /\ row.paid = claim[c].paid
      BY <1>0 DEF ClaimRows, ClaimStatuses
    <2>2. SetClaim(c, row) /\ claim[c].status # "paid"
      BY <1>2 DEF Submit
    <2> HIDE DEF row
    <2>3. Reconciled(row)
      BY <1>0, <2>1, <2>2, NotSettled, BooksKept
    <2>4. QED
      BY <2>2, <2>3, MoneyWritten
  <1>3. ASSUME NEW c \in Claims, NEW amount \in Amounts, Certify(c, amount) PROVE Money'
    <2> DEFINE row == Certified(claim[c], amount, TRUE)
    <2>1. amount \in Nat /\ claim[c].paid <= amount /\ claim[c].status # "paid"
      BY <1>3, ConstantsAssumption DEF Certify, MayCertify
    <2>2. row.history = claim[c].history /\ row.paid = claim[c].paid
      BY <1>0, <2>1 DEF Certified, ClaimRows
    <2>3. row \in ClaimRows
      BY <1>0, <2>1, CertifyRow
    <2>4. SetClaim(c, row)
      BY <1>3 DEF Certify, Certified
    <2> HIDE DEF row
    <2>5. Reconciled(row)
      BY <1>0, <2>1, <2>2, <2>3, NotSettled, BooksKept
    <2>6. QED
      BY <2>4, <2>5, MoneyWritten
  <1>4. ASSUME NEW c \in Claims, Dispute(c) PROVE Money'
    <2> DEFINE row == [claim[c] EXCEPT !.status = "disputed",
                                       !.history = DisputedNotes(claim[c])]
    <2>1. DisputedNotes(claim[c]) = claim[c].history
      <3>1. CASE claim[c].certificate
        BY <3>1 DEF DisputedNotes
      <3>2. CASE ~claim[c].certificate
        <4>1. claim[c].history \in [Payments -> Nat]
          BY <1>0 DEF ClaimRows
        <4>2. \A p \in Payments : claim[c].history[p] = 0
          BY <1>0, <3>2, <4>1 DEF Sound
        <4>3. QED
          BY <3>2, <4>1, <4>2 DEF DisputedNotes
      <3>3. QED
        BY <3>1, <3>2
    <2>2. row \in ClaimRows /\ row.history = claim[c].history /\ row.paid = claim[c].paid
      BY <1>0, <2>1 DEF ClaimRows, ClaimStatuses
    <2>3. SetClaim(c, row) /\ claim[c].status # "paid"
      BY <1>4 DEF Dispute
    <2> HIDE DEF row
    <2>4. Reconciled(row)
      BY <1>0, <2>2, <2>3, NotSettled, BooksKept
    <2>5. QED
      BY <2>3, <2>4, MoneyWritten
  <1>5. ASSUME NEW c \in Claims, MarkPaid(c) PROVE Money'
    <2> DEFINE row == [claim[c] EXCEPT !.status = "paid", !.paid = claim[c].certified]
    <2>1. /\ row.history = claim[c].history /\ row.status = "paid"
          /\ row.paid = row.certified /\ row.certified = claim[c].certified
      BY <1>0 DEF ClaimRows
    <2>2. SetClaim(c, row) /\ claim[c].status # "paid"
      BY <1>5 DEF MarkPaid
    <2>3. claim[c].paid = Recorded(claim[c]) /\ claim[c].paid <= claim[c].certified
      BY <1>0, <2>2, NotSettled DEF Sound
    <2> HIDE DEF row
    <2>4. Units(row) = Units(claim[c]) /\ Recorded(row) = Recorded(claim[c])
      BY <2>1, SameUnits
    <2>5. Reconciled(row)
      BY <1>0, <2>1, <2>3, <2>4 DEF Reconciled
    <2>6. QED
      BY <2>2, <2>5, MoneyWritten
  <1>6. ASSUME NEW c \in Claims, NEW p \in Payments, NEW amount \in Amounts, Pay(c, p, amount)
        PROVE  Money'
    <2> DEFINE row == [claim[c] EXCEPT
                          !.status = IF claim[c].paid + amount = claim[c].certified
                                     THEN "paid" ELSE "partially_paid",
                          !.paid = @ + amount,
                          !.history[p] = amount]
    <2>1. SetClaim(c, row) /\ claim[c].status # "paid" /\ amount \in Nat
      BY <1>6, ConstantsAssumption DEF Pay
    <2>2. claim[c].history[p] = 0
      BY <1>0, <1>6 DEF Pay, IsReplay, ClaimRows
    <2>3. /\ row.history = [claim[c].history EXCEPT ![p] = amount]
          /\ row.paid = claim[c].paid + amount
      BY <1>0 DEF ClaimRows
    <2>4. claim[c].paid = Recorded(claim[c]) /\ IsFiniteSet(Units(claim[c]))
      BY <1>0, <2>1, NotSettled DEF Reconciled
    <2> HIDE DEF row
    <2>5. IsFiniteSet(Units(row)) /\ Recorded(row) = Recorded(claim[c]) + amount
      BY <1>0, <2>1, <2>2, <2>3, <2>4, AddPayment
    <2>6. Reconciled(row)
      BY <2>3, <2>4, <2>5 DEF Reconciled
    <2>7. QED
      BY <2>1, <2>6, MoneyWritten
  <1>7. ASSUME NEW c \in Claims, NEW row, row.paid = 0, \A p \in Payments : row.history[p] = 0,
               claim' = [claim EXCEPT ![c] = row]
        PROVE  Money'
    <2>1. Reconciled(row)
      BY <1>7, NothingRecorded DEF Reconciled
    <2>2. \A e \in Claims : claim'[e] = IF e = c THEN row ELSE claim[e]
      BY <1>0, <1>7
    <2>3. \A e \in Claims : Reconciled(claim'[e])
      BY <1>0, <2>1, <2>2
    <2>4. QED
      BY <2>3 DEF Money
  <1>8. ASSUME NEW c \in Claims, DeleteDraft(c) PROVE Money'
    <2>1. Erased(c).paid = 0 /\ \A p \in Payments : Erased(c).history[p] = 0
      BY DEF Erased, NoClaim
    <2>2. claim' = [claim EXCEPT ![c] = Erased(c)]
      BY <1>8 DEF DeleteDraft
    <2>3. QED
      BY <1>7, <2>1, <2>2
  <1>9. ASSUME NEW r \in Requests, NEW c \in Claims, Create(r, c) PROVE Money'
    <2> DEFINE row == Draft(request[r].dialog, request[r].ask)
    <2>1. row.paid = 0 /\ \A p \in Payments : row.history[p] = 0
      BY DEF Draft, NoClaim
    <2>2. claim' = [claim EXCEPT ![c] = row]
      BY <1>9 DEF Create
    <2>3. QED
      BY <1>7, <2>1, <2>2
  <1>10. CASE UNCHANGED vars
    BY <1>1, <1>10 DEF vars
  <1>11. CASE CreateStep
    BY <1>1, <1>9, <1>11 DEF CreateStep, FindByKey, CreateEnds
  <1>12. CASE ClaimStep
    BY <1>2, <1>3, <1>4, <1>5, <1>6, <1>8, <1>12 DEF ClaimStep
  <1>13. CASE VariationStep
    BY <1>1, <1>13 DEF VariationStep, MoveVariation, CheckRemoval, RemoveVariation
  <1>14. CASE LotStep
    BY <1>1, <1>14 DEF LotStep, Conform, LoseConformance, SetLot
  <1>15. QED
    BY <1>10, <1>11, <1>12, <1>13, <1>14 DEF Next

\* What a claim received is what its recorded payments add up to, through disputes,
\* new certifications and repeated payments, unless it was settled by hand as a
\* whole: the books of postEvidenceWorkflowRoutes.ts, for any payments and amounts.
THEOREM BooksBalance == Spec => []PaymentsReconcile
  <1>1. Init => Money
    <2> SUFFICES ASSUME Init, NEW c \in Claims PROVE Reconciled(claim[c])
      BY DEF Money
    <2>1. claim[c].paid = 0 /\ \A p \in Payments : claim[c].history[p] = 0
      BY DEF Init, NoClaim
    <2>2. QED
      BY <2>1, NothingRecorded DEF Reconciled
  <1>2. Money => PaymentsReconcile
    BY DEF Money, Reconciled, PaymentsReconcile, Live
  <1>3. QED
    BY <1>1, <1>2, Start, Step, MoneyStep, PTL DEF Spec

-----------------------------------------------------------------------------
(* The budget of a lot. *)

Within == \A l \in Lots : IsFiniteSet(BilledOn(Live, l)) /\ ClaimedSoFar(l) <= Whole

\* Where no claim joins and no share changes, nothing more is billed.
LEMMA WithinShrinks ==
    ASSUME Within, Live' \subseteq Live, \A c \in Live' : claim'[c].share = claim[c].share
    PROVE  Within'
  <1> SUFFICES ASSUME NEW l \in Lots
               PROVE  IsFiniteSet(BilledOn(Live, l)') /\ Cardinality(BilledOn(Live, l)') <= Whole
    BY DEF Within, ClaimedSoFar
  <1> DEFINE S == BilledOn(Live, l)
             T == BilledOn(Live, l)'
  <1>1. IsFiniteSet(S) /\ Cardinality(S) <= Whole
    BY DEF Within, ClaimedSoFar
  <1>2. T \in SUBSET S
    BY DEF BilledOn
  <1> HIDE DEF S, T
  <1>3. IsFiniteSet(T) /\ Cardinality(T) <= Cardinality(S)
    BY <1>1, <1>2, FS_Subset
  <1>4. Cardinality(S) \in Nat /\ Cardinality(T) \in Nat
    BY <1>1, <1>3, FS_CardinalityType
  <1>5. IsFiniteSet(T) /\ Cardinality(T) <= Whole
    BY <1>1, <1>3, <1>4 DEF Whole
  <1>6. QED
    BY <1>5 DEF T

\* A new claim adds the shares it asks, and each was found to fit.
LEMMA WithinCreates ==
    ASSUME IInv, Within, NEW r \in Requests, NEW c \in Claims, Create(r, c) PROVE Within'
  <1> DEFINE ask == request[r].ask
             d == request[r].dialog
  <1>1. /\ ask \in Asks /\ d \in Dialogs /\ Claimable(ask)
        /\ claim \in [Claims -> ClaimRows] /\ c \notin Live
    BY DEF Create, IInv, TypeOK, Sent, ClaimRows, Live, Absent
  <1>2. Draft(d, ask).share = ask.share /\ Exists(Draft(d, ask))
    BY <1>1, DraftRow
  <1>3. \A e \in Claims : claim'[e] = IF e = c THEN Draft(d, ask) ELSE claim[e]
    BY <1>1 DEF Create
  <1>4. /\ Live' = Live \cup {c} /\ claim'[c].share = ask.share
        /\ \A e \in Live : claim'[e].share = claim[e].share
    BY <1>1, <1>2, <1>3 DEF Live, Exists
  <1> SUFFICES ASSUME NEW l \in Lots
               PROVE  IsFiniteSet(BilledOn(Live, l)') /\ Cardinality(BilledOn(Live, l)') <= Whole
    BY DEF Within, ClaimedSoFar
  <1> DEFINE n == ask.share[l]
             S == BilledOn(Live, l)
             T == BilledOn(Live, l)'
  <1>5. n \in Nat
    <2>1. \A a \in Asks : a.share \in [Lots -> Shares \cup {0}]
      BY DEF Asks
    <2>2. \A s \in Shares : s \in Nat
      BY ConstantsAssumption DEF Whole
    <2>3. \A a \in Asks, k \in Lots : a.share[k] \in Nat
      <3>1. TAKE a \in Asks, k \in Lots
      <3>2. a.share[k] \in Shares \cup {0}
        BY <2>1
      <3>3. QED
        BY <2>2, <3>2
    <2>4. QED
      BY <1>1, <2>3
  <1>6. T = S \cup ({c} \X (1..n))
    BY <1>4 DEF BilledOn
  <1>7. IsFiniteSet(S) /\ Cardinality(S) <= Whole
    BY DEF Within, ClaimedSoFar
  <1>8. n > 0 => Cardinality(S) + n <= Whole
    BY <1>1 DEF Claimable, Chosen, ClaimedSoFar
  <1>9. \A u \in S : u[1] # c
    BY <1>1 DEF BilledOn
  <1> HIDE DEF n, S, T, ask, d
  <1>10. IsFiniteSet(T) /\ Cardinality(T) = Cardinality(S) + n
    BY <1>5, <1>6, <1>7, <1>9, AddColumn
  <1>11. Cardinality(S) \in Nat
    BY <1>7, FS_CardinalityType
  <1>12. IsFiniteSet(T) /\ Cardinality(T) <= Whole
    BY <1>5, <1>7, <1>8, <1>10, <1>11 DEF Whole
  <1>13. QED
    BY <1>12 DEF T

LEMMA WithinStep == IInv /\ Within /\ [Next]_vars => Within'
  <1> SUFFICES ASSUME IInv, Within, [Next]_vars PROVE Within'
    OBVIOUS
  <1>0. \A c \in Claims : claim[c] \in ClaimRows /\ Sound(claim[c])
    BY DEF IInv, TypeOK, ClaimRows
  <1>1. ASSUME claim' = claim PROVE Within'
    BY <1>1, WithinShrinks DEF Live
  <1>2. ASSUME NEW c \in Claims,
               \/ Submit(c) \/ Dispute(c) \/ MarkPaid(c)
               \/ \E amount \in Amounts : Certify(c, amount)
               \/ \E p \in Payments, amount \in Amounts : Pay(c, p, amount)
        PROVE  claim'[c].share = claim[c].share /\ \A e \in Claims \ {c} : claim'[e] = claim[e]
    <2>1. claim \in [Claims -> ClaimRows]
      BY DEF IInv, TypeOK, ClaimRows
    <2>2. CASE Submit(c)
      BY <2>1, <2>2 DEF Submit, SetClaim, ClaimRows
    <2>3. CASE Dispute(c)
      BY <2>1, <2>3 DEF Dispute, SetClaim, ClaimRows
    <2>4. CASE MarkPaid(c)
      BY <2>1, <2>4 DEF MarkPaid, SetClaim, ClaimRows
    <2>5. CASE \E amount \in Amounts : Certify(c, amount)
      BY <2>1, <2>5 DEF Certify, SetClaim, ClaimRows
    <2>6. CASE \E p \in Payments, amount \in Amounts : Pay(c, p, amount)
      BY <2>1, <2>6 DEF Pay, SetClaim, ClaimRows
    <2>7. QED
      BY <1>2, <2>2, <2>3, <2>4, <2>5, <2>6
  <1>3. ASSUME NEW c \in Claims,
               \/ Submit(c) \/ Dispute(c) \/ MarkPaid(c)
               \/ \E amount \in Amounts : Certify(c, amount)
               \/ \E p \in Payments, amount \in Amounts : Pay(c, p, amount)
        PROVE  Within'
    <2>1. c \in Live
      BY <1>3 DEF Submit, Dispute, MarkPaid, Certify, Pay, Live, Absent
    <2>2. Live' \subseteq Live /\ \A e \in Live' : claim'[e].share = claim[e].share
      BY <1>2, <1>3, <2>1 DEF Live
    <2>3. QED
      BY <2>2, WithinShrinks
  <1>4. ASSUME NEW c \in Claims, DeleteDraft(c) PROVE Within'
    <2>1. \A e \in Claims : claim'[e] = IF e = c THEN Erased(c) ELSE claim[e]
      BY <1>4 DEF DeleteDraft, IInv, TypeOK
    <2>2. Erased(c).status \in Absent
      BY DEF Erased, NoClaim, Absent
    <2>3. Live' \subseteq Live /\ c \notin Live'
      BY <2>1, <2>2 DEF Live
    <2>4. \A e \in Live' : claim'[e].share = claim[e].share
      BY <2>1, <2>3 DEF Live
    <2>5. QED
      BY <2>3, <2>4, WithinShrinks
  <1>5. CASE UNCHANGED vars
    BY <1>1, <1>5 DEF vars
  <1>6. CASE CreateStep
    BY <1>1, <1>6, WithinCreates DEF CreateStep, FindByKey, CreateEnds
  <1>7. CASE ClaimStep
    BY <1>3, <1>4, <1>7 DEF ClaimStep
  <1>8. CASE VariationStep
    BY <1>1, <1>8 DEF VariationStep, MoveVariation, CheckRemoval, RemoveVariation
  <1>9. CASE LotStep
    BY <1>1, <1>9 DEF LotStep, Conform, LoseConformance, SetLot
  <1>10. QED
    BY <1>5, <1>6, <1>7, <1>8, <1>9 DEF Next

\* No lot is ever billed for more than its budget over the claims that exist,
\* whatever requests race, repeat or are deleted (evaluateClaimInclusion), for any
\* lots, claims and shares.
THEOREM BudgetsHold == Spec => []NeverOverclaimed
  <1>1. Init => Within
    <2> SUFFICES ASSUME Init, NEW l \in Lots
                 PROVE  IsFiniteSet(BilledOn(Live, l)) /\ ClaimedSoFar(l) <= Whole
      BY DEF Within
    <2>1. \A c \in Claims : claim[c].status = "none"
      BY DEF Init, NoClaim
    <2>2. BilledOn(Live, l) = {}
      BY <2>1 DEF Live, Absent, BilledOn
    <2>3. QED
      BY <2>2, FS_EmptySet DEF ClaimedSoFar, Whole
  <1>2. Within => NeverOverclaimed
    BY DEF Within, NeverOverclaimed
  <1>3. QED
    BY <1>1, <1>2, Start, Step, WithinStep, PTL DEF Spec

=============================================================================
