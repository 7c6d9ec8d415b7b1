--------------------------- MODULE ProgressClaims ---------------------------
(***************************************************************************)
(* Progress claims (routes/claims): a claim bills a share of the budget of *)
(* conformed lots, and approved variations; it is submitted, certified,    *)
(* disputed and paid in instalments, or deleted while it is a draft.       *)
(*                                                                         *)
(* Creating a claim is one SERIALIZABLE decision that locks its lots and   *)
(* variations, after a look-up of the request key outside it.  The other   *)
(* handlers hold the lock of the claim's or the variation's row, so each   *)
(* is one step.  Every request may be sent again: by a dialog whose answer *)
(* was lost, with its key and with whatever its fields say by then.        *)
(*                                                                         *)
(* Budgets are the same for every lot, and amounts are percentages of it.  *)
(***************************************************************************)
EXTENDS FiniteSets, Naturals, FiniteSetsExt

CONSTANTS
    Lots, Claims, Variations,
    Dialogs,           \* create-claim dialogs, each with its requestKey
    Requests,          \* create requests in flight at once
    Payments,          \* record-payment dialogs, each with its operationKey
    Shares,            \* percentages that a claim asks of a lot
    Amounts,           \* amounts certified and paid
    VariationValue,    \* the approved amount of a variation
    None               \* SQL NULL

Whole == 100           \* LOT_FULLY_CLAIMED_PERCENTAGE

ASSUME ConstantsAssumption ==
    /\ Shares \subseteq 1..Whole
    /\ Amounts \subseteq Nat
    /\ VariationValue \in Nat \ {0}
    /\ None \notin Claims \cup Dialogs

VARIABLES
    lotStatus,         \* the lot's status column
    lotClaim,          \* lots.claimedInId
    variation,         \* the variation row
    claim,             \* the claim row, its claimed_lots and its notes
    madeFor,           \* the dialog a claim answers (for the properties only)
    request,           \* create requests that found no claim under their key
    removing           \* variation removals that passed their status check

vars == <<lotStatus, lotClaim, variation, claim, madeFor, request, removing>>

LotStatuses == {"open", "conformed", "claimed"}
VariationStatuses == {"proposed", "submitted", "approved", "rejected",
                      "claimed", "removed"}
Absent == {"none", "deleted"}
ClaimStatuses == Absent \cup {"draft", "submitted", "certified", "disputed",
                              "partially_paid", "paid"}

\* What a create request asks: a share of each lot (0: not this lot) and the
\* variations.
Asks == {a \in [share : [Lots -> Shares \cup {0}], variations : SUBSET Variations] :
            a.variations # {} \/ \E l \in Lots : a.share[l] > 0}
Sent == [dialog : Dialogs, ask : Asks]

\* The notes column: certificate says that certification metadata is in it,
\* history the payments recorded in it, by operation key (0: not recorded).
NoClaim == [status |-> "none", key |-> None, share |-> [l \in Lots |-> 0],
            total |-> 0, certified |-> 0, paid |-> 0,
            certificate |-> FALSE, history |-> [p \in Payments |-> 0]]

Init ==
    /\ lotStatus = [l \in Lots |-> "open"]
    /\ lotClaim = [l \in Lots |-> None]
    /\ variation = [v \in Variations |-> [status |-> "proposed", claim |-> None]]
    /\ claim = [c \in Claims |-> NoClaim]
    /\ madeFor = [c \in Claims |-> None]
    /\ request = [r \in Requests |-> None]
    /\ removing = {}

Live == {c \in Claims : claim[c].status \notin Absent}
Keyed(d) == {c \in Live : claim[c].key = d}

-----------------------------------------------------------------------------
(* Creation. *)

\* The percents of a lot that are billed, each by its claim and its number.
BilledOn(cs, l) == UNION {{c} \X (1..claim[c].share[l]) : c \in cs}

\* Claims still in draft are not counted yet.
WrongClaimedSoFar(l) ==
    Cardinality(BilledOn({c \in Live : claim[c].status # "draft"}, l))

ClaimedSoFar(l) == Cardinality(BilledOn(Live, l))

\* The look-up that runs before the decision; when it finds a claim, that is
\* the answer.
FindByKey(r, d, ask) ==
    /\ request[r] = None /\ Keyed(d) = {}
    /\ request' = [request EXCEPT ![r] = [dialog |-> d, ask |-> ask]]
    /\ UNCHANGED <<lotStatus, lotClaim, variation, claim, madeFor, removing>>

Chosen(ask) == {l \in Lots : ask.share[l] > 0}

Claimable(ask) ==
    /\ \A l \in Chosen(ask) :
        /\ lotStatus[l] = "conformed" /\ lotClaim[l] = None
        /\ ClaimedSoFar(l) + ask.share[l] <= Whole
    /\ \A v \in ask.variations :
        variation[v].status = "approved" /\ variation[v].claim = None

TotalOf(ask) ==
    MapThenSumSet(LAMBDA l : ask.share[l], Lots)
        + VariationValue * Cardinality(ask.variations)
Totals == {0} \cup {TotalOf(ask) : ask \in Asks}

\* The row is written without the request's key.
WrongDraft(d, ask) ==
    [NoClaim EXCEPT !.status = "draft", !.share = ask.share, !.total = TotalOf(ask)]

Draft(d, ask) ==
    [NoClaim EXCEPT !.status = "draft", !.key = d, !.share = ask.share,
                    !.total = TotalOf(ask)]

Create(r, c) ==
    /\ request[r] # None /\ claim[c].status = "none"
    /\ LET ask == request[r].ask
           full == {l \in Chosen(ask) : ClaimedSoFar(l) + ask.share[l] >= Whole}
       IN /\ Keyed(request[r].dialog) = {}          \* unique (project, requestKey)
          /\ Claimable(ask)
          /\ claim' = [claim EXCEPT ![c] = Draft(request[r].dialog, ask)]
          /\ madeFor' = [madeFor EXCEPT ![c] = request[r].dialog]
          /\ lotStatus' = [l \in Lots |-> IF l \in full THEN "claimed" ELSE lotStatus[l]]
          /\ lotClaim' = [l \in Lots |-> IF l \in full THEN c ELSE lotClaim[l]]
          /\ variation' = [v \in Variations |-> IF v \in ask.variations
                THEN [status |-> "claimed", claim |-> c] ELSE variation[v]]
    /\ request' = [request EXCEPT ![r] = None]
    /\ UNCHANGED removing

\* Refused, given up after its retries, or answered with the claim of the
\* request that won the race for the key.
CreateEnds(r) ==
    /\ request[r] # None
    /\ request' = [request EXCEPT ![r] = None]
    /\ UNCHANGED <<lotStatus, lotClaim, variation, claim, madeFor, removing>>

-----------------------------------------------------------------------------
(* Submission, certification, dispute and payment. *)

SetClaim(c, row) ==
    /\ claim' = [claim EXCEPT ![c] = row]
    /\ UNCHANGED <<lotStatus, lotClaim, variation, madeFor, request, removing>>

Submit(c) ==
    /\ claim[c].status = "draft"
    /\ SetClaim(c, [claim[c] EXCEPT !.status = "submitted"])

\* assertCertifiedAmountWithinClaimTotal alone.
WrongMayCertify(c, amount) == amount <= claim[c].total

\* assertCertifiedAmountWithinClaimTotal, assertCertifiedAmountCoversPaid
MayCertify(c, amount) == amount <= claim[c].total /\ claim[c].paid <= amount

\* POST certify, and PUT with status 'certified'.
Certify(c, amount) ==
    /\ claim[c].status \in {"submitted", "disputed"}
    /\ MayCertify(c, amount)
    /\ SetClaim(c, [claim[c] EXCEPT
            !.status = IF amount = 0 THEN "paid" ELSE "certified",
            !.certified = amount,
            !.paid = IF amount = 0 THEN 0 ELSE @,
            !.certificate = TRUE])

\* The dispute's text replaces the column.
WrongDisputedNotes(row) == [p \in Payments |-> 0]

\* serializeDisputeNotesForStatusTransition: the column is replaced by the
\* dispute's text unless it holds certification metadata.
DisputedNotes(row) ==
    IF row.certificate THEN row.history ELSE [p \in Payments |-> 0]

Dispute(c) ==
    /\ claim[c].status \in {"submitted", "certified", "partially_paid"}
    /\ SetClaim(c, [claim[c] EXCEPT !.status = "disputed",
                                    !.history = DisputedNotes(claim[c])])

\* PUT with status 'paid': only a certified claim, only for the whole amount.
MarkPaid(c) ==
    /\ claim[c].status = "certified" /\ claim[c].certified > 0
    /\ SetClaim(c, [claim[c] EXCEPT !.status = "paid", !.paid = claim[c].certified])

\* An operation key is not looked up.
WrongIsReplay(c, p) == FALSE

IsReplay(c, p) == claim[c].history[p] > 0

\* A replay answers with the recorded payment and changes nothing.
Pay(c, p, amount) ==
    /\ claim[c].status \in {"certified", "partially_paid"}
    /\ ~IsReplay(c, p)
    /\ amount > 0
    /\ claim[c].paid + amount <= claim[c].certified
    /\ SetClaim(c, [claim[c] EXCEPT
            !.status = IF claim[c].paid + amount = claim[c].certified
                       THEN "paid" ELSE "partially_paid",
            !.paid = @ + amount,
            !.history[p] = amount])

-----------------------------------------------------------------------------
(* Deleting a draft: its shares go with it, the lots and variations it took *)
(* are released.                                                            *)

\* The variations' link is cleared by the database, their status is not.
WrongReleased(v, c) ==
    IF variation[v].claim = c THEN [variation[v] EXCEPT !.claim = None] ELSE variation[v]

Released(v, c) ==
    IF variation[v].claim = c THEN [status |-> "approved", claim |-> None] ELSE variation[v]

Erased(c) == [NoClaim EXCEPT !.status = "deleted"]

DeleteDraft(c) ==
    /\ claim[c].status = "draft"
    /\ lotStatus' = [l \in Lots |-> IF lotClaim[l] = c /\ lotStatus[l] = "claimed"
                                    THEN "conformed" ELSE lotStatus[l]]
    /\ lotClaim' = [l \in Lots |-> IF lotClaim[l] = c THEN None ELSE lotClaim[l]]
    /\ variation' = [v \in Variations |-> Released(v, c)]
    /\ claim' = [claim EXCEPT ![c] = Erased(c)]
    /\ UNCHANGED <<madeFor, request, removing>>

-----------------------------------------------------------------------------
(* Variations, and what happens to lots elsewhere. *)

VariationMoves == {<<"proposed", "submitted">>, <<"submitted", "approved">>,
                   <<"submitted", "rejected">>, <<"rejected", "submitted">>}

MoveVariation(v, s) ==
    /\ variation[v].claim = None
    /\ <<variation[v].status, s>> \in VariationMoves
    /\ variation' = [variation EXCEPT ![v].status = s]
    /\ UNCHANGED <<lotStatus, lotClaim, claim, madeFor, request, removing>>

CheckRemoval(v) ==
    /\ variation[v].status \in {"proposed", "rejected"}
    /\ removing' = removing \cup {v}
    /\ UNCHANGED <<lotStatus, lotClaim, variation, claim, madeFor, request>>

\* Deleted by its id: neither its status nor its claim is looked at again.
RemoveVariation(v) ==
    /\ v \in removing
    /\ removing' = removing \ {v}
    /\ variation' = [variation EXCEPT ![v] = [status |-> "removed", claim |-> None]]
    /\ UNCHANGED <<lotStatus, lotClaim, claim, madeFor, request>>

SetLot(l, s) ==
    /\ lotStatus' = [lotStatus EXCEPT ![l] = s]
    /\ UNCHANGED <<lotClaim, variation, claim, madeFor, request, removing>>

Conform(l) == lotStatus[l] = "open" /\ SetLot(l, "conformed")

\* A conformed lot is reopened by an override, a claimed one by a checklist item
\* that fails.
LoseConformance(l) == lotStatus[l] \in {"conformed", "claimed"} /\ SetLot(l, "open")

-----------------------------------------------------------------------------

CreateStep ==
    \E r \in Requests :
        \/ \E d \in Dialogs, ask \in Asks : FindByKey(r, d, ask)
        \/ \E c \in Claims : Create(r, c)
        \/ CreateEnds(r)

ClaimStep ==
    \E c \in Claims :
        \/ Submit(c)
        \/ \E amount \in Amounts : Certify(c, amount)
        \/ Dispute(c)
        \/ MarkPaid(c)
        \/ \E p \in Payments, amount \in Amounts : Pay(c, p, amount)
        \/ DeleteDraft(c)

VariationStep ==
    \E v \in Variations :
        \/ \E s \in VariationStatuses : MoveVariation(v, s)
        \/ CheckRemoval(v)
        \/ RemoveVariation(v)

LotStep == \E l \in Lots : Conform(l) \/ LoseConformance(l)

Next == CreateStep \/ ClaimStep \/ VariationStep \/ LotStep

Spec == Init /\ [][Next]_vars

-----------------------------------------------------------------------------
(* Properties. *)

\* Every variable has its type; a claim's total is that of something that could be
\* asked, and a claim that is not there holds no key, share or payment.
TypeOK ==
    /\ lotStatus \in [Lots -> LotStatuses]
    /\ lotClaim \in [Lots -> Claims \cup {None}]
    /\ variation \in [Variations -> [status : VariationStatuses, claim : Claims \cup {None}]]
    /\ claim \in [Claims -> [status : ClaimStatuses, key : Dialogs \cup {None},
                             share : [Lots -> Shares \cup {0}], total : Totals,
                             certified : Nat, paid : Nat, certificate : BOOLEAN,
                             history : [Payments -> Nat]]]
    /\ \A c \in Claims \ Live : claim[c] = [NoClaim EXCEPT !.status = claim[c].status]
    /\ madeFor \in [Claims -> Dialogs \cup {None}]
    /\ request \in [Requests -> Sent \cup {None}]
    /\ removing \subseteq Variations

\* However many requests race, retry and are deleted, a lot is never billed for
\* more than its budget over the claims that exist (assertClaimIncrementWithin-
\* Remaining, "reject any increment that would push a lot past 100%").
NeverOverclaimed == \A l \in Lots : ClaimedSoFar(l) <= Whole

\* A dialog whose answer was lost may send its request again, even while the
\* first is running and with other lots than before: at most one claim that it
\* made exists (the unique request key, "the F-03 double-billing hole").
RetriesBillOnce ==
    \A c, e \in Live : madeFor[c] = madeFor[e] => c = e

\* The money in a row's payment history, each unit by its payment and its number.
Units(row) == UNION {{p} \X (1..row.history[p]) : p \in Payments}
Recorded(row) == Cardinality(Units(row))

\* What was received is what the recorded payments add up to, through disputes
\* and new certifications, except on a claim settled by hand as a whole.
PaymentsReconcile ==
    \A c \in Live :
        \/ claim[c].paid = Recorded(claim[c])
        \/ /\ claim[c].status = "paid" /\ claim[c].paid = claim[c].certified
           /\ Recorded(claim[c]) <= claim[c].paid

\* A claim is never paid beyond what is certified, whatever was paid before a
\* dispute and however low it is certified after it (assertCertifiedAmountCovers-
\* Paid: "impossible negative outstanding").
PaidWithinCertified == \A c \in Claims : claim[c].paid <= claim[c].certified

\* A variation or lot marked as claimed hangs on a claim that exists: deleting the
\* claim releases both.
ClaimedMeansBilled ==
    /\ \A v \in Variations : variation[v].status = "claimed" => variation[v].claim \in Live
    /\ \A l \in Lots : lotStatus[l] = "claimed" =>
        lotClaim[l] \in Live /\ claim[lotClaim[l]].share[l] > 0

\* A recorded payment stays in the notes of its claim: the operation key of a
\* retry is found whenever the retry arrives.
PaymentsStayRecorded ==
    [][\A c \in Claims, p \in Payments :
        claim[c].history[p] > 0 => claim'[c].history[p] = claim[c].history[p]]_vars

\* "Lots below 100% stay `conformed` so they can be claimed again" (workflow-
\* Routes.ts): a claimed lot has been billed in full.  Deleting an earlier draft
\* takes its share away from a lot that a later claim completed.
ClaimedLotsAreFullyClaimed ==
    \A l \in Lots : lotStatus[l] = "claimed" => ClaimedSoFar(l) >= Whole

=============================================================================
