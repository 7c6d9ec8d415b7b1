--------------------------- MODULE DecisionRegister ---------------------------
(***************************************************************************)
(* What the register of hold points promises, whatever requests, links,    *)
(* reminders and review rooms do beneath it: the site asks, the latest     *)
(* request is decided or withdrawn at most once and no other ever is, each *)
(* secure link takes one decision, only internal authority decides without *)
(* one, and what is released is not asked for again.                       *)
(***************************************************************************)
EXTENDS Naturals

CONSTANTS HoldPoints, Internal, Links, Conditions, Rounds

VARIABLES asked,      \* how often the release of each hold point was requested
          decision    \* what became of each request

Undecided == [verdict |-> "none", by |-> "nobody", conds |-> {}]
Final == {"released", "conditional"}

Latest(h) == decision[h][asked[h]]
Awaiting(h) == asked[h] # 0 /\ Latest(h) = Undecided
Spent == {decision[h][r].by : h \in HoldPoints, r \in Rounds}

RegisterInit ==
    /\ asked = [h \in HoldPoints |-> 0]
    /\ decision = [h \in HoldPoints |-> [r \in Rounds |-> Undecided]]

\* One request may ask for several, and may repeat one that awaits its decision.
Ask(S) ==
    /\ \A h \in S : /\ asked[h] + 1 \in Rounds
                    /\ asked[h] # 0 => Latest(h).verdict \notin Final
    /\ asked' = [h \in HoldPoints |-> IF h \in S THEN asked[h] + 1 ELSE asked[h]]
    /\ UNCHANGED decision

Record(h, verdict, by, conds) ==
    /\ Awaiting(h)
    /\ decision' = [decision EXCEPT ![h][asked[h]] =
                      [verdict |-> verdict, by |-> by, conds |-> conds]]
    /\ UNCHANGED asked

Withdraw(h) == Record(h, "withdrawn", "nobody", {})

DecideByLink(h, t) ==
    /\ t \notin Spent
    /\ \/ Record(h, "rejected", t, {})
       \/ \E conds \in (SUBSET Conditions) \ {{}} : Record(h, "conditional", t, conds)

\* Together, each through a link of its own.
ReleaseByLinks(S, by) ==
    /\ \A h \in S : Awaiting(h) /\ by[h] \in Links \ Spent
    /\ \A g, h \in S : g # h => by[g] # by[h]
    /\ decision' = [h \in HoldPoints |->
         IF h \in S
         THEN [decision[h] EXCEPT ![asked[h]] =
                 [verdict |-> "released", by |-> by[h], conds |-> {}]]
         ELSE decision[h]]
    /\ UNCHANGED asked

ReleaseInside(h) == h \in Internal /\ Record(h, "released", "in_app", {})

RegisterNext ==
    \/ \E S \in SUBSET HoldPoints :
          Ask(S) \/ \E by \in [S -> Links] : ReleaseByLinks(S, by)
    \/ \E h \in HoldPoints :
          \/ Withdraw(h) \/ ReleaseInside(h)
          \/ \E t \in Links : DecideByLink(h, t)

RegisterSpec == RegisterInit /\ [][RegisterNext]_<<asked, decision>>
=============================================================================
