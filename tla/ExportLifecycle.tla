--------------------------- MODULE ExportLifecycle ---------------------------
(***************************************************************************)
(* What a requester is promised about handover exports, whatever happens   *)
(* to the workers: a request stays open until it is settled once and for   *)
(* all; a completed one offers one archive, which may be retired later     *)
(* while the outcome stays on record.                                      *)
(***************************************************************************)
CONSTANT Exports

VARIABLES outcome,    \* how each export ended, if it did
          archive     \* does the export offer its archive?

Outcomes == {"complete", "failed", "cancelled"}

LifecycleInit ==
    /\ outcome = [e \in Exports |-> "none"]
    /\ archive = [e \in Exports |-> FALSE]

Open(e) ==
    /\ outcome[e] = "none"
    /\ outcome' = [outcome EXCEPT ![e] = "open"]
    /\ UNCHANGED archive

Settle(e, o) ==
    /\ outcome[e] = "open"
    /\ outcome' = [outcome EXCEPT ![e] = o]
    /\ archive' = [archive EXCEPT ![e] = (o = "complete")]

Retire(e) ==
    /\ outcome[e] = "complete"
    /\ archive[e]
    /\ archive' = [archive EXCEPT ![e] = FALSE]
    /\ UNCHANGED outcome

LifecycleStep(e) ==
    \/ Open(e)
    \/ \E o \in Outcomes : Settle(e, o)
    \/ Retire(e)

LifecycleNext == \E e \in Exports : LifecycleStep(e)

LifecycleSpec ==
    LifecycleInit /\ [][LifecycleNext]_<<outcome, archive>>

=============================================================================
