------------------------- MODULE MCScheduledReports -------------------------
(* A small instance of ScheduledReports. *)
EXTENDS ScheduledReports
=============================================================================
