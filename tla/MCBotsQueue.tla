----------------------------- MODULE MCBotsQueue -----------------------------
(* Two admin announcements and one oracle flag.                            *)
EXTENDS BotsQueue

CONSTANTS a1, a2, f1

MCAlerts == <<f1>>

=============================================================================
