---------------------------- MODULE MCHistoryPage ----------------------------
(* A small instance of HistoryPage for TLC: two jobs, one row on the page. *)
EXTENDS HistoryPage

==============================================================================
