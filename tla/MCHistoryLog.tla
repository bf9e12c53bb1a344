---------------------------- MODULE MCHistoryLog ----------------------------
(***************************************************************************)
(* HistoryLog for TLC: concurrent requests, a log limit of two rows.       *)
(***************************************************************************)
EXTENDS HistoryLog, TLC

\* Requests are interchangeable.
ClientSymmetry == Permutations(Clients)

=============================================================================
