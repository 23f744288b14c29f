------------------------------- MODULE MCAppFsm -------------------------------
(* AppFsm for TLC: every kind of result, or only spoken ones. *)
EXTENDS AppFsm

MCResults == Result
MCSpoken  == [speak : {TRUE}, then : {"stop", "nothing"}]
===============================================================================
