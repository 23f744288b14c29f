------------------------------ MODULE MCVosSystem ------------------------------
(* VosSystem for TLC: an answer that is spoken and ends, one that goes on. *)
EXTENDS VosSystem

MCCap == [q_process |-> 5, q_vad |-> 4, q_asr |-> 2, q_dds_helper |-> 5]
MCResults == {[speak |-> TRUE, then |-> "stop"], [speak |-> FALSE, then |-> "continue"]}
===============================================================================
