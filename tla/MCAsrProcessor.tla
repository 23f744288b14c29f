---------------------------- MODULE MCAsrProcessor ----------------------------
(* AsrProcessor for TLC: the queue capacities of asr_processor_init. *)
EXTENDS AsrProcessor

MCCap == [q_process |-> 5, q_vad |-> 4, q_asr |-> 2, q_dds_helper |-> 5]
===============================================================================
