-------------------------- MODULE MCCycleCoalescer --------------------------
(* The instance of CycleCoalescer for TLC: its constants are model values. *)
EXTENDS CycleCoalescer, TLC
=============================================================================
