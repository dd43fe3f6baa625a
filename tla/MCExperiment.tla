---------------------------- MODULE MCExperiment ----------------------------
(* Every kind of measurement the shipped routines make. *)
EXTENDS Experiment
AllExperiments == DOMAIN Plan
=============================================================================
