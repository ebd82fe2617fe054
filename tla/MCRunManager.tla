---------------------------- MODULE MCRunManager ---------------------------
(***************************************************************************)
(* Two runs of one script, both of which forbid overlapping; one has a     *)
(* timeout.                                                                *)
(***************************************************************************)
EXTENDS RunManager, TLC

CONSTANT s

MCScript == [r \in Runs |-> s]
=============================================================================
