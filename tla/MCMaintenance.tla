--------------------------- MODULE MCMaintenance ---------------------------
(***************************************************************************)
(* One update of a service with one schedule that forbids overlaps.        *)
(***************************************************************************)
EXTENDS Maintenance, TLC
=============================================================================
