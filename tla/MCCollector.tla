----------------------------- MODULE MCCollector -----------------------------
(* Model checking of Collector; the constants are given by the .cfg files.  *)
EXTENDS Collector

=============================================================================
