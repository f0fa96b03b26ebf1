---------------------------- MODULE MCRoundLife ----------------------------
(* Model checking of RoundLife; the constants are given by the .cfg files.  *)
EXTENDS RoundLife

=============================================================================
