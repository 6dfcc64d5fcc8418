-------------------------- MODULE MCManualOperator --------------------------
(***************************************************************************)
(* A small instance of ManualOperator for TLC.                             *)
(***************************************************************************)
EXTENDS ManualOperator, TLC

Interchangeable == Permutations(Names)
=============================================================================
