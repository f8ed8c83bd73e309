---------------------------- MODULE MCTurnBudget ------------------------------
(* TurnBudget on a few streams, for TLC. *)
EXTENDS TurnBudget
================================================================================
