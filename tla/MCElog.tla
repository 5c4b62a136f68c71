------------------------------- MODULE MCElog -------------------------------
(***************************************************************************)
(* TLC instance of Elog: callers log a short and a long event.             *)
(***************************************************************************)
EXTENDS Elog

MCUserEvents ==
  {[type |-> "a", len |-> 1, data |-> 0], [type |-> "b", len |-> 2, data |-> 0]}
=============================================================================
