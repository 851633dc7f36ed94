---------------------------- MODULE MCJobRunner ----------------------------
(* An instance of JobRunner for model checking.                            *)
EXTENDS JobRunner

CONSTANTS w1, x1, x2

MCWorkers == {w1}
MCMsgs == {x1, x2}
=============================================================================
