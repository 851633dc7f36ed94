-------------------------- MODULE MCInfrastructure --------------------------
(* An instance of Infrastructure for model checking.                       *)
EXTENDS Infrastructure, TLC

CONSTANTS home, away

(* Every shape of the cron in an account that has what a deploy looks up,  *)
(* and the default cron in accounts that lack something of it.             *)
MCSettings ==
    [cron : CronFields, givens : {Givens}]
    \cup [cron : {<<"*", "*">>}, givens : {Givens \ {given} : given \in Givens}]

MCAddresses == {home, away}
MCSymmetry == Permutations(MCAddresses)
=============================================================================
