---------------------------- MODULE MCMetaClient ----------------------------
(* An instance of MetaClient for model checking.                           *)
EXTENDS MetaClient

(* Usage far from the limit, and next to it an account that is blocked for *)
(* ten minutes.                                                            *)
Low == [pct |-> 40, regain |-> 0]
Blocked == [pct |-> 30, regain |-> 10]
MCReports == {{Low}, {Low, Blocked}}
=============================================================================
