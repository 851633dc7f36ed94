---------------------------- MODULE MCMediaAsset ----------------------------
(* Instances of MediaAsset for model checking: two download slots, for one *)
(* post or for two posts that are reposts of each other.                   *)
EXTENDS MediaAsset, TLC

CONSTANTS s1, s2, p1, p2, m1, m2, c1, x1, x2

MCSlots == {s1, s2}
MCProcesses == {p1, p2}
MCMedia == {m1, m2}
MCContents == {c1}
MCBytes == [m \in MCMedia |-> c1]
MCOneMedia == {m1}
MCOneBytes == [m \in MCOneMedia |-> c1]

MCMsgs == {x1, x2}
MCOneMsg == {x1}

(* Both slots in one process, or each in its own. *)
MCTogether == {s1 :> p1 @@ s2 :> p1}
MCTogetherOrApart == MCTogether \cup {s1 :> p1 @@ s2 :> p2}
=============================================================================
