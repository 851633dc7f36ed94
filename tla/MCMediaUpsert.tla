--------------------------- MODULE MCMediaUpsert ---------------------------
(* An instance of MediaUpsert for model checking: the writers, the         *)
(* captions and the permalinks are interchangeable.                        *)
EXTENDS MediaUpsert, TLC

CONSTANTS w1, w2, c1, c2, l1, l2

MCWriters == {w1, w2}
MCCaptions == {c1, c2}
MCLinks == {l1, l2}
MCSymmetry ==
    UNION {Permutations(S) : S \in {MCWriters, MCCaptions, MCLinks}}
=============================================================================
