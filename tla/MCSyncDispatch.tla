--------------------------- MODULE MCSyncDispatch ---------------------------
(* An instance of SyncDispatch for model checking.                         *)
EXTENDS SyncDispatch

CONSTANTS h1, h2

MCHashtags == {h1, h2}
(* Different names have different hashes.                                  *)
MCLockOf == [k \in Keys |-> (IF k[1] = "top" THEN 0 ELSE 2)
                            + (IF k[2] = h1 THEN 1 ELSE 2)]
=============================================================================
