----------------------------- MODULE MCFlashFS -----------------------------
(* Model values for FlashFS: a user's file and the collector's.            *)
EXTENDS FlashFS

CONSTANTS user, gc_data, v1, v2, counts

MCNames    == {user, gc_data}
MCValues   == {v1, v2}
MCContents == {user, gc_data, v1, v2, counts}
Symmetric  == Permutations(MCValues)

(* The call of the last step plays no part in what can follow.             *)
State == <<flash, ram, gc, losses, doubtful, shown>>
=============================================================================
