--------------------------- MODULE MCEncodeQueue ---------------------------
(* Two messages for one upload, and one message the schema refuses.        *)
EXTENDS EncodeQueue, TLC

CONSTANTS v1, k1, k2, c1, c2

J1 == [movieId |-> v1, s3Key |-> k1, createdAt |-> 1]
J2 == [movieId |-> v1, s3Key |-> k1, createdAt |-> 2]
Bad == [movieId |-> v1, s3Key |-> k2, createdAt |-> 3]

MCJobs == {J1, J2, Bad}
MCMalformed == {Bad}

ClaimSymmetry == Permutations(ClaimIds)
=============================================================================
