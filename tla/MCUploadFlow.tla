---------------------------- MODULE MCUploadFlow ----------------------------
(* Three requests on one movie; one of the files is too large.             *)
EXTENDS UploadFlow, TLC

CONSTANTS k1, k2, k3, r1, r2, r3

RequestSymmetry == Permutations(Requests)
=============================================================================
