--------------------------- MODULE MCUploadTracker ---------------------------
(***************************************************************************)
(* Instances of UploadTracker for TLC: all requests write one file, for    *)
(* rows of different paths never meet but in the job.                      *)
(***************************************************************************)
EXTENDS UploadTracker, TLC

CONSTANT file

OnePath == [u \in Uploads |-> file]

Symmetry == Permutations(Uploads)
=============================================================================
