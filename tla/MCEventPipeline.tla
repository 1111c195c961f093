---------------------------- MODULE MCEventPipeline ----------------------------
(***************************************************************************)
(* Instances of EventPipeline for TLC: all requests have one fingerprint.  *)
(***************************************************************************)
EXTENDS EventPipeline, TLC

CONSTANT f

OnePrint == [e \in Events |-> f]
=============================================================================
