---------------------------- MODULE MCResolution ----------------------------
(* Instances of Resolution for TLC. *)
EXTENDS Resolution
=============================================================================
