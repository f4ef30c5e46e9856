-------------------------------- MODULE MCLab --------------------------------
(* Instances of Lab for TLC. *)
EXTENDS Lab, TLC
=============================================================================
