------------------------------ MODULE MCRayBridge ------------------------------
(***************************************************************************)
(* Instances of RayBridge for TLC.                                         *)
(***************************************************************************)
EXTENDS RayBridge

OneName == {"a"}

=============================================================================
