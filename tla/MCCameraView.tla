---------------------------- MODULE MCCameraView ----------------------------
(* Instances of CameraView for TLC. *)
EXTENDS CameraView
=============================================================================
