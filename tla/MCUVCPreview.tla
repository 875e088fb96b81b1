---------------------------- MODULE MCUVCPreview ----------------------------
(* Instances of UVCPreview for TLC. *)
EXTENDS UVCPreview
=============================================================================
