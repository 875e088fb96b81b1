---------------------------- MODULE MCUVCStream -----------------------------
(* Instances of UVCStream for TLC. *)
EXTENDS UVCStream

TwoTransfers == {"t1", "t2"}
=============================================================================
