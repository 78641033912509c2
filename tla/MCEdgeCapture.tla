--------------------------- MODULE MCEdgeCapture ---------------------------
(***************************************************************************)
(* Instances of EdgeCapture.                                                *)
(***************************************************************************)
EXTENDS EdgeCapture
=============================================================================
