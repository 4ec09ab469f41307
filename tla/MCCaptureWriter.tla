-------------------------- MODULE MCCaptureWriter --------------------------
(* CaptureWriter on small sets.                                            *)
EXTENDS CaptureWriter
=============================================================================
