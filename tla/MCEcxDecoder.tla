---------------------------- MODULE MCEcxDecoder ----------------------------
(* EcxDecoder with an X25519 and an Ed25519 decoder of each format, one  *)
(* private key, and three decode calls.                                   *)
EXTENDS EcxDecoder

MCCurves == {"X25519", "ED25519"}
=============================================================================
