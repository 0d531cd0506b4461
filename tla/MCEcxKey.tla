------------------------------ MODULE MCEcxKey ------------------------------
(* EcxKey on two key objects of X25519 and Ed25519, two private keys,    *)
(* public key inputs of the right length and of a short one, and caller  *)
(* buffers of a short size and of the key size.                           *)
EXTENDS EcxKey

MCCurves == {"X25519", "ED25519"}
MCInLens == {16, 32}
MCBufSizes == {16, 32}

(* The states told apart: the key objects and the generation contexts;  *)
(* the last call and its results are observations of a step.            *)
MCView == <<keyVars, genVars>>
=============================================================================
