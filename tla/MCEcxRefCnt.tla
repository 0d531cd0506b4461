---------------------------- MODULE MCEcxRefCnt ----------------------------
(* Instance of EcxRefCnt for TLC: three threads, so that one thread can   *)
(* race a decrement against an up_ref for a second thread while a third  *)
(* still holds the key.                                                  *)
EXTENDS EcxRefCnt

MCThreads == {"t1", "t2", "t3"}
=============================================================================
