----------------------------- MODULE EcxShared -----------------------------
(***************************************************************************)
(* What the life cycle of a key object promises its callers (spec 4.2 and *)
(* 5), with no count, no mutex and no steps inside a call: an object is   *)
(* created with one reference, a holder may hand out another, a holder    *)
(* gives its reference up, and the object is destroyed once, when nobody  *)
(* holds a reference any more.  Each operation is one atomic step.        *)
(*                                                                         *)
(* EcxRefCnt implements this specification when wc_LockMutex never fails  *)
(* (see ImplementsShared there).                                          *)
(***************************************************************************)
CONSTANTS
  Threads,    \* threads of the application that use the object
  Tokens      \* names of the references that may ever be handed out

VARIABLES
  sobj,       \* "none", "live", "failed" (creation failed), "freed"
  ref,        \* each reference: "unborn", "held" or "gone"
  holder      \* the thread each reference belongs to

svars == <<sobj, ref, holder>>

SInit ==
  /\ sobj = "none"
  /\ ref = [k \in Tokens |-> "unborn"]
  /\ holder \in [Tokens -> Threads]

(* Thread t creates the object and gets its first reference k. *)
Create(t, k) ==
  /\ sobj = "none" /\ ref[k] = "unborn"
  /\ sobj' = "live"
  /\ ref' = [ref EXCEPT ![k] = "held"]
  /\ holder' = [holder EXCEPT ![k] = t]

(* Creation fails: nobody gets a reference. *)
CreateFail ==
  /\ sobj = "none"
  /\ sobj' = "failed"
  /\ UNCHANGED <<ref, holder>>

(* Thread t, which holds a reference to the live object, makes reference *)
(* k for thread u.                                                        *)
Share(t, u, k) ==
  /\ sobj = "live" /\ ref[k] = "unborn"
  /\ \E j \in Tokens : ref[j] = "held" /\ holder[j] = t
  /\ ref' = [ref EXCEPT ![k] = "held"]
  /\ holder' = [holder EXCEPT ![k] = u]
  /\ UNCHANGED sobj

(* Reference k is given up. *)
Release(k) ==
  /\ sobj = "live" /\ ref[k] = "held"
  /\ ref' = [ref EXCEPT ![k] = "gone"]
  /\ UNCHANGED <<sobj, holder>>

(* The live object nobody holds is destroyed. *)
Destroy ==
  /\ sobj = "live" /\ \A k \in Tokens : ref[k] # "held"
  /\ sobj' = "freed"
  /\ UNCHANGED <<ref, holder>>

SNext ==
  \/ \E t \in Threads, k \in Tokens : Create(t, k)
  \/ CreateFail
  \/ \E t, u \in Threads, k \in Tokens : Share(t, u, k)
  \/ \E k \in Tokens : Release(k)
  \/ Destroy

SSpec == SInit /\ [][SNext]_svars
=============================================================================
