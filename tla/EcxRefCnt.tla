----------------------------- MODULE EcxRefCnt -----------------------------
(***************************************************************************)
(* Life cycle of one ECX key object (struct wp_Ecx) shared by threads:     *)
(* wp_ecx_new, wp_ecx_up_ref and wp_ecx_free of src/src/wp_ecx_kmgmt.c.    *)
(*                                                                         *)
(* The reference count refCnt is protected by the object's mutex.  A       *)
(* thread's call is split at every point where another thread may run:     *)
(* taking the mutex, the count update, and, in wp_ecx_free, the test of    *)
(* the decremented count that decides the destruction.  When              *)
(* wc_LockMutex fails, wp_ecx_free still decrements the count, without    *)
(* the mutex: that unsynchronised read-modify-write is a data race, and    *)
(* its outcomes are modelled by a separate load and store.                 *)
(*                                                                         *)
(* The callers' references are ghost tokens: each successful wp_ecx_new    *)
(* or wp_ecx_up_ref hands out a fresh token to a thread, and a call of     *)
(* wp_ecx_free gives one up.  Token numbers only name references.          *)
(***************************************************************************)
EXTENDS Integers, FiniteSets

CONSTANTS
  Threads,      \* threads of the application that use the key object
  MaxRefs,      \* bound on the references ever handed out (new + up_ref)
  LockFails,    \* whether wc_LockMutex may return an error
  NoThread      \* owner of the mutex when nobody holds it

ASSUME ThreadsAssumption == Threads # {} /\ NoThread \notin Threads
ASSUME MaxRefsAssumption == MaxRefs \in Nat \ {0}
ASSUME LockFailsAssumption == LockFails \in BOOLEAN

Tokens == 1..MaxRefs

VARIABLES
  obj,      \* "none" before wp_ecx_new, "live", "failed" (new failed), "freed"
  refCnt,   \* ecx->refCnt
  mutex,    \* thread holding ecx->mutex, or NoThread
  pc,       \* where each thread is in its current call
  cnt,      \* wp_ecx_free's local cnt (also the value loaded without lock)
  relTok,   \* the reference a thread is giving up in wp_ecx_free
  upTo,     \* the thread that receives the reference made by wp_ecx_up_ref
  upTok,    \* the number that reference will have
  tok,      \* state of each reference: "unborn", "held", "releasing", "gone"
  owner,    \* thread holding each reference
  nextTok,  \* next reference number to hand out
  frees     \* times freeKey + OPENSSL_free ran on the object

vars == <<obj, refCnt, mutex, pc, cnt, relTok, upTo, upTok, tok, owner,
          nextTok, frees>>

PCs == {"idle", "up_lock", "up_inc", "free_lock", "free_dec",
        "free_load", "free_store", "free_check"}

(* References the callers still own, including one being given up whose   *)
(* decrement has not happened yet.                                         *)
Live == {k \in Tokens : tok[k] \in {"held", "releasing"}}

HeldBy(t) == {k \in Tokens : tok[k] = "held" /\ owner[k] = t}

TypeOK ==
  /\ obj \in {"none", "live", "failed", "freed"}
  /\ refCnt \in Int
  /\ mutex \in Threads \cup {NoThread}
  /\ pc \in [Threads -> PCs]
  /\ cnt \in [Threads -> Int]
  /\ relTok \in [Threads -> Tokens]
  /\ upTo \in [Threads -> Threads]
  /\ upTok \in [Threads -> Tokens]
  /\ tok \in [Tokens -> {"unborn", "held", "releasing", "gone"}]
  /\ owner \in [Tokens -> Threads]
  /\ nextTok \in 1..(MaxRefs + 1)
  /\ frees \in Nat

Init ==
  /\ obj = "none"
  /\ refCnt = 0
  /\ mutex = NoThread
  /\ pc = [t \in Threads |-> "idle"]
  /\ cnt = [t \in Threads |-> 0]
  /\ relTok = [t \in Threads |-> 1]
  /\ upTo = [t \in Threads |-> CHOOSE u \in Threads : TRUE]
  /\ upTok = [t \in Threads |-> 1]
  /\ tok = [k \in Tokens |-> "unborn"]
  /\ owner = [k \in Tokens |-> CHOOSE u \in Threads : TRUE]
  /\ nextTok = 1
  /\ frees = 0

(* Reference k now belongs to thread u. *)
GiveRef(k, u) ==
  /\ tok' = [tok EXCEPT ![k] = "held"]
  /\ owner' = [owner EXCEPT ![k] = u]

(* wp_ecx_new: initKey and wc_InitMutex succeed, refCnt = 1. *)
NewOk(t) ==
  /\ obj = "none" /\ pc[t] = "idle" /\ nextTok <= MaxRefs
  /\ obj' = "live"
  /\ refCnt' = 1
  /\ GiveRef(nextTok, t)
  /\ nextTok' = nextTok + 1
  /\ UNCHANGED <<mutex, pc, cnt, relTok, upTo, upTok, frees>>

(* wp_ecx_new: initKey or wc_InitMutex fails; the object is released and *)
(* NULL returned, so nobody gets a reference.                            *)
NewFail(t) ==
  /\ obj = "none" /\ pc[t] = "idle"
  /\ obj' = "failed"
  /\ UNCHANGED <<refCnt, mutex, pc, cnt, relTok, upTo, upTok, tok, owner, nextTok, frees>>

(* A thread holding a reference calls wp_ecx_up_ref to share the key with *)
(* thread u; the number of the reference it may make is set aside.       *)
UpRefCall(t, u) ==
  /\ pc[t] = "idle" /\ HeldBy(t) # {} /\ nextTok <= MaxRefs
  /\ pc' = [pc EXCEPT ![t] = "up_lock"]
  /\ upTo' = [upTo EXCEPT ![t] = u]
  /\ upTok' = [upTok EXCEPT ![t] = nextTok]
  /\ nextTok' = nextTok + 1
  /\ UNCHANGED <<obj, refCnt, mutex, cnt, relTok, tok, owner, frees>>

(* Variant of UpRefLock that takes the mutex without waiting for its   *)
(* holder to release it (a lock that does not exclude).                 *)
UpRefLockNoWait(t) ==
  /\ pc[t] = "up_lock"
  /\ mutex' = t
  /\ pc' = [pc EXCEPT ![t] = "up_inc"]
  /\ UNCHANGED <<obj, refCnt, cnt, relTok, upTo, upTok, tok, owner, nextTok, frees>>

(* wc_LockMutex succeeds (blocks while another thread holds the mutex). *)
UpRefLock(t) ==
  /\ pc[t] = "up_lock" /\ mutex = NoThread
  /\ mutex' = t
  /\ pc' = [pc EXCEPT ![t] = "up_inc"]
  /\ UNCHANGED <<obj, refCnt, cnt, relTok, upTo, upTok, tok, owner, nextTok, frees>>

(* wc_LockMutex fails: return 0, the count is untouched, no reference. *)
UpRefLockFail(t) ==
  /\ pc[t] = "up_lock" /\ LockFails
  /\ pc' = [pc EXCEPT ![t] = "idle"]
  /\ UNCHANGED <<obj, refCnt, mutex, cnt, relTok, upTo, upTok, tok, owner, nextTok, frees>>

(* Variant of UpRefInc that forgets the increment (a bug that           *)
(* RefCntMatchesReferences must catch).                                  *)
UpRefIncNoIncrement(t) ==
  /\ pc[t] = "up_inc"
  /\ mutex' = NoThread
  /\ pc' = [pc EXCEPT ![t] = "idle"]
  /\ GiveRef(upTok[t], upTo[t])
  /\ UNCHANGED <<obj, refCnt, cnt, relTok, upTo, upTok, nextTok, frees>>

(* Variant of UpRefInc that forgets wc_UnLockMutex (a bug that           *)
(* CallsReturn must catch).                                              *)
UpRefIncNoUnlock(t) ==
  /\ pc[t] = "up_inc"
  /\ refCnt' = refCnt + 1
  /\ pc' = [pc EXCEPT ![t] = "idle"]
  /\ GiveRef(upTok[t], upTo[t])
  /\ UNCHANGED <<obj, mutex, cnt, relTok, upTo, upTok, nextTok, frees>>

(* refCnt++ and wc_UnLockMutex; the caller now owns one more reference. *)
UpRefInc(t) ==
  /\ pc[t] = "up_inc"
  /\ refCnt' = refCnt + 1
  /\ mutex' = NoThread
  /\ pc' = [pc EXCEPT ![t] = "idle"]
  /\ GiveRef(upTok[t], upTo[t])
  /\ UNCHANGED <<obj, cnt, relTok, upTo, upTok, nextTok, frees>>

(* A thread calls wp_ecx_free to give up reference k. *)
FreeCall(t, k) ==
  /\ pc[t] = "idle" /\ k \in HeldBy(t)
  /\ tok' = [tok EXCEPT ![k] = "releasing"]
  /\ relTok' = [relTok EXCEPT ![t] = k]
  /\ pc' = [pc EXCEPT ![t] = "free_lock"]
  /\ UNCHANGED <<obj, refCnt, mutex, cnt, upTo, upTok, owner, nextTok, frees>>

(* rc = wc_LockMutex(...) returns 0. *)
FreeLock(t) ==
  /\ pc[t] = "free_lock" /\ mutex = NoThread
  /\ mutex' = t
  /\ pc' = [pc EXCEPT ![t] = "free_dec"]
  /\ UNCHANGED <<obj, refCnt, cnt, relTok, upTo, upTok, tok, owner, nextTok, frees>>

(* rc < 0: the code goes on to decrement without the mutex. *)
FreeLockFail(t) ==
  /\ pc[t] = "free_lock" /\ LockFails
  /\ pc' = [pc EXCEPT ![t] = "free_load"]
  /\ UNCHANGED <<obj, refCnt, mutex, cnt, relTok, upTo, upTok, tok, owner, nextTok, frees>>

(* Variant of FreeDec with a post-decrement, cnt = ecx->refCnt-- (a bug  *)
(* that DroppedKeyIsFreed must catch).                                   *)
FreeDecPostDec(t) ==
  /\ pc[t] = "free_dec"
  /\ refCnt' = refCnt - 1
  /\ cnt' = [cnt EXCEPT ![t] = refCnt]
  /\ mutex' = NoThread
  /\ tok' = [tok EXCEPT ![relTok[t]] = "gone"]
  /\ pc' = [pc EXCEPT ![t] = "free_check"]
  /\ UNCHANGED <<obj, relTok, upTo, upTok, owner, nextTok, frees>>

(* cnt = --ecx->refCnt under the mutex, then wc_UnLockMutex (rc == 0). *)
FreeDec(t) ==
  /\ pc[t] = "free_dec"
  /\ refCnt' = refCnt - 1
  /\ cnt' = [cnt EXCEPT ![t] = refCnt - 1]
  /\ mutex' = NoThread
  /\ tok' = [tok EXCEPT ![relTok[t]] = "gone"]
  /\ pc' = [pc EXCEPT ![t] = "free_check"]
  /\ UNCHANGED <<obj, relTok, upTo, upTok, owner, nextTok, frees>>

(* cnt = --ecx->refCnt without the mutex: the load ... *)
FreeLoad(t) ==
  /\ pc[t] = "free_load"
  /\ cnt' = [cnt EXCEPT ![t] = refCnt]
  /\ pc' = [pc EXCEPT ![t] = "free_store"]
  /\ UNCHANGED <<obj, refCnt, mutex, relTok, upTo, upTok, tok, owner, nextTok, frees>>

(* Variant of FreeStore that calls wc_UnLockMutex without testing rc   *)
(* (a bug that MutexHeldInCriticalSection must catch).                   *)
FreeStoreUnlocks(t) ==
  /\ pc[t] = "free_store"
  /\ refCnt' = cnt[t] - 1
  /\ cnt' = [cnt EXCEPT ![t] = cnt[t] - 1]
  /\ mutex' = NoThread
  /\ tok' = [tok EXCEPT ![relTok[t]] = "gone"]
  /\ pc' = [pc EXCEPT ![t] = "free_check"]
  /\ UNCHANGED <<obj, relTok, upTo, upTok, owner, nextTok, frees>>

(* ... and the store of the loaded value minus one. *)
FreeStore(t) ==
  /\ pc[t] = "free_store"
  /\ refCnt' = cnt[t] - 1
  /\ cnt' = [cnt EXCEPT ![t] = cnt[t] - 1]
  /\ tok' = [tok EXCEPT ![relTok[t]] = "gone"]
  /\ pc' = [pc EXCEPT ![t] = "free_check"]
  /\ UNCHANGED <<obj, mutex, relTok, upTo, upTok, owner, nextTok, frees>>

(* Variant of FreeCheck that tests the shared ecx->refCnt after the     *)
(* unlock instead of the local cnt (a bug that                           *)
(* DestroyedOnlyWhenUnreferenced must catch).                            *)
FreeCheckShared(t) ==
  /\ pc[t] = "free_check"
  /\ pc' = [pc EXCEPT ![t] = "idle"]
  /\ IF refCnt = 0
       THEN /\ obj' = "freed"
            /\ frees' = frees + 1
       ELSE UNCHANGED <<obj, frees>>
  /\ UNCHANGED <<refCnt, mutex, cnt, relTok, upTo, upTok, tok, owner, nextTok>>

(* if (cnt == 0): wc_FreeMutex, freeKey, OPENSSL_free. *)
FreeCheck(t) ==
  /\ pc[t] = "free_check"
  /\ pc' = [pc EXCEPT ![t] = "idle"]
  /\ IF cnt[t] = 0
       THEN /\ obj' = "freed"
            /\ frees' = frees + 1
       ELSE UNCHANGED <<obj, frees>>
  /\ UNCHANGED <<refCnt, mutex, cnt, relTok, upTo, upTok, tok, owner, nextTok>>

(* The application has given up every reference and every call returned. *)
Done ==
  /\ \A t \in Threads : pc[t] = "idle" /\ HeldBy(t) = {}
  /\ obj # "none"
  /\ UNCHANGED vars

(* The steps a thread takes inside a call it has made. *)
InCall(t) ==
  \/ UpRefLock(t) \/ UpRefLockFail(t) \/ UpRefInc(t)
  \/ FreeLock(t) \/ FreeLockFail(t) \/ FreeDec(t)
  \/ FreeLoad(t) \/ FreeStore(t) \/ FreeCheck(t)

Next ==
  \/ \E t \in Threads :
       \/ NewOk(t) \/ NewFail(t)
       \/ \E u \in Threads : UpRefCall(t, u)
       \/ \E k \in Tokens : FreeCall(t, k)
       \/ InCall(t)
  \/ Done

(* A call, once made, runs to its end: the scheduler keeps running a      *)
(* thread that is not blocked, and no call waits on anything but the     *)
(* mutex, which every path releases.  Callers may keep a reference for   *)
(* ever, so making calls is not fair.                                    *)
Fairness == \A t \in Threads : WF_vars(InCall(t))

Spec == Init /\ [][Next]_vars

FairSpec == Spec /\ Fairness

-----------------------------------------------------------------------------
(* The count equals the references the callers own: every successful new *)
(* and up_ref added one, every wp_ecx_free that has decremented took its *)
(* one away, and no update was lost between threads (wp_ecx_up_ref and   *)
(* wp_ecx_free updating refCnt).                                          *)
RefCntMatchesReferences ==
  obj = "live" => refCnt = Cardinality(Live)

(* The key material is destroyed at most once, and only when no caller   *)
(* owns a reference and no thread is inside a call that uses the object  *)
(* (wp_ecx_free's cnt == 0 test and the freeKey/OPENSSL_free it guards). *)
DestroyedOnlyWhenUnreferenced ==
  frees > 0 =>
    /\ frees = 1
    /\ Live = {}
    /\ \A t \in Threads : pc[t] \in {"idle", "free_check"}

(* Once the callers have given up every reference, wp_ecx_free destroys  *)
(* the object: the last release is never missed (no leak).               *)
DroppedKeyIsFreed ==
  (obj = "live" /\ Live = {}) ~> (obj = "freed")

(* Every call of wp_ecx_up_ref and wp_ecx_free returns, on the paths     *)
(* where wc_LockMutex fails too: the mutex is released on every path.    *)
CallsReturn ==
  \A t \in Threads : (pc[t] # "idle") ~> (pc[t] = "idle")

(* The mutex is held exactly by the threads between a successful         *)
(* wc_LockMutex and their wc_UnLockMutex: up_ref and free release it on  *)
(* every path that took it, and the paths where wc_LockMutex failed      *)
(* (rc < 0) never release a mutex another thread holds.                  *)
MutexHeldInCriticalSection ==
  \A t \in Threads : mutex = t <=> pc[t] \in {"up_inc", "free_dec"}

(* After wp_ecx_new sets it to 1, ecx->refCnt changes only in one step   *)
(* of the thread holding ecx->mutex, the step that also releases it: the  *)
(* increments of wp_ecx_up_ref and the decrements of wp_ecx_free are      *)
(* serialised read-modify-writes that each move the count by one.         *)
CountUpdatedUnderMutex ==
  [][refCnt' # refCnt =>
       \/ obj = "none" /\ refCnt' = 1
       \/ \E t \in Threads :
            /\ mutex = t /\ mutex' = NoThread /\ pc'[t] # pc[t]
            /\ refCnt' - refCnt \in {1, -1}]_vars
-----------------------------------------------------------------------------
(* The references as the abstract object of EcxShared sees them: one     *)
(* being given up in wp_ecx_free is still held until its decrement.      *)
SharedRef == [k \in Tokens |-> IF tok[k] = "releasing" THEN "held" ELSE tok[k]]

Shared == INSTANCE EcxShared WITH sobj <- obj, ref <- SharedRef, holder <- owner

(* wp_ecx_new, wp_ecx_up_ref and wp_ecx_free implement the shared object *)
(* of EcxShared: each up_ref is made by a thread that holds a reference  *)
(* to the live object, each decrement gives one reference up, and the    *)
(* destruction in wp_ecx_free happens once, when nobody holds one.        *)
ImplementsShared == Shared!SSpec
=============================================================================
