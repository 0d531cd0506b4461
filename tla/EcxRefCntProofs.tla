-------------------------- MODULE EcxRefCntProofs --------------------------
(***************************************************************************)
(* Proofs about EcxRefCnt when wc_LockMutex never fails: the count kept   *)
(* by wp_ecx_up_ref and wp_ecx_free equals the references the callers     *)
(* own, and the object is destroyed once, after its last reference.       *)
(***************************************************************************)
EXTENDS EcxRefCnt, FiniteSetTheorems, TLAPS

InUpRef(t) == pc[t] \in {"up_lock", "up_inc"}
InFree(t)  == pc[t] \in {"free_lock", "free_dec"}

(* No unsynchronised decrement happens when the mutex is always taken. *)
NoRace == \A t \in Threads : pc[t] \notin {"free_load", "free_store"}

(* Before wp_ecx_new succeeds nobody has a reference or makes a call. *)
BeforeNew ==
  /\ obj \in {"none", "failed"} =>
       /\ \A k \in Tokens : tok[k] = "unborn"
       /\ \A t \in Threads : pc[t] = "idle"
       /\ frees = 0
  /\ obj = "none" => nextTok = 1
  /\ obj = "live" => frees = 0

(* Numbers not handed out yet, and those set aside by wp_ecx_up_ref. *)
Fresh ==
  /\ \A k \in Tokens : k >= nextTok => tok[k] = "unborn"
  /\ \A t \in Threads : InUpRef(t) =>
       /\ upTok[t] < nextTok
       /\ tok[upTok[t]] = "unborn"
       /\ HeldBy(t) # {}
  /\ \A t, u \in Threads : InUpRef(t) /\ InUpRef(u) /\ t # u =>
       upTok[t] # upTok[u]

(* The reference being given up by a wp_ecx_free before its decrement. *)
Releasing ==
  /\ \A t \in Threads : InFree(t) =>
       tok[relTok[t]] = "releasing" /\ owner[relTok[t]] = t
  /\ \A k \in Tokens : tok[k] = "releasing" =>
       InFree(owner[k]) /\ relTok[owner[k]] = k

(* The decrement that reached zero is the only one, and came last. *)
LastDec ==
  \A t \in Threads : pc[t] = "free_check" /\ cnt[t] = 0 =>
    /\ obj = "live"
    /\ Live = {}
    /\ \A u \in Threads \ {t} : ~(pc[u] = "free_check" /\ cnt[u] = 0)

(* After the destruction nothing is left to use the object. *)
AfterFree ==
  obj = "freed" =>
    /\ frees = 1
    /\ Live = {}
    /\ \A t \in Threads : pc[t] \in {"idle", "free_check"}
    /\ \A t \in Threads : pc[t] = "free_check" => cnt[t] # 0

(* The strengthening of the two safety properties that every step keeps. *)
IInv ==
  /\ TypeOK
  /\ NoRace
  /\ BeforeNew
  /\ RefCntMatchesReferences
  /\ Fresh
  /\ Releasing
  /\ LastDec
  /\ AfterFree

-----------------------------------------------------------------------------
(* The references form a finite set, so their number is a natural. *)
LEMMA LiveFinite ==
  ASSUME TypeOK
  PROVE  /\ IsFiniteSet(Live)
         /\ Cardinality(Live) \in Nat
  <1>1. IsFiniteSet(Tokens)
    BY MaxRefsAssumption, FS_Interval DEF Tokens
  <1>2. Live \subseteq Tokens
    BY DEF Live
  <1>3. IsFiniteSet(Live)
    BY <1>1, <1>2, FS_Subset
  <1>4. QED
    BY <1>3, FS_CardinalityType

(* The initial state, before wp_ecx_new, is well typed. *)
LEMMA InitTypeOK == Init => TypeOK
  <1> SUFFICES ASSUME Init PROVE TypeOK
    OBVIOUS
  <1>1. (CHOOSE u \in Threads : TRUE) \in Threads
    BY ThreadsAssumption
  <1>2. 1 \in Tokens
    BY MaxRefsAssumption DEF Tokens
  <1>3. QED
    BY <1>1, <1>2, MaxRefsAssumption DEF Init, TypeOK, Tokens, PCs

(* Every step keeps the variables in their types. *)
LEMMA NextTypeOK == TypeOK /\ [Next]_vars => TypeOK'
  <1> SUFFICES ASSUME TypeOK, [Next]_vars PROVE TypeOK'
    OBVIOUS
  <1> USE MaxRefsAssumption
  <1>1. ASSUME NEW t \in Threads, NewOk(t) PROVE TypeOK'
    <2>0. nextTok \in Tokens
      BY <1>1 DEF NewOk, TypeOK, Tokens
    <2>1. /\ tok' \in [Tokens -> {"unborn", "held", "releasing", "gone"}]
          /\ owner' \in [Tokens -> Threads]
      BY <1>1, <2>0 DEF NewOk, GiveRef, TypeOK
    <2>4. nextTok' \in 1..(MaxRefs + 1)
      BY <1>1, <2>0 DEF NewOk, TypeOK, Tokens
    <2>2. /\ UNCHANGED <<mutex, pc, cnt, relTok, upTo, upTok, frees>>
          /\ obj' = "live" /\ refCnt' = 1
      BY <1>1 DEF NewOk
    <2>3. QED
      BY <2>1, <2>2, <2>4 DEF TypeOK
  <1>2. ASSUME NEW t \in Threads, NewFail(t) PROVE TypeOK'
    BY <1>2 DEF NewFail, TypeOK
  <1>3. ASSUME NEW t \in Threads, NEW u \in Threads, UpRefCall(t, u)
        PROVE TypeOK'
    <2>0. nextTok \in Tokens
      BY <1>3 DEF UpRefCall, TypeOK, Tokens
    <2>1. /\ pc' \in [Threads -> PCs]
          /\ upTo' \in [Threads -> Threads]
          /\ upTok' \in [Threads -> Tokens]
      BY <1>3, <2>0 DEF UpRefCall, TypeOK, PCs
    <2>4. nextTok' \in 1..(MaxRefs + 1)
      BY <1>3, <2>0 DEF UpRefCall, TypeOK, Tokens
    <2>2. UNCHANGED <<obj, refCnt, mutex, cnt, relTok, tok, owner, frees>>
      BY <1>3 DEF UpRefCall
    <2>3. QED
      BY <2>1, <2>2, <2>4 DEF TypeOK
  <1>4. ASSUME NEW t \in Threads, NEW k \in Tokens, FreeCall(t, k)
        PROVE TypeOK'
    <2>1. /\ pc' \in [Threads -> PCs]
          /\ tok' \in [Tokens -> {"unborn", "held", "releasing", "gone"}]
          /\ relTok' \in [Threads -> Tokens]
      BY <1>4 DEF FreeCall, TypeOK, PCs
    <2>2. UNCHANGED <<obj, refCnt, mutex, cnt, upTo, upTok, owner, nextTok,
                      frees>>
      BY <1>4 DEF FreeCall
    <2>3. QED
      BY <2>1, <2>2 DEF TypeOK
  <1>5. ASSUME NEW t \in Threads, UpRefLock(t) \/ UpRefLockFail(t)
                                   \/ FreeLock(t) \/ FreeLockFail(t)
        PROVE TypeOK'
    BY <1>5 DEF UpRefLock, UpRefLockFail, FreeLock, FreeLockFail, TypeOK, PCs
  <1>6. ASSUME NEW t \in Threads, UpRefInc(t) PROVE TypeOK'
    <2>1. /\ pc' \in [Threads -> PCs]
          /\ tok' \in [Tokens -> {"unborn", "held", "releasing", "gone"}]
          /\ owner' \in [Tokens -> Threads]
          /\ refCnt' \in Int
          /\ mutex' = NoThread
      BY <1>6 DEF UpRefInc, GiveRef, TypeOK, PCs
    <2>2. UNCHANGED <<obj, cnt, relTok, upTo, upTok, nextTok, frees>>
      BY <1>6 DEF UpRefInc
    <2>3. QED
      BY <2>1, <2>2 DEF TypeOK
  <1>7. ASSUME NEW t \in Threads, FreeDec(t) PROVE TypeOK'
    <2>1. /\ pc' \in [Threads -> PCs]
          /\ tok' \in [Tokens -> {"unborn", "held", "releasing", "gone"}]
          /\ cnt' \in [Threads -> Int]
          /\ refCnt' \in Int
          /\ mutex' \in Threads \cup {NoThread}
      BY <1>7 DEF FreeDec, TypeOK, PCs
    <2>2. UNCHANGED <<obj, relTok, upTo, upTok, owner, nextTok, frees>>
      BY <1>7 DEF FreeDec
    <2>3. QED
      BY <2>1, <2>2 DEF TypeOK
  <1>12. ASSUME NEW t \in Threads, FreeStore(t) PROVE TypeOK'
    <2>1. /\ pc' \in [Threads -> PCs]
          /\ tok' \in [Tokens -> {"unborn", "held", "releasing", "gone"}]
          /\ cnt' \in [Threads -> Int]
          /\ refCnt' \in Int
      BY <1>12 DEF FreeStore, TypeOK, PCs
    <2>2. UNCHANGED <<obj, mutex, relTok, upTo, upTok, owner, nextTok, frees>>
      BY <1>12 DEF FreeStore
    <2>3. QED
      BY <2>1, <2>2 DEF TypeOK
  <1>8. ASSUME NEW t \in Threads, FreeLoad(t) PROVE TypeOK'
    BY <1>8 DEF FreeLoad, TypeOK, PCs
  <1>9. ASSUME NEW t \in Threads, FreeCheck(t) PROVE TypeOK'
    <2>1. /\ pc' \in [Threads -> PCs]
          /\ obj' \in {"none", "live", "failed", "freed"}
          /\ frees' \in Nat
      BY <1>9 DEF FreeCheck, TypeOK, PCs
    <2>2. UNCHANGED <<refCnt, mutex, cnt, relTok, upTo, upTok, tok, owner,
                      nextTok>>
      BY <1>9 DEF FreeCheck
    <2>3. QED
      BY <2>1, <2>2 DEF TypeOK
  <1>10. CASE Done \/ UNCHANGED vars
    BY <1>10 DEF Done, vars, TypeOK
  <1>11. QED
    BY <1>1, <1>2, <1>3, <1>4, <1>5, <1>6, <1>7, <1>8, <1>9, <1>10, <1>12
    DEF Next, InCall
(* Every call of wp_ecx_new, wp_ecx_up_ref and wp_ecx_free keeps the *)
(* variables in their types, with or without failing locks.          *)
THEOREM TypeCorrect == Spec => []TypeOK
  <1>1. Init => TypeOK
    BY InitTypeOK
  <1>2. TypeOK /\ [Next]_vars => TypeOK'
    BY NextTypeOK
  <1>3. QED
    BY <1>1, <1>2, PTL DEF Spec

-----------------------------------------------------------------------------
(* A reference a thread holds is one the count must include. *)
LEMMA HeldIsLive ==
  ASSUME NEW t
  PROVE  HeldBy(t) \subseteq Live
  BY DEF HeldBy, Live

(* A reference that is counted exists only while the object is live. *)
LEMMA LiveMeansLiveObject ==
  ASSUME TypeOK, BeforeNew, AfterFree, Live # {}
  PROVE  obj = "live"
  BY DEF TypeOK, BeforeNew, AfterFree, Live

(* With no reference counted, no thread is inside a call on the object   *)
(* but for the final cnt == 0 test of wp_ecx_free.                        *)
LEMMA NoLiveNoCall ==
  ASSUME TypeOK, NoRace, Fresh, Releasing, Live = {}, NEW t \in Threads
  PROVE  pc[t] \in {"idle", "free_check"}
  <1>1. ~InUpRef(t)
    BY HeldIsLive DEF Fresh
  <1>2. ~InFree(t)
    <2>1. SUFFICES ASSUME InFree(t) PROVE FALSE
      OBVIOUS
    <2>2. relTok[t] \in Live
      BY <2>1 DEF Releasing, Live, TypeOK
    <2>3. QED
      BY <2>2
  <1>3. QED
    BY <1>1, <1>2 DEF NoRace, TypeOK, PCs, InUpRef, InFree

(* A set of one counted reference is emptied by giving that one up. *)
LEMMA LastOfOne ==
  ASSUME NEW S, IsFiniteSet(S), Cardinality(S) = 1, NEW x \in S
  PROVE  S \ {x} = {}
  <1>1. IsFiniteSet(S \ {x}) /\ Cardinality(S \ {x}) = 0
    BY FS_RemoveElement
  <1>2. QED
    BY <1>1, FS_EmptySet

THEOREM InitIInv == Init => IInv
  <1> SUFFICES ASSUME Init PROVE IInv
    OBVIOUS
  <1>1. TypeOK
    BY InitTypeOK
  <1>2. QED
    BY <1>1 DEF Init, IInv, NoRace, BeforeNew, RefCntMatchesReferences, Fresh,
               Releasing, LastDec, AfterFree, InUpRef, InFree

-----------------------------------------------------------------------------
(* The steps that touch neither the count nor a reference: taking the    *)
(* mutex, a failing wp_ecx_new, and the end of the application.          *)
LEMMA StepQuiet ==
  ASSUME IInv, TypeOK',
         \/ \E t \in Threads : NewFail(t) \/ UpRefLock(t) \/ FreeLock(t)
         \/ Done \/ UNCHANGED vars
  PROVE  IInv'
  <1>1. CASE \E t \in Threads : NewFail(t)
    BY <1>1 DEF IInv, NewFail, NoRace, BeforeNew, RefCntMatchesReferences,
                Fresh, Releasing, LastDec, AfterFree, InUpRef, InFree, Live,
                HeldBy
  <1>2. CASE \E t \in Threads : UpRefLock(t)
    <2>1. PICK t \in Threads : UpRefLock(t)
      BY <1>2
    <2>2. /\ \A u \in Threads : InUpRef(u)' = InUpRef(u)
          /\ \A u \in Threads : InFree(u)' = InFree(u)
          /\ \A u \in Threads : pc'[u] = "idle" <=> pc[u] = "idle"
          /\ \A u \in Threads : pc'[u] = "free_check" <=> pc[u] = "free_check"
          /\ NoRace'
      BY <2>1 DEF UpRefLock, InUpRef, InFree, TypeOK, IInv, NoRace
    <2>3. UNCHANGED <<obj, refCnt, cnt, relTok, upTo, upTok, tok, owner,
                      nextTok, frees>>
      BY <2>1 DEF UpRefLock
    <2>4. Live' = Live /\ \A u \in Threads : HeldBy(u)' = HeldBy(u)
      BY <2>3 DEF Live, HeldBy
    <2>5. BeforeNew' /\ RefCntMatchesReferences'
      BY <2>2, <2>3, <2>4 DEF IInv, BeforeNew, RefCntMatchesReferences
    <2>6. Fresh'
      BY <2>2, <2>3, <2>4 DEF IInv, Fresh
    <2>7. Releasing'
      BY <2>2, <2>3 DEF IInv, Releasing, TypeOK
    <2>8. LastDec' /\ AfterFree'
      BY <2>2, <2>3, <2>4 DEF IInv, LastDec, AfterFree
    <2>9. QED
      BY <2>2, <2>5, <2>6, <2>7, <2>8 DEF IInv
  <1>5. CASE \E t \in Threads : FreeLock(t)
    <2>1. PICK t \in Threads : FreeLock(t)
      BY <1>5
    <2>2. /\ \A u \in Threads : InUpRef(u)' = InUpRef(u)
          /\ \A u \in Threads : InFree(u)' = InFree(u)
          /\ \A u \in Threads : pc'[u] = "idle" <=> pc[u] = "idle"
          /\ \A u \in Threads : pc'[u] = "free_check" <=> pc[u] = "free_check"
          /\ NoRace'
      BY <2>1 DEF FreeLock, InUpRef, InFree, TypeOK, IInv, NoRace
    <2>3. UNCHANGED <<obj, refCnt, cnt, relTok, upTo, upTok, tok, owner,
                      nextTok, frees>>
      BY <2>1 DEF FreeLock
    <2>4. Live' = Live /\ \A u \in Threads : HeldBy(u)' = HeldBy(u)
      BY <2>3 DEF Live, HeldBy
    <2>5. BeforeNew' /\ RefCntMatchesReferences'
      BY <2>2, <2>3, <2>4 DEF IInv, BeforeNew, RefCntMatchesReferences
    <2>6. Fresh'
      BY <2>2, <2>3, <2>4 DEF IInv, Fresh
    <2>7. Releasing'
      BY <2>2, <2>3 DEF IInv, Releasing, TypeOK
    <2>8. LastDec' /\ AfterFree'
      BY <2>2, <2>3, <2>4 DEF IInv, LastDec, AfterFree
    <2>9. QED
      BY <2>2, <2>5, <2>6, <2>7, <2>8 DEF IInv
  <1>3. CASE Done \/ UNCHANGED vars
    BY <1>3 DEF IInv, Done, vars, NoRace, BeforeNew, RefCntMatchesReferences,
                Fresh, Releasing, LastDec, AfterFree, InUpRef, InFree, Live,
                HeldBy
  <1>4. QED
    BY <1>1, <1>2, <1>3, <1>5

(* With the mutex always taken, the unsynchronised path is never entered. *)
LEMMA StepNoLockFail ==
  ASSUME IInv, ~LockFails, NEW t \in Threads,
         UpRefLockFail(t) \/ FreeLockFail(t) \/ FreeLoad(t) \/ FreeStore(t)
  PROVE  FALSE
  BY DEF IInv, NoRace, UpRefLockFail, FreeLockFail, FreeLoad, FreeStore

(* wp_ecx_new succeeds: the creator holds the one reference counted. *)
LEMMA StepNewOk ==
  ASSUME IInv, TypeOK', NEW t \in Threads, NewOk(t)
  PROVE  IInv'
  <1>1. /\ \A k \in Tokens : tok[k] = "unborn"
        /\ \A u \in Threads : pc[u] = "idle"
        /\ nextTok = 1 /\ frees = 0
    BY DEF NewOk, IInv, BeforeNew
  <1>2. /\ obj' = "live" /\ refCnt' = 1 /\ nextTok' = 2
        /\ tok' = [tok EXCEPT ![1] = "held"]
        /\ owner' = [owner EXCEPT ![1] = t]
        /\ UNCHANGED <<mutex, pc, cnt, relTok, upTo, upTok, frees>>
    BY <1>1 DEF NewOk, GiveRef
  <1>3. 1 \in Tokens
    BY MaxRefsAssumption DEF Tokens
  <1>4. Live' = {1}
    BY <1>1, <1>2, <1>3 DEF Live, TypeOK
  <1>5. RefCntMatchesReferences'
    BY <1>2, <1>4, FS_Singleton DEF RefCntMatchesReferences
  <1>6. NoRace' /\ BeforeNew'
    BY <1>1, <1>2 DEF NoRace, BeforeNew
  <1>7. Fresh'
    <2>1. \A k \in Tokens : k >= 2 => tok'[k] = "unborn"
      BY <1>1, <1>2, <1>3 DEF TypeOK, Tokens
    <2>2. \A u \in Threads : ~InUpRef(u)'
      BY <1>1, <1>2 DEF InUpRef
    <2>3. QED
      BY <1>2, <2>1, <2>2 DEF Fresh
  <1>8. Releasing'
    <2>1. \A u \in Threads : ~InFree(u)'
      BY <1>1, <1>2 DEF InFree
    <2>2. \A k \in Tokens : tok'[k] # "releasing"
      BY <1>1, <1>2, <1>3 DEF TypeOK
    <2>3. QED
      BY <2>1, <2>2 DEF Releasing
  <1>9. LastDec' /\ AfterFree'
    BY <1>1, <1>2 DEF LastDec, AfterFree
  <1>10. QED
    BY <1>5, <1>6, <1>7, <1>8, <1>9 DEF IInv

(* A holder calls wp_ecx_up_ref: a fresh number is set aside. *)
LEMMA StepUpRefCall ==
  ASSUME IInv, TypeOK', NEW t \in Threads, NEW u \in Threads, UpRefCall(t, u)
  PROVE  IInv'
  <1>1. obj = "live"
    BY HeldIsLive, LiveMeansLiveObject DEF UpRefCall, IInv
  <1>2. /\ pc' = [pc EXCEPT ![t] = "up_lock"]
        /\ upTok' = [upTok EXCEPT ![t] = nextTok]
        /\ nextTok' = nextTok + 1
        /\ UNCHANGED <<obj, refCnt, mutex, cnt, relTok, tok, owner, frees>>
    BY DEF UpRefCall
  <1>3. /\ Live' = Live
        /\ \A v \in Threads : HeldBy(v)' = HeldBy(v)
    BY <1>2 DEF Live, HeldBy
  <1>4. /\ \A v \in Threads : InFree(v)' = InFree(v)
        /\ \A v \in Threads : pc'[v] = "free_check" <=> pc[v] = "free_check"
        /\ \A v \in Threads \ {t} : InUpRef(v)' = InUpRef(v)
        /\ InUpRef(t)' /\ ~InUpRef(t)
        /\ NoRace'
    BY <1>2 DEF UpRefCall, InFree, InUpRef, NoRace, IInv, TypeOK
  <1>5. BeforeNew' /\ RefCntMatchesReferences'
    BY <1>1, <1>2, <1>3 DEF IInv, BeforeNew, RefCntMatchesReferences
  <1>6. Fresh'
    <2>1. nextTok \in Tokens /\ tok[nextTok] = "unborn"
      BY DEF UpRefCall, IInv, Fresh, TypeOK, Tokens
    <2>0. /\ tok' = tok /\ nextTok \in Nat /\ nextTok' = nextTok + 1
          /\ \A k \in Tokens : k >= nextTok => tok[k] = "unborn"
          /\ \A v \in Threads : InUpRef(v) =>
               /\ upTok[v] < nextTok
               /\ tok[upTok[v]] = "unborn"
               /\ HeldBy(v) # {}
      BY <1>2 DEF IInv, Fresh, TypeOK
    <2>2. \A k \in Tokens : k >= nextTok' => tok'[k] = "unborn"
      BY <2>0 DEF Tokens
    <2>3. ASSUME NEW v \in Threads, InUpRef(v)'
          PROVE  /\ upTok'[v] < nextTok'
                 /\ tok'[upTok'[v]] = "unborn"
                 /\ HeldBy(v)' # {}
      <3>1. CASE v = t
        <4>1. upTok'[v] = nextTok
          BY <3>1, <1>2 DEF TypeOK
        <4>2. HeldBy(v) # {}
          BY <3>1 DEF UpRefCall
        <4>3. QED
          BY <4>1, <4>2, <2>0, <2>1, <1>3
      <3>2. CASE v # t
        <4>1. upTok'[v] = upTok[v] /\ InUpRef(v)
          BY <3>2, <2>3, <1>2, <1>4 DEF TypeOK
        <4>2. upTok[v] \in Nat
          <5>1. upTok[v] \in Tokens
            BY DEF IInv, TypeOK
          <5>2. QED
            BY <5>1, MaxRefsAssumption DEF Tokens
        <4>3. QED
          BY <4>1, <4>2, <2>0, <1>3
      <3>3. QED
        BY <3>1, <3>2
    <2>4. ASSUME NEW v \in Threads, NEW w \in Threads,
                 InUpRef(v)', InUpRef(w)', v # w
          PROVE  upTok'[v] # upTok'[w]
      <3>1. CASE v = t
        BY <3>1, <2>4, <1>2, <1>4 DEF IInv, Fresh, TypeOK, Tokens
      <3>2. CASE w = t
        BY <3>2, <2>4, <1>2, <1>4 DEF IInv, Fresh, TypeOK, Tokens
      <3>3. CASE v # t /\ w # t
        BY <3>3, <2>4, <1>2, <1>4 DEF IInv, Fresh, TypeOK
      <3>4. QED
        BY <3>1, <3>2, <3>3
    <2>5. QED
      BY <2>2, <2>3, <2>4 DEF Fresh
  <1>7. Releasing'
    BY <1>2, <1>4 DEF IInv, Releasing, TypeOK
  <1>8. LastDec' /\ AfterFree'
    BY <1>1, <1>2, <1>3, <1>4 DEF IInv, LastDec, AfterFree
  <1>9. QED
    BY <1>4, <1>5, <1>6, <1>7, <1>8 DEF IInv

(* The increment under the mutex hands the reserved number to upTo[t]. *)
LEMMA StepUpRefInc ==
  ASSUME IInv, TypeOK', NEW t \in Threads, UpRefInc(t)
  PROVE  IInv'
  <1> DEFINE n == upTok[t]
  <1>1. /\ InUpRef(t)
        /\ n \in Tokens /\ n < nextTok /\ tok[n] = "unborn"
        /\ HeldBy(t) # {}
    BY DEF UpRefInc, InUpRef, IInv, Fresh, TypeOK
  <1>2. obj = "live" /\ Live # {}
    BY <1>1, HeldIsLive, LiveMeansLiveObject DEF IInv
  <1>3. /\ refCnt' = refCnt + 1
        /\ pc' = [pc EXCEPT ![t] = "idle"]
        /\ tok' = [tok EXCEPT ![n] = "held"]
        /\ owner' = [owner EXCEPT ![n] = upTo[t]]
        /\ UNCHANGED <<obj, cnt, relTok, upTo, upTok, nextTok, frees>>
    BY DEF UpRefInc, GiveRef
  <1>4. /\ \A k \in Tokens \ {n} : tok'[k] = tok[k] /\ owner'[k] = owner[k]
        /\ tok'[n] = "held"
    BY <1>1, <1>3 DEF TypeOK
  <1>5. Live' = Live \cup {n} /\ n \notin Live
    BY <1>1, <1>4 DEF Live
  <1>6. RefCntMatchesReferences'
    <2>1. IsFiniteSet(Live) /\ refCnt = Cardinality(Live)
      BY <1>2, LiveFinite DEF IInv, RefCntMatchesReferences
    <2>2. Cardinality(Live \cup {n}) = Cardinality(Live) + 1
      BY <1>5, <2>1, FS_AddElement
    <2>3. QED
      BY <1>2, <1>3, <1>5, <2>1, <2>2 DEF RefCntMatchesReferences
  <1>7. /\ \A v \in Threads : InFree(v)' = InFree(v)
        /\ \A v \in Threads \ {t} : InUpRef(v)' = InUpRef(v)
        /\ ~InUpRef(t)'
        /\ \A v \in Threads : pc'[v] = "free_check" => v # t /\ pc[v] = "free_check"
        /\ NoRace' /\ BeforeNew'
    BY <1>1, <1>2, <1>3 DEF InFree, InUpRef, NoRace, BeforeNew, IInv, TypeOK
  <1>8. Fresh'
    <2>0. /\ \A k \in Tokens : k >= nextTok => tok[k] = "unborn"
          /\ nextTok \in Nat /\ nextTok' = nextTok
      BY <1>3 DEF IInv, Fresh, TypeOK
    <2>1. \A k \in Tokens : k >= nextTok' => tok'[k] = "unborn"
      <3>1. \A k \in Tokens : k >= nextTok => k \in Tokens \ {n}
        BY <1>1, <2>0 DEF Tokens
      <3>2. QED
        BY <3>1, <2>0, <1>4
    <2>2. ASSUME NEW v \in Threads, InUpRef(v)'
          PROVE  /\ upTok'[v] < nextTok'
                 /\ tok'[upTok'[v]] = "unborn"
                 /\ HeldBy(v)' # {}
      <3>1. v # t /\ InUpRef(v)
        BY <2>2, <1>7
      <3>2. upTok[v] # n /\ upTok[v] \in Tokens
        BY <3>1, <1>1 DEF IInv, Fresh, TypeOK
      <3>3. HeldBy(v) \subseteq HeldBy(v)'
        BY <1>1, <1>4 DEF HeldBy
      <3>4. QED
        BY <3>1, <3>2, <3>3, <1>3, <1>4 DEF IInv, Fresh
    <2>3. QED
      BY <2>1, <2>2, <1>3, <1>7 DEF IInv, Fresh
  <1>9. Releasing'
    <2>1. ASSUME NEW v \in Threads, InFree(v)'
          PROVE  tok'[relTok'[v]] = "releasing" /\ owner'[relTok'[v]] = v
      <3>1. InFree(v) /\ tok[relTok[v]] = "releasing" /\ owner[relTok[v]] = v
        BY <2>1, <1>7 DEF IInv, Releasing
      <3>2. relTok[v] \in Tokens \ {n}
        BY <3>1, <1>1 DEF IInv, TypeOK
      <3>3. QED
        BY <3>1, <3>2, <1>3, <1>4
    <2>2. ASSUME NEW k \in Tokens, tok'[k] = "releasing"
          PROVE  (InFree(owner[k]) /\ relTok[owner[k]] = k)'
      <3>1. k # n /\ tok[k] = "releasing" /\ owner'[k] = owner[k]
        BY <2>2, <1>4
      <3>2. owner[k] \in Threads
        BY DEF IInv, TypeOK
      <3>3. QED
        BY <3>1, <3>2, <1>3, <1>7 DEF IInv, Releasing, InFree
    <2>3. QED
      BY <2>1, <2>2 DEF Releasing
  <1>10. LastDec' /\ AfterFree'
    <2>1. \A v \in Threads : ~(pc[v] = "free_check" /\ cnt[v] = 0)
      BY <1>2 DEF IInv, LastDec
    <2>2. QED
      BY <2>1, <1>2, <1>3, <1>7 DEF LastDec, AfterFree
  <1>11. QED
    BY <1>6, <1>7, <1>8, <1>9, <1>10 DEF IInv

(* A holder calls wp_ecx_free: its reference k is being given up. *)
LEMMA StepFreeCall ==
  ASSUME IInv, TypeOK', NEW t \in Threads, NEW k \in Tokens, FreeCall(t, k)
  PROVE  IInv'
  <1>1. /\ pc[t] = "idle" /\ tok[k] = "held" /\ owner[k] = t
        /\ k \in Live
    BY DEF FreeCall, HeldBy, Live
  <1>2. obj = "live"
    BY <1>1, LiveMeansLiveObject DEF IInv
  <1>3. /\ tok' = [tok EXCEPT ![k] = "releasing"]
        /\ relTok' = [relTok EXCEPT ![t] = k]
        /\ pc' = [pc EXCEPT ![t] = "free_lock"]
        /\ UNCHANGED <<obj, refCnt, mutex, cnt, upTo, upTok, owner, nextTok, frees>>
    BY DEF FreeCall
  <1>4. /\ \A j \in Tokens \ {k} : tok'[j] = tok[j]
        /\ tok'[k] = "releasing"
    BY <1>3 DEF IInv, TypeOK
  <1>5. /\ Live' = Live
        /\ \A v \in Threads \ {t} : HeldBy(v)' = HeldBy(v)
    BY <1>1, <1>3, <1>4 DEF Live, HeldBy
  <1>6. /\ \A v \in Threads \ {t} : InFree(v)' = InFree(v)
        /\ \A v \in Threads \ {t} : InUpRef(v)' = InUpRef(v)
        /\ InFree(t)' /\ ~InUpRef(t)' /\ ~InFree(t) /\ ~InUpRef(t)
        /\ \A v \in Threads : pc'[v] = "free_check" => v # t /\ pc[v] = "free_check"
        /\ NoRace' /\ BeforeNew' /\ RefCntMatchesReferences'
    BY <1>1, <1>2, <1>3, <1>5
       DEF InFree, InUpRef, NoRace, BeforeNew, RefCntMatchesReferences, IInv, TypeOK
  <1>7. Fresh'
    <2>0. /\ \A j \in Tokens : j >= nextTok => tok[j] = "unborn"
          /\ nextTok' = nextTok
      BY <1>3 DEF IInv, Fresh
    <2>1. \A j \in Tokens : j >= nextTok' => tok'[j] = "unborn"
      BY <2>0, <1>1, <1>4
    <2>2. ASSUME NEW v \in Threads, InUpRef(v)'
          PROVE  /\ upTok'[v] < nextTok'
                 /\ tok'[upTok'[v]] = "unborn"
                 /\ HeldBy(v)' # {}
      <3>1. v # t /\ InUpRef(v)
        BY <2>2, <1>6
      <3>2. upTok[v] \in Tokens \ {k} /\ tok[upTok[v]] = "unborn"
        BY <3>1, <1>1 DEF IInv, Fresh, TypeOK
      <3>3. QED
        BY <3>1, <3>2, <1>3, <1>4, <1>5 DEF IInv, Fresh
    <2>3. QED
      BY <2>1, <2>2, <1>3, <1>6 DEF IInv, Fresh
  <1>8. Releasing'
    <2>1. ASSUME NEW v \in Threads, InFree(v)'
          PROVE  (tok[relTok[v]] = "releasing" /\ owner[relTok[v]] = v)'
      <3>1. CASE v = t
        BY <3>1, <1>1, <1>3, <1>4 DEF IInv, TypeOK
      <3>2. CASE v # t
        <4>1. InFree(v) /\ tok[relTok[v]] = "releasing" /\ owner[relTok[v]] = v
          BY <3>2, <2>1, <1>6 DEF IInv, Releasing
        <4>2. relTok[v] \in Tokens \ {k}
          BY <4>1, <1>1 DEF IInv, TypeOK
        <4>3. QED
          BY <3>2, <4>1, <4>2, <1>3, <1>4 DEF IInv, TypeOK
      <3>3. QED
        BY <3>1, <3>2
    <2>2. ASSUME NEW j \in Tokens, tok'[j] = "releasing"
          PROVE  (InFree(owner[j]) /\ relTok[owner[j]] = j)'
      <3>1. CASE j = k
        BY <3>1, <1>1, <1>3, <1>6 DEF IInv, TypeOK
      <3>2. CASE j # k
        <4>1. tok[j] = "releasing"
          BY <3>2, <2>2, <1>4
        <4>2. owner[j] \in Threads /\ InFree(owner[j]) /\ relTok[owner[j]] = j
          BY <4>1 DEF IInv, Releasing, TypeOK
        <4>3. owner[j] # t
          BY <4>2, <1>6
        <4>4. QED
          BY <4>2, <4>3, <1>3, <1>6 DEF IInv, TypeOK
      <3>3. QED
        BY <3>1, <3>2
    <2>3. QED
      BY <2>1, <2>2 DEF Releasing
  <1>9. LastDec' /\ AfterFree'
    <2>1. \A v \in Threads : ~(pc[v] = "free_check" /\ cnt[v] = 0)
      BY <1>1, <1>2 DEF IInv, LastDec
    <2>2. QED
      BY <2>1, <1>2, <1>3, <1>6 DEF LastDec, AfterFree
  <1>10. QED
    BY <1>6, <1>7, <1>8, <1>9 DEF IInv

(* The decrement under the mutex: relTok[t] is gone, cnt[t] is the new count. *)
LEMMA StepFreeDec ==
  ASSUME IInv, TypeOK', NEW t \in Threads, FreeDec(t)
  PROVE  IInv'
  <1> DEFINE r == relTok[t]
  <1>1. /\ InFree(t) /\ r \in Tokens
        /\ tok[r] = "releasing" /\ owner[r] = t
        /\ r \in Live
    BY DEF FreeDec, InFree, IInv, Releasing, TypeOK, Live
  <1>2. obj = "live"
    BY <1>1, LiveMeansLiveObject DEF IInv
  <1>3. /\ refCnt' = refCnt - 1
        /\ cnt' = [cnt EXCEPT ![t] = refCnt - 1]
        /\ tok' = [tok EXCEPT ![r] = "gone"]
        /\ pc' = [pc EXCEPT ![t] = "free_check"]
        /\ UNCHANGED <<obj, relTok, upTo, upTok, owner, nextTok, frees>>
    BY DEF FreeDec
  <1>4. /\ \A j \in Tokens \ {r} : tok'[j] = tok[j]
        /\ tok'[r] = "gone"
    BY <1>3 DEF IInv, TypeOK
  <1>5. /\ Live' = Live \ {r}
        /\ \A v \in Threads : HeldBy(v)' = HeldBy(v)
    BY <1>1, <1>3, <1>4 DEF Live, HeldBy
  <1>6. /\ IsFiniteSet(Live) /\ refCnt = Cardinality(Live)
        /\ refCnt' = Cardinality(Live')
    <2>1. IsFiniteSet(Live) /\ refCnt = Cardinality(Live)
      BY <1>2, LiveFinite DEF IInv, RefCntMatchesReferences
    <2>2. Cardinality(Live \ {r}) = Cardinality(Live) - 1
      BY <1>1, <2>1, FS_RemoveElement
    <2>3. QED
      BY <1>3, <1>5, <2>1, <2>2
  <1>7. /\ \A v \in Threads \ {t} : InFree(v)' = InFree(v)
        /\ \A v \in Threads \ {t} : InUpRef(v)' = InUpRef(v)
        /\ ~InFree(t)' /\ ~InUpRef(t)' /\ ~InUpRef(t)
        /\ NoRace' /\ BeforeNew' /\ RefCntMatchesReferences'
    BY <1>1, <1>2, <1>3, <1>6
       DEF InFree, InUpRef, NoRace, BeforeNew, RefCntMatchesReferences, IInv, TypeOK
  <1>8. Fresh'
    <2>0. /\ \A j \in Tokens : j >= nextTok => tok[j] = "unborn"
          /\ nextTok' = nextTok
      BY <1>3 DEF IInv, Fresh
    <2>1. \A j \in Tokens : j >= nextTok' => tok'[j] = "unborn"
      BY <2>0, <1>1, <1>4
    <2>2. ASSUME NEW v \in Threads, InUpRef(v)'
          PROVE  /\ upTok'[v] < nextTok'
                 /\ tok'[upTok'[v]] = "unborn"
                 /\ HeldBy(v)' # {}
      <3>1. v # t /\ InUpRef(v)
        BY <2>2, <1>7
      <3>2. upTok[v] \in Tokens \ {r} /\ tok[upTok[v]] = "unborn"
        BY <3>1, <1>1 DEF IInv, Fresh, TypeOK
      <3>3. QED
        BY <3>1, <3>2, <1>3, <1>4, <1>5 DEF IInv, Fresh
    <2>3. QED
      BY <2>1, <2>2, <1>3, <1>7 DEF IInv, Fresh
  <1>9. Releasing'
    <2>1. ASSUME NEW v \in Threads, InFree(v)'
          PROVE  (tok[relTok[v]] = "releasing" /\ owner[relTok[v]] = v)'
      <3>1. v # t /\ InFree(v) /\ tok[relTok[v]] = "releasing" /\ owner[relTok[v]] = v
        BY <2>1, <1>7 DEF IInv, Releasing
      <3>2. relTok[v] \in Tokens \ {r}
        BY <3>1, <1>1 DEF IInv, TypeOK
      <3>3. QED
        BY <3>1, <3>2, <1>3, <1>4
    <2>2. ASSUME NEW j \in Tokens, tok'[j] = "releasing"
          PROVE  (InFree(owner[j]) /\ relTok[owner[j]] = j)'
      <3>1. j # r /\ tok[j] = "releasing"
        BY <2>2, <1>4
      <3>2. owner[j] \in Threads /\ InFree(owner[j]) /\ relTok[owner[j]] = j
        BY <3>1 DEF IInv, Releasing, TypeOK
      <3>3. owner[j] # t
        BY <3>1, <3>2
      <3>4. QED
        BY <3>2, <3>3, <1>3, <1>7
    <2>3. QED
      BY <2>1, <2>2 DEF Releasing
  <1>10. LastDec'
    <2>1. \A v \in Threads : ~(pc[v] = "free_check" /\ cnt[v] = 0)
      BY <1>1 DEF IInv, LastDec
    <2>2. ASSUME NEW v \in Threads, pc'[v] = "free_check", cnt'[v] = 0
          PROVE  /\ obj' = "live"
                 /\ Live' = {}
                 /\ \A w \in Threads \ {v} : ~(pc'[w] = "free_check" /\ cnt'[w] = 0)
      <3>1. v = t
        BY <2>1, <2>2, <1>3 DEF IInv, TypeOK
      <3>2. Cardinality(Live) = 1
        BY <3>1, <2>2, <1>3, <1>6 DEF IInv, TypeOK
      <3>3. Live' = {}
        BY <3>2, <1>1, <1>5, <1>6, LastOfOne
      <3>4. \A w \in Threads \ {v} : ~(pc'[w] = "free_check" /\ cnt'[w] = 0)
        BY <3>1, <2>1, <1>3 DEF IInv, TypeOK
      <3>5. QED
        BY <3>3, <3>4, <1>2, <1>3
    <2>3. QED
      BY <2>2 DEF LastDec
  <1>11. AfterFree'
    BY <1>2, <1>3 DEF AfterFree
  <1>12. QED
    BY <1>7, <1>8, <1>9, <1>10, <1>11 DEF IInv

(* The check "if (cnt == 0)" and, when it holds, the destruction. *)
LEMMA StepFreeCheck ==
  ASSUME IInv, TypeOK', NEW t \in Threads, FreeCheck(t)
  PROVE  IInv'
  <1>1. /\ pc[t] = "free_check"
        /\ pc' = [pc EXCEPT ![t] = "idle"]
        /\ UNCHANGED <<refCnt, mutex, cnt, relTok, upTo, upTok, tok, owner, nextTok>>
    BY DEF FreeCheck
  <1>2. /\ Live' = Live
        /\ \A v \in Threads : HeldBy(v)' = HeldBy(v)
        /\ \A v \in Threads : InFree(v)' = InFree(v)
        /\ \A v \in Threads : InUpRef(v)' = InUpRef(v)
        /\ \A v \in Threads : pc'[v] = "free_check" => v # t /\ pc[v] = "free_check"
        /\ \A v \in Threads : pc[v] \in {"idle", "free_check"} => pc'[v] \in {"idle", "free_check"}
    BY <1>1 DEF Live, HeldBy, InFree, InUpRef, IInv, TypeOK
  <1>3. NoRace' /\ Fresh' /\ Releasing'
    BY <1>1, <1>2 DEF NoRace, Fresh, Releasing, IInv, TypeOK
  <1>4. CASE cnt[t] = 0
    <2>1. /\ obj = "live" /\ Live = {} /\ frees = 0
          /\ \A u \in Threads \ {t} : ~(pc[u] = "free_check" /\ cnt[u] = 0)
      BY <1>1, <1>4 DEF IInv, LastDec, BeforeNew
    <2>2. obj' = "freed" /\ frees' = 1
      BY <1>4, <2>1 DEF FreeCheck
    <2>3. \A u \in Threads : pc[u] \in {"idle", "free_check"}
      BY <2>1, NoLiveNoCall DEF IInv
    <2>4. BeforeNew' /\ RefCntMatchesReferences'
      BY <2>2 DEF BeforeNew, RefCntMatchesReferences
    <2>5. LastDec'
      BY <2>1, <1>1, <1>2 DEF LastDec, IInv, TypeOK
    <2>6. AfterFree'
      BY <2>1, <2>2, <2>3, <1>1, <1>2 DEF AfterFree, IInv, TypeOK
    <2>7. QED
      BY <1>3, <2>4, <2>5, <2>6 DEF IInv
  <1>5. CASE cnt[t] # 0
    <2>1. UNCHANGED <<obj, frees>>
      BY <1>5 DEF FreeCheck
    <2>2. BeforeNew' /\ RefCntMatchesReferences'
      BY <2>1, <1>1, <1>2 DEF BeforeNew, RefCntMatchesReferences, IInv, TypeOK
    <2>3. LastDec'
      BY <2>1, <1>1, <1>2 DEF LastDec, IInv, TypeOK
    <2>4. AfterFree'
      BY <2>1, <1>1, <1>2 DEF AfterFree, IInv, TypeOK
    <2>5. QED
      BY <1>3, <2>2, <2>3, <2>4 DEF IInv
  <1>6. QED
    BY <1>4, <1>5

(* Every step of the model keeps the strengthening, when the mutex never *)
(* fails.                                                                *)
LEMMA NextIInv ==
  ASSUME ~LockFails
  PROVE  IInv /\ [Next]_vars => IInv'
  <1> SUFFICES ASSUME IInv, [Next]_vars PROVE IInv'
    OBVIOUS
  <1>1. TypeOK'
    BY NextTypeOK DEF IInv
  <1>2. CASE \E t \in Threads : NewOk(t)
    BY <1>1, <1>2, StepNewOk
  <1>3. CASE \E t \in Threads : NewFail(t) \/ UpRefLock(t) \/ FreeLock(t)
    BY <1>1, <1>3, StepQuiet
  <1>4. CASE \E t, u \in Threads : UpRefCall(t, u)
    BY <1>1, <1>4, StepUpRefCall
  <1>5. CASE \E t \in Threads, k \in Tokens : FreeCall(t, k)
    BY <1>1, <1>5, StepFreeCall
  <1>6. CASE \E t \in Threads : UpRefInc(t)
    BY <1>1, <1>6, StepUpRefInc
  <1>7. CASE \E t \in Threads : FreeDec(t)
    BY <1>1, <1>7, StepFreeDec
  <1>8. CASE \E t \in Threads : FreeCheck(t)
    BY <1>1, <1>8, StepFreeCheck
  <1>9. CASE \E t \in Threads :
               UpRefLockFail(t) \/ FreeLockFail(t) \/ FreeLoad(t) \/ FreeStore(t)
    BY <1>9, StepNoLockFail
  <1>10. CASE Done \/ UNCHANGED vars
    BY <1>1, <1>10, StepQuiet
  <1>11. QED
    BY <1>2, <1>3, <1>4, <1>5, <1>6, <1>7, <1>8, <1>9, <1>10 DEF Next, InCall

(* The strengthening gives the two safety properties. *)
LEMMA IInvSafe ==
  ASSUME IInv
  PROVE  RefCntMatchesReferences /\ DestroyedOnlyWhenUnreferenced
  <1>1. frees > 0 => obj = "freed"
    BY DEF IInv, BeforeNew, TypeOK
  <1>2. QED
    BY <1>1 DEF IInv, AfterFree, DestroyedOnlyWhenUnreferenced

(* When wc_LockMutex never fails, wp_ecx_new/up_ref/free keep refCnt     *)
(* equal to the references their callers own, for any number of threads *)
(* and any bound on the references.                                      *)
THEOREM RefCntCorrect ==
  ASSUME ~LockFails
  PROVE  Spec => []RefCntMatchesReferences
  <1>1. Init => IInv
    BY InitIInv
  <1>2. IInv /\ [Next]_vars => IInv'
    BY NextIInv
  <1>3. IInv => RefCntMatchesReferences
    BY IInvSafe
  <1>4. QED
    BY <1>1, <1>2, <1>3, PTL DEF Spec

(* When wc_LockMutex never fails, wp_ecx_free destroys the key at most   *)
(* once, and only after every reference was given up and while no other  *)
(* thread is inside wp_ecx_up_ref or wp_ecx_free on it.                  *)
THEOREM FreedOnlyWhenUnreferenced ==
  ASSUME ~LockFails
  PROVE  Spec => []DestroyedOnlyWhenUnreferenced
  <1>1. Init => IInv
    BY InitIInv
  <1>2. IInv /\ [Next]_vars => IInv'
    BY NextIInv
  <1>3. IInv => DestroyedOnlyWhenUnreferenced
    BY IInvSafe
  <1>4. QED
    BY <1>1, <1>2, <1>3, PTL DEF Spec

-----------------------------------------------------------------------------
(* The lock discipline needs no strengthening beyond the types, and holds *)
(* whether or not wc_LockMutex may fail.                                  *)
MInv == TypeOK /\ MutexHeldInCriticalSection

CS == {"up_inc", "free_dec"}

(* A step that moves t between two places outside the critical section, *)
(* leaving the mutex and the other threads alone, keeps the discipline. *)
LEMMA OutsideStep ==
  ASSUME MInv, NEW t \in Threads, pc[t] \notin CS,
         NEW p \in PCs \ CS, pc' = [pc EXCEPT ![t] = p], mutex' = mutex
  PROVE  MutexHeldInCriticalSection'
  BY DEF MInv, MutexHeldInCriticalSection, TypeOK, CS

(* Taking the free mutex enters the critical section. *)
LEMMA EnterStep ==
  ASSUME MInv, NEW t \in Threads, mutex = NoThread,
         NEW p \in CS, pc' = [pc EXCEPT ![t] = p], mutex' = t
  PROVE  MutexHeldInCriticalSection'
  <1> SUFFICES ASSUME NEW u \in Threads
               PROVE  mutex' = u <=> pc'[u] \in CS
    BY DEF MutexHeldInCriticalSection, CS
  <1>1. CASE u = t
    BY <1>1 DEF MInv, TypeOK
  <1>2. CASE u # t
    <2>1. pc'[u] = pc[u] /\ mutex' # u
      BY <1>2 DEF MInv, TypeOK
    <2>2. pc[u] \notin CS
      BY ThreadsAssumption DEF MInv, MutexHeldInCriticalSection, CS
    <2>3. QED
      BY <2>1, <2>2
  <1>3. QED
    BY <1>1, <1>2

(* Unlocking by the holder leaves the critical section. *)
LEMMA LeaveStep ==
  ASSUME MInv, NEW t \in Threads, mutex = t,
         NEW p \in PCs \ CS, pc' = [pc EXCEPT ![t] = p], mutex' = NoThread
  PROVE  MutexHeldInCriticalSection'
  <1> SUFFICES ASSUME NEW u \in Threads
               PROVE  mutex' = u <=> pc'[u] \in CS
    BY DEF MutexHeldInCriticalSection, CS
  <1>1. CASE u = t
    BY <1>1, ThreadsAssumption DEF MInv, TypeOK
  <1>2. CASE u # t
    <2>1. pc'[u] = pc[u] /\ mutex' # u
      BY <1>2, ThreadsAssumption DEF MInv, TypeOK
    <2>2. pc[u] \notin CS
      BY <1>2 DEF MInv, MutexHeldInCriticalSection, CS
    <2>3. QED
      BY <2>1, <2>2
  <1>3. QED
    BY <1>1, <1>2

LEMMA NextMInv == MInv /\ [Next]_vars => MInv'
  <1> SUFFICES ASSUME MInv, [Next]_vars PROVE MInv'
    OBVIOUS
  <1> USE ThreadsAssumption
  <1>1. TypeOK'
    BY NextTypeOK DEF MInv
  <1>2. CASE \E t \in Threads : UpRefLock(t)
    <2>1. PICK t \in Threads : UpRefLock(t)
      BY <1>2
    <2>2. QED
      <3>1. MutexHeldInCriticalSection'
        BY <2>1, EnterStep DEF UpRefLock, CS
      <3>2. QED
        BY <1>1, <3>1 DEF MInv
  <1>3. CASE \E t \in Threads : FreeLock(t)
    <2>1. PICK t \in Threads : FreeLock(t)
      BY <1>3
    <2>2. QED
      <3>1. MutexHeldInCriticalSection'
        BY <2>1, EnterStep DEF FreeLock, CS
      <3>2. QED
        BY <1>1, <3>1 DEF MInv
  <1>4. CASE \E t \in Threads : UpRefInc(t)
    <2>1. PICK t \in Threads : UpRefInc(t)
      BY <1>4
    <2>2. mutex = t
      BY <2>1 DEF UpRefInc, MInv, MutexHeldInCriticalSection
    <2>3. MutexHeldInCriticalSection'
      BY <2>1, <2>2, LeaveStep DEF UpRefInc, CS, PCs
    <2>4. QED
      BY <1>1, <2>3 DEF MInv
  <1>5. CASE \E t \in Threads : FreeDec(t)
    <2>1. PICK t \in Threads : FreeDec(t)
      BY <1>5
    <2>2. mutex = t
      BY <2>1 DEF FreeDec, MInv, MutexHeldInCriticalSection
    <2>3. MutexHeldInCriticalSection'
      BY <2>1, <2>2, LeaveStep DEF FreeDec, CS, PCs
    <2>4. QED
      BY <1>1, <2>3 DEF MInv
  <1>6. CASE \E t \in Threads :
               \/ UpRefLockFail(t) \/ FreeLockFail(t) \/ FreeLoad(t)
               \/ FreeStore(t) \/ FreeCheck(t)
               \/ \E u \in Threads : UpRefCall(t, u)
               \/ \E k \in Tokens : FreeCall(t, k)
    <2>1. PICK t \in Threads :
               \/ UpRefLockFail(t) \/ FreeLockFail(t) \/ FreeLoad(t)
               \/ FreeStore(t) \/ FreeCheck(t)
               \/ \E u \in Threads : UpRefCall(t, u)
               \/ \E k \in Tokens : FreeCall(t, k)
      BY <1>6
    <2>2. MutexHeldInCriticalSection'
      BY <2>1, OutsideStep
         DEF UpRefLockFail, FreeLockFail, FreeLoad, FreeStore, FreeCheck,
             UpRefCall, FreeCall, CS, PCs
    <2>3. QED
      BY <1>1, <2>2 DEF MInv
  <1>7. CASE \E t \in Threads : NewOk(t) \/ NewFail(t)
    BY <1>1, <1>7 DEF NewOk, NewFail, MInv, MutexHeldInCriticalSection
  <1>8. CASE Done \/ UNCHANGED vars
    BY <1>1, <1>8 DEF Done, vars, MInv, MutexHeldInCriticalSection
  <1>9. QED
    BY <1>2, <1>3, <1>4, <1>5, <1>6, <1>7, <1>8 DEF Next, InCall

(* wp_ecx_up_ref and wp_ecx_free hold ecx->mutex exactly between a       *)
(* successful wc_LockMutex and their wc_UnLockMutex, for any number of   *)
(* threads, and also when wc_LockMutex may fail: the rc checks of both   *)
(* functions keep a failed lock from releasing or leaking the mutex.     *)
THEOREM MutexDiscipline == Spec => []MutexHeldInCriticalSection
  <1>1. Init => MInv
    BY InitTypeOK, ThreadsAssumption
       DEF Init, MInv, MutexHeldInCriticalSection
  <1>2. MInv /\ [Next]_vars => MInv'
    BY NextMInv
  <1>3. MInv => MutexHeldInCriticalSection
    BY DEF MInv
  <1>4. QED
    BY <1>1, <1>2, <1>3, PTL DEF Spec
-----------------------------------------------------------------------------
(***************************************************************************)
(* The count is updated only under the mutex.  With wc_LockMutex never    *)
(* failing IInv rules out the unlocked load and store of wp_ecx_free, and *)
(* MInv names the thread whose increment or decrement it is.              *)
(***************************************************************************)

(* The step CountUpdatedUnderMutex constrains. *)
CountStep ==
  refCnt' # refCnt =>
    \/ obj = "none" /\ refCnt' = 1
    \/ \E t \in Threads :
         /\ mutex = t /\ mutex' = NoThread /\ pc'[t] # pc[t]
         /\ refCnt' - refCnt \in {1, -1}

(* The increment of up_ref and the decrement of free are made by the     *)
(* mutex holder t, which leaves the critical section in the same step.    *)
LEMMA HolderUpdate ==
  ASSUME MInv, NEW t \in Threads, pc[t] \in CS,
         NEW p \in PCs \ CS, pc' = [pc EXCEPT ![t] = p], mutex' = NoThread,
         refCnt' - refCnt \in {1, -1}
  PROVE  CountStep
<1>1. mutex = t
  BY DEF MInv, MutexHeldInCriticalSection, CS
<1>2. pc'[t] # pc[t]
  BY DEF MInv, TypeOK
<1>3. QED
  BY <1>1, <1>2 DEF CountStep

LEMMA NextCountStep ==
  ASSUME IInv, MInv, ~LockFails, [Next]_vars
  PROVE  [CountStep]_vars
<1>1. CASE \E t \in Threads : NewOk(t)
  BY <1>1 DEF NewOk, CountStep
<1>2. CASE \E t \in Threads : UpRefInc(t)
  <2>1. PICK t \in Threads : UpRefInc(t)
    BY <1>2
  <2>2. refCnt \in Int
    BY DEF IInv, TypeOK
  <2>3. /\ pc[t] \in CS /\ "idle" \in PCs \ CS
        /\ pc' = [pc EXCEPT ![t] = "idle"] /\ mutex' = NoThread
    BY <2>1 DEF UpRefInc, CS, PCs
  <2>4. refCnt' - refCnt \in {1, -1}
    BY <2>1, <2>2 DEF UpRefInc
  <2>5. QED
    BY <2>3, <2>4, HolderUpdate
<1>3. CASE \E t \in Threads : FreeDec(t)
  <2>1. PICK t \in Threads : FreeDec(t)
    BY <1>3
  <2>2. refCnt \in Int
    BY DEF IInv, TypeOK
  <2>3. /\ pc[t] \in CS /\ "free_check" \in PCs \ CS
        /\ pc' = [pc EXCEPT ![t] = "free_check"] /\ mutex' = NoThread
    BY <2>1 DEF FreeDec, CS, PCs
  <2>4. refCnt' - refCnt \in {1, -1}
    BY <2>1, <2>2 DEF FreeDec
  <2>5. QED
    BY <2>3, <2>4, HolderUpdate
<1>4. CASE \E t \in Threads :
             UpRefLockFail(t) \/ FreeLockFail(t) \/ FreeLoad(t) \/ FreeStore(t)
  BY <1>4, StepNoLockFail
<1>5. CASE \/ \E t \in Threads :
                \/ NewFail(t) \/ UpRefLock(t) \/ FreeLock(t) \/ FreeCheck(t)
                \/ \E u \in Threads : UpRefCall(t, u)
                \/ \E k \in Tokens : FreeCall(t, k)
           \/ Done \/ UNCHANGED vars
  <2>1. UNCHANGED refCnt
    BY <1>5 DEF NewFail, UpRefLock, FreeLock, FreeCheck, UpRefCall, FreeCall,
                Done, vars
  <2>2. QED
    BY <2>1 DEF CountStep
<1>6. QED
  BY <1>1, <1>2, <1>3, <1>4, <1>5 DEF Next, InCall

(* When wc_LockMutex never fails, every change of ecx->refCnt after      *)
(* wp_ecx_new is the +1 of an up_ref or the -1 of a free, made by the    *)
(* thread holding ecx->mutex in the step that releases it, for any       *)
(* number of threads and references.                                     *)
THEOREM CountSerialised ==
  ASSUME ~LockFails
  PROVE  Spec => CountUpdatedUnderMutex
<1>1. Init => IInv /\ MInv
  BY InitIInv, InitTypeOK, ThreadsAssumption
     DEF Init, MInv, MutexHeldInCriticalSection
<1>2. IInv /\ MInv /\ [Next]_vars => (IInv /\ MInv)'
  BY NextIInv, NextMInv
<1>3. IInv /\ MInv /\ [Next]_vars => [CountStep]_vars
  BY NextCountStep
<1>4. QED
  BY <1>1, <1>2, <1>3, PTL DEF Spec, CountUpdatedUnderMutex, CountStep
-----------------------------------------------------------------------------
(***************************************************************************)
(* Refinement: when wc_LockMutex never fails, EcxRefCnt implements the    *)
(* abstract shared object of EcxShared under the mapping SharedRef.  Each *)
(* step of the code is a step of the abstract object or leaves its state *)
(* alone; the inductive invariant IInv supplies the facts the abstract    *)
(* guards need (a sharer holds a reference, the destroyer's zero is the   *)
(* last reference).                                                        *)
(***************************************************************************)

(* A step that changes neither obj, nor the references, nor their owners *)
(* is a stutter of the abstract object.                                   *)
LEMMA SharedStutter ==
  ASSUME UNCHANGED <<obj, tok, owner>>
  PROVE  UNCHANGED Shared!svars
  BY DEF Shared!svars, SharedRef

(* Making reference k held or gone makes it so in the abstract view. *)
LEMMA SharedRefUpdate ==
  ASSUME TypeOK, NEW k \in Tokens, NEW v \in {"held", "gone"},
         tok' = [tok EXCEPT ![k] = v]
  PROVE  SharedRef' = [SharedRef EXCEPT ![k] = v]
  <1> DEFINE F == [j \in Tokens |-> IF tok'[j] = "releasing" THEN "held" ELSE tok'[j]]
             R == [SharedRef EXCEPT ![k] = v]
  <1>1. SharedRef' = F
    BY DEF SharedRef
  <1>2. ASSUME NEW j \in Tokens PROVE F[j] = R[j]
    <2>1. CASE j = k
      BY <2>1 DEF SharedRef, TypeOK
    <2>2. CASE j # k
      BY <2>2 DEF SharedRef, TypeOK
    <2>3. QED
      BY <2>1, <2>2
  <1>3. DOMAIN R = Tokens
    BY DEF SharedRef
  <1>5. F = R
    BY <1>2, <1>3, Zenon
  <1>4. QED
    BY <1>1, <1>5

(* The first reference of wp_ecx_new is the abstract Create. *)
LEMMA RefineNewOk ==
  ASSUME IInv, NEW t \in Threads, NewOk(t)
  PROVE  Shared!Create(t, nextTok)
  <1>1. nextTok \in Tokens /\ tok[nextTok] = "unborn"
    BY MaxRefsAssumption DEF NewOk, IInv, TypeOK, BeforeNew, Tokens
  <1>2. SharedRef' = [SharedRef EXCEPT ![nextTok] = "held"]
    <2>1. TypeOK
      BY DEF IInv
    <2>2. tok' = [tok EXCEPT ![nextTok] = "held"]
      BY DEF NewOk, GiveRef
    <2>3. QED
      BY <1>1, <2>1, <2>2, SharedRefUpdate, Zenon
  <1>3. QED
    BY <1>1, <1>2 DEF NewOk, GiveRef, Shared!Create, SharedRef

(* A failed wp_ecx_new is the abstract CreateFail. *)
LEMMA RefineNewFail ==
  ASSUME NEW t \in Threads, NewFail(t)
  PROVE  Shared!CreateFail
  BY DEF NewFail, Shared!CreateFail, SharedRef

(* The increment of wp_ecx_up_ref is the abstract Share by its caller,   *)
(* who still holds the reference it called with.                          *)
LEMMA RefineUpRefInc ==
  ASSUME IInv, NEW t \in Threads, UpRefInc(t)
  PROVE  Shared!Share(t, upTo[t], upTok[t])
  <1>1. InUpRef(t)
    BY DEF UpRefInc, InUpRef
  <1>2. /\ upTok[t] \in Tokens /\ upTo[t] \in Threads
        /\ tok[upTok[t]] = "unborn"
        /\ HeldBy(t) # {}
    BY <1>1 DEF IInv, TypeOK, Fresh
  <1>3. PICK j \in HeldBy(t) : TRUE
    BY <1>2
  <1>4. j \in Tokens /\ SharedRef[j] = "held" /\ owner[j] = t
    BY DEF HeldBy, SharedRef
  <1>5. obj = "live"
    BY <1>3, HeldIsLive, LiveMeansLiveObject DEF IInv
  <1>6. SharedRef[upTok[t]] = "unborn"
    BY <1>2 DEF SharedRef
  <1>7. SharedRef' = [SharedRef EXCEPT ![upTok[t]] = "held"]
    <2>1. TypeOK
      BY DEF IInv
    <2>2. tok' = [tok EXCEPT ![upTok[t]] = "held"]
      BY DEF UpRefInc, GiveRef
    <2>3. QED
      BY <1>2, <2>1, <2>2, SharedRefUpdate, Zenon
  <1>8. QED
    BY <1>4, <1>5, <1>6, <1>7 DEF UpRefInc, GiveRef, Shared!Share

(* The call of wp_ecx_free changes nothing abstract: the reference it    *)
(* gives up is held until the decrement.                                  *)
LEMMA RefineFreeCall ==
  ASSUME IInv, NEW t \in Threads, NEW k \in Tokens, FreeCall(t, k)
  PROVE  UNCHANGED Shared!svars
  <1>1. tok[k] = "held"
    BY DEF FreeCall, HeldBy
  <1>2. SharedRef' = SharedRef
    BY <1>1 DEF FreeCall, SharedRef, IInv, TypeOK
  <1>3. QED
    BY <1>2 DEF FreeCall, Shared!svars

(* The decrement under the mutex is the abstract Release. *)
LEMMA RefineFreeDec ==
  ASSUME IInv, NEW t \in Threads, FreeDec(t)
  PROVE  Shared!Release(relTok[t])
  <1>1. InFree(t)
    BY DEF FreeDec, InFree
  <1>2. relTok[t] \in Tokens /\ tok[relTok[t]] = "releasing"
    BY <1>1 DEF IInv, TypeOK, Releasing
  <1>3. obj = "live"
    BY <1>2, LiveMeansLiveObject DEF IInv, Live
  <1>4. SharedRef' = [SharedRef EXCEPT ![relTok[t]] = "gone"]
    <2>1. TypeOK
      BY DEF IInv
    <2>2. tok' = [tok EXCEPT ![relTok[t]] = "gone"]
      BY DEF FreeDec
    <2>3. QED
      BY <1>2, <2>1, <2>2, SharedRefUpdate, Zenon
  <1>5. QED
    BY <1>2, <1>3, <1>4 DEF FreeDec, Shared!Release, SharedRef

(* The cnt == 0 test of wp_ecx_free destroys the object exactly as the   *)
(* abstract Destroy does; a non-zero cnt changes nothing.                 *)
LEMMA RefineFreeCheck ==
  ASSUME IInv, NEW t \in Threads, FreeCheck(t)
  PROVE  Shared!Destroy \/ UNCHANGED Shared!svars
  <1>1. CASE cnt[t] = 0
    <2>1. obj = "live" /\ Live = {}
      BY <1>1 DEF FreeCheck, IInv, LastDec
    <2>2. \A k \in Tokens : SharedRef[k] # "held"
      BY <2>1 DEF Live, SharedRef
    <2>3. QED
      BY <1>1, <2>1, <2>2 DEF FreeCheck, Shared!Destroy, SharedRef
  <1>2. CASE cnt[t] # 0
    BY <1>2, SharedStutter DEF FreeCheck
  <1>3. QED
    BY <1>1, <1>2

(* Every step of the code maps to a step or a stutter of the object. *)
LEMMA RefineNext ==
  ASSUME ~LockFails, IInv, [Next]_vars
  PROVE  [Shared!SNext]_Shared!svars
  <1>1. CASE \E t \in Threads : NewOk(t)
    <2>1. PICK t \in Threads : NewOk(t)
      BY <1>1
    <2>2. nextTok \in Tokens
      BY <2>1, MaxRefsAssumption DEF NewOk, IInv, TypeOK, Tokens
    <2>3. QED
      BY <2>1, <2>2, RefineNewOk DEF Shared!SNext
  <1>2. CASE \E t \in Threads : NewFail(t)
    BY <1>2, RefineNewFail DEF Shared!SNext
  <1>3. CASE \E t \in Threads : UpRefInc(t)
    <2>1. PICK t \in Threads : UpRefInc(t)
      BY <1>3
    <2>2. upTok[t] \in Tokens /\ upTo[t] \in Threads
      BY DEF IInv, TypeOK
    <2>3. QED
      BY <2>1, <2>2, RefineUpRefInc DEF Shared!SNext
  <1>4. CASE \E t \in Threads, k \in Tokens : FreeCall(t, k)
    BY <1>4, RefineFreeCall
  <1>5. CASE \E t \in Threads : FreeDec(t)
    <2>1. PICK t \in Threads : FreeDec(t)
      BY <1>5
    <2>2. relTok[t] \in Tokens
      BY DEF IInv, TypeOK
    <2>3. QED
      BY <2>1, <2>2, RefineFreeDec DEF Shared!SNext
  <1>6. CASE \E t \in Threads : FreeCheck(t)
    BY <1>6, RefineFreeCheck DEF Shared!SNext
  <1>7. CASE \E t \in Threads : UpRefLockFail(t) \/ FreeLockFail(t)
                                \/ FreeLoad(t) \/ FreeStore(t)
    BY <1>7, StepNoLockFail
  <1>8. CASE \E t, u \in Threads : UpRefCall(t, u)
    BY <1>8, SharedStutter DEF UpRefCall
  <1>9. CASE \E t \in Threads : UpRefLock(t) \/ FreeLock(t)
    BY <1>9, SharedStutter DEF UpRefLock, FreeLock
  <1>10. CASE Done \/ UNCHANGED vars
    BY <1>10, SharedStutter DEF Done, vars
  <1>11. QED
    BY <1>1, <1>2, <1>3, <1>4, <1>5, <1>6, <1>7, <1>8, <1>9, <1>10
       DEF Next, InCall

(* The initial state, before wp_ecx_new, is the abstract initial state. *)
LEMMA RefineInit ==
  Init => Shared!SInit
  <1> SUFFICES ASSUME Init PROVE Shared!SInit
    OBVIOUS
  <1>1. (CHOOSE u \in Threads : TRUE) \in Threads
    BY ThreadsAssumption
  <1>2. SharedRef = [k \in Tokens |-> "unborn"]
    BY DEF Init, SharedRef
  <1>3. QED
    BY <1>1, <1>2 DEF Init, Shared!SInit

(* When wc_LockMutex never fails, wp_ecx_new, wp_ecx_up_ref and          *)
(* wp_ecx_free implement the abstract shared object: no up_ref of a      *)
(* freed or unheld object, and one destruction, after the last release.  *)
THEOREM Refinement ==
  ASSUME ~LockFails
  PROVE  Spec => ImplementsShared
  <1>1. Init => Shared!SInit
    BY RefineInit
  <1>2. Init => IInv
    BY InitIInv
  <1>3. IInv /\ [Next]_vars => IInv'
    BY NextIInv
  <1>4. IInv /\ [Next]_vars => [Shared!SNext]_Shared!svars
    BY RefineNext
  <1>5. QED
    BY <1>1, <1>2, <1>3, <1>4, PTL DEF Spec, ImplementsShared, Shared!SSpec
=============================================================================
