---------------------------- MODULE EcxKeyProofs ----------------------------
(***************************************************************************)
(* Proofs about EcxKey, for every set of key objects, curves, secrets,    *)
(* input lengths and buffer sizes.                                         *)
(***************************************************************************)
EXTENDS EcxKey, SequenceTheorems, TLAPS

(* The key state is well typed, an absent key object holds nothing, and  *)
(* each flag is backed by the material export needs: hasPriv by a private *)
(* key, hasPub by a stored public key or a private key to derive it from. *)
(* A live generation context has a descriptor and owns its RNG.           *)
KInv ==
  /\ TypeOK
  /\ \A g \in GenIds : gstat[g] = "live" => gcurve[g] \in Curves
  /\ RngOwnedByLiveCtx
  /\ \A k \in KeyIds :
       /\ curve[k] = None =>
            /\ priv[k] = None /\ pub[k] = None
            /\ ~hasPub[k] /\ ~hasPriv[k]
       /\ hasPriv[k] => priv[k] # None
       /\ hasPub[k] => (pub[k] # None \/ priv[k] # None)

(* KInv holds initially. *)
LEMMA InitKInv == Init => KInv
<1> SUFFICES ASSUME Init PROVE KInv
  OBVIOUS
<1>1. exported \in Seq(Params)
  BY DEF Init
<1>2. got \in [cap : Nat, written : Nat, room : Nat, len : Nat, present : BOOLEAN]
  BY DEF Init
<1>3. TypeOK
  BY <1>1, <1>2 DEF Init, TypeOK, RngStates
<1>4. QED
  BY <1>3 DEF Init, KInv, RngOwnedByLiveCtx

(* wp_ecx_new gives an empty key object. *)
LEMMA StepKeyNew ==
  ASSUME KInv, NEW k \in KeyIds, NEW c \in Curves, KeyNew(k, c)
  PROVE  KInv'
BY NoneAssumption DEF KInv, TypeOK, RngOwnedByLiveCtx, KeyNew, Returns

(* Freeing the last reference empties the key object. *)
LEMMA StepKeyFree ==
  ASSUME KInv, NEW k \in KeyIds, KeyFree(k)
  PROVE  KInv'
BY DEF KInv, TypeOK, RngOwnedByLiveCtx, KeyFree, Returns

(* wp_ecx_dup copies a key object, flags and material together. *)
LEMMA StepDup ==
  ASSUME KInv, NEW k \in KeyIds, NEW src \in KeyIds, Dup(k, src)
  PROVE  KInv'
BY DEF KInv, TypeOK, RngOwnedByLiveCtx, Dup, Returns

(* set_params sets hasPub only together with the public key it stores. *)
LEMMA StepSetParams ==
  ASSUME KInv, NEW k \in KeyIds, NEW in \in PubIns \cup {None}, SetParams(k, in)
  PROVE  KInv'
BY NoneAssumption DEF KInv, TypeOK, RngOwnedByLiveCtx, SetParams, Returns, PubIns, Points

(* wp_ecx_import sets hasPriv with the private key, and hasPub with the  *)
(* private key (to derive from) or with the public key it stores.        *)
LEMMA StepImport ==
  ASSUME KInv, NEW k \in KeyIds, NEW sel \in 0..4, NEW pin \in Secrets \cup {None},
         NEW qin \in PubIns \cup {None}, NEW keepPub \in BOOLEAN,
         Import(k, sel, pin, qin, keepPub)
  PROVE  KInv'
BY NoneAssumption DEF KInv, TypeOK, RngOwnedByLiveCtx, Import, Returns, PubIns, Points

(* get_params changes no key state. *)
LEMMA StepGetParams ==
  ASSUME KInv, NEW k \in KeyIds, NEW part \in {"encpub", "pub", "priv"},
         NEW buf \in BOOLEAN, NEW cap \in BufSizes, NEW rs \in BufSizes \cup {Unmodified},
         GetParams(k, part, buf, cap, rs)
  PROVE  KInv'
<1> USE DEF KInv, RngOwnedByLiveCtx
<1>1. curve[k] \in Curves
  BY DEF TypeOK, GetParams
<1>2. KeyLen(k) \in Nat
  <2>1. \A cv \in {"X25519", "X448", "ED25519", "ED448"} : Desc[cv].len \in Nat
    BY DEF Desc
  <2>2. QED
    BY <1>1, <2>1, CurvesAssumption DEF KeyLen
<1>3. got' \in [cap : Nat, written : Nat, room : Nat, len : Nat, present : BOOLEAN]
  BY <1>2, SizesAssumption DEF GetParams, Unmodified
<1>4. QED
  BY <1>3 DEF TypeOK, GetParams, Returns

(* An export passes the callback the public key and a private key or     *)
(* uninitialised bytes, and leaves a private key, if any, in freed memory. *)
LEMMA StepExport ==
  ASSUME KInv, NEW k \in KeyIds, NEW sel \in 0..3, NEW alloc \in BOOLEAN,
         NEW cbOk \in BOOLEAN, Export(k, sel, alloc, cbOk)
  PROVE  KInv'
<1> USE DEF KInv, RngOwnedByLiveCtx
<1> DEFINE privVal == IF priv[k] # None THEN priv[k] ELSE Garbage
           privPart == IF Selected(sel, SelPriv)
                         THEN <<[name |-> "pub", val |-> privVal]>> ELSE <<>>
           pubPart == <<[name |-> "pub", val |-> ExportPub(k)]>>
<1>1. ExportPub(k) # None => ExportPub(k) \in Points
  BY DEF TypeOK, ExportPub, Points
<1>2. privPart \in Seq(Params)
  <2>1. privVal \in Points \cup Secrets \cup {Garbage}
    BY DEF TypeOK
  <2>2. [name |-> "pub", val |-> privVal] \in Params
    BY <2>1 DEF Params
  <2>3. QED
    BY <2>2
<1>3. ExportPub(k) # None => pubPart \o privPart \in Seq(Params)
  BY <1>1, <1>2 DEF Params
<1>4. exported' \in Seq(Params)
  <2>1. CASE alloc /\ ExportPub(k) # None
    <3>1. exported' = pubPart \o privPart
      BY <2>1 DEF Export
    <3>2. QED
      BY <2>1, <3>1, <1>3
  <2>2. CASE ~(alloc /\ ExportPub(k) # None)
    <3>1. exported' = << >>
      BY <2>2 DEF Export
    <3>2. QED
      BY <3>1
  <2>3. QED
    BY <2>1, <2>2
<1>5. residue' \subseteq Secrets
  BY DEF TypeOK, Export
<1>6. QED
  BY <1>4, <1>5 DEF TypeOK, Export, Returns

(* wp_ecx_gen either gives a key of the context's curve with both parts *)
(* and both flags, an empty key, or frees the key whose makeKey failed.   *)
LEMMA StepGen ==
  ASSUME KInv, NEW k \in KeyIds, NEW g \in GenIds,
         NEW mk \in Secrets \cup {None}, Gen(k, g, mk)
  PROVE  KInv'
<1> DEFINE keyPair == Selected(gsel[g], SelPriv) \/ Selected(gsel[g], SelPub)
<1>0. gcurve[g] \in Curves
  BY DEF KInv, Gen
<1>1. CASE keyPair /\ mk = None
  BY <1>1 DEF KInv, TypeOK, Gen, Returns, RngOwnedByLiveCtx
<1>2. CASE keyPair /\ mk # None
  <2>1. PubOf(mk) \in Points /\ mk \in Secrets
    BY <1>2 DEF Points
  <2>2. /\ curve' = [curve EXCEPT ![k] = gcurve[g]]
        /\ priv' = [priv EXCEPT ![k] = mk] /\ pub' = [pub EXCEPT ![k] = PubOf(mk)]
        /\ hasPub' = [hasPub EXCEPT ![k] = TRUE]
        /\ hasPriv' = [hasPriv EXCEPT ![k] = TRUE]
        /\ call' = "gen" /\ ret' = TRUE
        /\ UNCHANGED <<got, exported, residue, overread, gstat, gcurve, gsel, rng>>
    BY <1>2 DEF Gen, Returns
  <2>3. TypeOK'
    BY <1>0, <2>1, <2>2 DEF KInv, TypeOK
  <2>4. gcurve[g] # None
    BY <1>0, NoneAssumption
  <2>5. QED
    BY <2>1, <2>2, <2>3, <2>4, NoneAssumption DEF KInv, TypeOK, RngOwnedByLiveCtx
<1>3. CASE ~keyPair
  BY <1>0, <1>3, NoneAssumption DEF KInv, TypeOK, Gen, Returns, RngOwnedByLiveCtx
<1>4. QED
  BY <1>1, <1>2, <1>3

(* wp_ecx_gen_init gives a live context with its curve and its RNG, or   *)
(* frees everything it allocated.                                        *)
LEMMA StepGenInit ==
  ASSUME KInv, NEW g \in GenIds, NEW c \in Curves, NEW sel \in GenSelections \cup {0},
         NEW p \in GroupParams, NEW rngOk \in BOOLEAN, GenInit(g, c, sel, p, rngOk)
  PROVE  KInv'
<1> DEFINE alloc == AnyPossible(sel)
          ok == alloc /\ rngOk /\ NameAccepted(p, c)
          r == IF alloc THEN RngAfterInit(rngOk, NameAccepted(p, c)) ELSE rng[g]
<1>1. /\ rng' = [rng EXCEPT ![g] = r]
      /\ gstat' = [gstat EXCEPT ![g] = IF ok THEN "live" ELSE "none"]
      /\ gcurve' = [gcurve EXCEPT ![g] = IF ok THEN c ELSE None]
      /\ gsel' = [gsel EXCEPT ![g] = IF ok THEN sel ELSE 0]
      /\ UNCHANGED <<keyVars, got, exported, residue, overread>>
      /\ call' = "gen_init" /\ ret' \in BOOLEAN
  BY DEF GenInit, Returns
<1>2. gstat[g] = "none" /\ rng[g] = "none"
  BY DEF GenInit, KInv, TypeOK, RngOwnedByLiveCtx, RngStates
<1>3. r = IF ok THEN "live" ELSE "none"
  BY <1>2 DEF RngAfterInit, InitRng, FreeRng
<1>4. sel \in Nat
  BY DEF GenSelections, SelPriv, SelPub, SelDomain
<1>5. TypeOK'
  BY <1>1, <1>3, <1>4 DEF KInv, TypeOK, keyVars, RngStates
<1>6. QED
  BY <1>1, <1>3, <1>5 DEF KInv, TypeOK, keyVars, RngOwnedByLiveCtx

(* gen_set_params changes nothing but the call and its result. *)
LEMMA StepGenSetParams ==
  ASSUME KInv, NEW g \in GenIds, NEW p \in GroupParams, GenSetParams(g, p)
  PROVE  KInv'
<1>1. /\ UNCHANGED <<curve, priv, pub, hasPub, hasPriv, got, exported, residue,
                     overread, gstat, gcurve, gsel, rng>>
      /\ call' = "gen_set_params" /\ ret' \in BOOLEAN
  <2>1. UNCHANGED <<curve, priv, pub, hasPub, hasPriv, got, exported, residue,
                    overread, gstat, gcurve, gsel, rng>>
    BY DEF GenSetParams, keyVars, genVars
  <2>2. call' = "gen_set_params" /\ ret' \in BOOLEAN
    BY DEF GenSetParams, Returns, NameAccepted
  <2>3. QED BY <2>1, <2>2
<1>2. QED
  BY <1>1 DEF KInv, TypeOK, RngOwnedByLiveCtx

(* gen_cleanup frees the RNG with the context. *)
LEMMA StepGenCleanup ==
  ASSUME KInv, NEW g \in GenIds, GenCleanup(g)
  PROVE  KInv'
<1>1. rng[g] = "live"
  BY DEF GenCleanup, KInv, RngOwnedByLiveCtx
<1>2. rng' = [rng EXCEPT ![g] = "none"]
  BY <1>1 DEF GenCleanup, FreeRng
<1>3. QED
  BY <1>2 DEF KInv, TypeOK, GenCleanup, Returns, keyVars, RngOwnedByLiveCtx, RngStates

(* Every step of the key model preserves KInv. *)
LEMMA NextKInv == KInv /\ [Next]_vars => KInv'
<1> SUFFICES ASSUME KInv, [Next]_vars PROVE KInv'
  OBVIOUS
<1>1. CASE UNCHANGED vars
  BY <1>1 DEF vars, KInv, TypeOK, RngOwnedByLiveCtx
<1>2. CASE \E k \in KeyIds :
             \/ \E c \in Curves : KeyNew(k, c)
             \/ KeyFree(k)
             \/ \E src \in KeyIds : Dup(k, src)
             \/ \E in \in PubIns \cup {None} : SetParams(k, in)
             \/ \E sel \in 0..4, pin \in Secrets \cup {None}, qin \in PubIns \cup {None},
                   keepPub \in BOOLEAN : Import(k, sel, pin, qin, keepPub)
             \/ \E part \in {"encpub", "pub", "priv"}, buf \in BOOLEAN, cap \in BufSizes,
                   rs \in BufSizes \cup {Unmodified} : GetParams(k, part, buf, cap, rs)
             \/ \E sel \in 0..3, alloc, cbOk \in BOOLEAN : Export(k, sel, alloc, cbOk)
             \/ \E g \in GenIds, mk \in Secrets \cup {None} : Gen(k, g, mk)
  <2> PICK k \in KeyIds :
        \/ \E c \in Curves : KeyNew(k, c)
        \/ KeyFree(k)
        \/ \E src \in KeyIds : Dup(k, src)
        \/ \E in \in PubIns \cup {None} : SetParams(k, in)
        \/ \E sel \in 0..4, pin \in Secrets \cup {None}, qin \in PubIns \cup {None},
              keepPub \in BOOLEAN : Import(k, sel, pin, qin, keepPub)
        \/ \E part \in {"encpub", "pub", "priv"}, buf \in BOOLEAN, cap \in BufSizes,
              rs \in BufSizes \cup {Unmodified} : GetParams(k, part, buf, cap, rs)
        \/ \E sel \in 0..3, alloc, cbOk \in BOOLEAN : Export(k, sel, alloc, cbOk)
        \/ \E g \in GenIds, mk \in Secrets \cup {None} : Gen(k, g, mk)
    BY <1>2 DEF Next
  <2> QED
    BY StepKeyNew, StepKeyFree, StepDup, StepSetParams, StepImport,
       StepGetParams, StepExport, StepGen
<1>3. CASE \E g \in GenIds :
             \/ \E c \in Curves, sel \in GenSelections \cup {0}, p \in GroupParams,
                   rngOk \in BOOLEAN : GenInit(g, c, sel, p, rngOk)
             \/ \E p \in GroupParams : GenSetParams(g, p)
             \/ GenCleanup(g)
  BY <1>3, StepGenInit, StepGenSetParams, StepGenCleanup
<1>4. QED
  BY <1>1, <1>2, <1>3 DEF Next

(* The bits of the key-part selections: PRIVATE_KEY is 1, PUBLIC_KEY 2, *)
(* KEYPAIR 3, and each is within WP_ECX_POSSIBLE_SELECTIONS.             *)
LEMMA SelectionBits ==
  /\ Selected(1, SelPriv) /\ ~Selected(1, SelPub)
  /\ ~Selected(2, SelPriv) /\ Selected(2, SelPub)
  /\ Selected(3, SelPriv) /\ Selected(3, SelPub)
  /\ \A sel \in {1, 2, 3} : AnyPossible(sel)
<1>1. Selected(1, SelPriv) /\ ~Selected(1, SelPub)
  BY DEF Selected, SelPriv, SelPub
<1>2. ~Selected(2, SelPriv) /\ Selected(2, SelPub)
  BY DEF Selected, SelPriv, SelPub
<1>3. Selected(3, SelPriv) /\ Selected(3, SelPub)
  BY DEF Selected, SelPriv, SelPub
<1>4. \A sel \in {1, 2, 3} : Selected(sel, SelPriv) \/ Selected(sel, SelPub)
  BY <1>1, <1>2, <1>3
<1>5. \A sel \in {1, 2, 3} : AnyPossible(sel)
  BY <1>4 DEF AnyPossible, Possible
<1>6. QED
  BY <1>1, <1>2, <1>3, <1>5

(* KInv holds in every reachable state. *)
THEOREM KeyInvariant == Spec => []KInv
BY InitKInv, NextKInv, PTL DEF Spec

(* wc_FreeRng is never given an RNG wc_InitRng did not set up, and an     *)
(* initialised RNG exists exactly while its context is live: gen_init     *)
(* frees it only on the set_params failure path, gen_cleanup with the      *)
(* context.  The run ecx_key checks this on one context, this theorem for  *)
(* any number.  StepGenInit and StepGenCleanup carry the argument.         *)
THEOREM RngOwned == Spec => []RngOwnedByLiveCtx
<1>1. KInv => RngOwnedByLiveCtx
  BY DEF KInv
<1>2. QED
  BY <1>1, KeyInvariant, PTL

(* wp_ecx_has reports a part only when export can produce it: the run    *)
(* ecx_key checks this on two keys, this theorem for any number of keys,  *)
(* curves and secrets.                                                    *)
THEOREM HasExportable == Spec => []HasImpliesExportable
<1>1. KInv => HasImpliesExportable
  <2> SUFFICES ASSUME KInv, NEW k \in KeyIds, NEW sel \in {SelPriv, SelPub, SelPriv + SelPub},
                      curve[k] # None, Has(k, sel)
               PROVE  /\ Selected(sel, SelPub) => ExportPub(k) # None
                      /\ Selected(sel, SelPriv) => priv[k] # None
    BY DEF HasImpliesExportable
  <2>1. sel \in {1, 2, 3}
    BY DEF SelPriv, SelPub
  <2>2. /\ Selected(sel, SelPub) => hasPub[k]
        /\ Selected(sel, SelPriv) => hasPriv[k]
    BY <2>1, SelectionBits DEF Has
  <2>3. hasPub[k] => ExportPub(k) # None
    <3>1. priv[k] # None => PubOf(priv[k]) \in Points
      BY DEF KInv, TypeOK, Points
    <3>2. QED
      BY <3>1, NoneAssumption DEF KInv, ExportPub
  <2>4. hasPriv[k] => priv[k] # None
    BY DEF KInv
  <2>5. QED
    BY <2>2, <2>3, <2>4
<1>2. QED
  BY <1>1, KeyInvariant, PTL

(* A key object that flags both parts matches itself on both parts, and *)
(* an X25519 or X448 one passes x_validate of both parts (spec 9), for    *)
(* any keys, curves and secrets.                                          *)
THEOREM FullKeyChecks == Spec => []FullKeySelfConsistent
<1>1. KInv => FullKeySelfConsistent
  <2> SUFFICES ASSUME KInv, NEW k \in KeyIds, curve[k] # None, hasPub[k], hasPriv[k]
               PROVE  /\ Match(k, k, SelPriv + SelPub)
                      /\ Desc[curve[k]].dh => XValidate(k, SelPriv + SelPub)
    BY DEF FullKeySelfConsistent
  <2>1. priv[k] \in Secrets
    BY DEF KInv, TypeOK
  <2>2. ExportPub(k) \in Points
    BY <2>1 DEF KInv, TypeOK, ExportPub, Points
  <2>3. ExportPub(k) # None
    BY <2>2, NoneAssumption
  <2>4. MatchPrivKey(k, k) /\ MatchPubKey(k, k)
    BY <2>1, <2>3, NoneAssumption DEF MatchPrivKey, MatchPubKey
  <2>5. Selected(SelPriv + SelPub, SelPriv) /\ Selected(SelPriv + SelPub, SelPub)
    BY SelectionBits DEF SelPriv, SelPub
  <2>6. Match(k, k, SelPriv + SelPub)
    BY <2>4 DEF Match
  <2>7. XValidate(k, SelPriv + SelPub)
    BY <2>2, <2>3 DEF XValidate, CheckPub
  <2>8. QED
    BY <2>6, <2>7
<1>2. QED
  BY <1>1, KeyInvariant, PTL

-----------------------------------------------------------------------------
(***************************************************************************)
(* Failed calls (spec section 7).  A context slot that is not live holds  *)
(* no descriptor and no selection, so that the gen_init which fails and   *)
(* resets them leaves the slot as it found it.                           *)
(***************************************************************************)
IdleCtxEmpty ==
  \A g \in GenIds : gstat[g] = "none" => gcurve[g] = None /\ gsel[g] = 0

(* The step FailedCallLeavesNoTrace constrains. *)
FailStep == (~ret' /\ call' # "import") => UNCHANGED <<keyVars, genVars>>

(* gen_init and gen_cleanup reset the slot they leave idle; no other     *)
(* step touches a context.                                                *)
LEMMA NextIdleCtxEmpty == KInv /\ IdleCtxEmpty /\ [Next]_vars => IdleCtxEmpty'
<1> SUFFICES ASSUME KInv, IdleCtxEmpty, [Next]_vars PROVE IdleCtxEmpty'
  OBVIOUS
<1>1. CASE \E g \in GenIds, c \in Curves, sel \in GenSelections \cup {0},
             p \in GroupParams, rngOk \in BOOLEAN : GenInit(g, c, sel, p, rngOk)
  BY <1>1 DEF GenInit, IdleCtxEmpty, KInv, TypeOK
<1>2. CASE \E g \in GenIds : GenCleanup(g)
  BY <1>2 DEF GenCleanup, IdleCtxEmpty, KInv, TypeOK
<1>3. CASE \/ UNCHANGED vars
           \/ \E g \in GenIds, p \in GroupParams : GenSetParams(g, p)
           \/ \E k \in KeyIds :
                \/ \E c \in Curves : KeyNew(k, c)
                \/ KeyFree(k)
                \/ \E src \in KeyIds : Dup(k, src)
                \/ \E in \in PubIns \cup {None} : SetParams(k, in)
                \/ \E sel \in 0..4, pin \in Secrets \cup {None}, qin \in PubIns \cup {None},
                      keepPub \in BOOLEAN : Import(k, sel, pin, qin, keepPub)
                \/ \E part \in {"encpub", "pub", "priv"}, buf \in BOOLEAN, cap \in BufSizes,
                      rs \in BufSizes \cup {Unmodified} : GetParams(k, part, buf, cap, rs)
                \/ \E sel \in 0..3, alloc, cbOk \in BOOLEAN : Export(k, sel, alloc, cbOk)
                \/ \E g \in GenIds, mk \in Secrets \cup {None} : Gen(k, g, mk)
  <2>1. UNCHANGED <<gstat, gcurve, gsel>>
    <3>1. CASE UNCHANGED vars
      BY <3>1 DEF vars
    <3>2. CASE \E g \in GenIds, p \in GroupParams : GenSetParams(g, p)
      BY <3>2 DEF GenSetParams, genVars
    <3>3. CASE \E k \in KeyIds :
                \/ \E c \in Curves : KeyNew(k, c)
                \/ KeyFree(k)
                \/ \E src \in KeyIds : Dup(k, src)
                \/ \E in \in PubIns \cup {None} : SetParams(k, in)
      BY <3>3 DEF KeyNew, KeyFree, Dup, SetParams
    <3>4. CASE \E k \in KeyIds, sel \in 0..4, pin \in Secrets \cup {None},
                 qin \in PubIns \cup {None}, keepPub \in BOOLEAN :
                   Import(k, sel, pin, qin, keepPub)
      <4>1. PICK k \in KeyIds, sel \in 0..4, pin \in Secrets \cup {None},
                 qin \in PubIns \cup {None}, keepPub \in BOOLEAN :
                   Import(k, sel, pin, qin, keepPub)
        BY <3>4
      <4>2. QED
        BY <4>1 DEF Import
    <3>5. CASE \E k \in KeyIds, part \in {"encpub", "pub", "priv"}, buf \in BOOLEAN,
                 cap \in BufSizes, rs \in BufSizes \cup {Unmodified} :
                   GetParams(k, part, buf, cap, rs)
      <4>1. PICK k \in KeyIds, part \in {"encpub", "pub", "priv"}, buf \in BOOLEAN,
                 cap \in BufSizes, rs \in BufSizes \cup {Unmodified} :
                   GetParams(k, part, buf, cap, rs)
        BY <3>5
      <4>2. QED
        BY <4>1 DEF GetParams
    <3>6. CASE \E k \in KeyIds, sel \in 0..3, alloc, cbOk \in BOOLEAN :
                 Export(k, sel, alloc, cbOk)
      <4>1. PICK k \in KeyIds, sel \in 0..3, alloc, cbOk \in BOOLEAN :
                 Export(k, sel, alloc, cbOk)
        BY <3>6
      <4>2. QED
        BY <4>1 DEF Export
    <3>7. CASE \E k \in KeyIds, g \in GenIds, mk \in Secrets \cup {None} : Gen(k, g, mk)
      <4>1. PICK k \in KeyIds, g \in GenIds, mk \in Secrets \cup {None} : Gen(k, g, mk)
        BY <3>7
      <4>2. QED
        BY <4>1 DEF Gen
    <3>8. QED
      BY <1>3, <3>1, <3>2, <3>3, <3>4, <3>5, <3>6, <3>7
  <2>2. QED
    BY <2>1 DEF IdleCtxEmpty
<1>4. QED
  BY <1>1, <1>2, <1>3 DEF Next

(* A failing gen_init leaves the idle slot g as it was: the RNG it      *)
(* initialised is freed and descriptor and selection are reset.           *)
LEMMA FailedGenInit ==
  ASSUME KInv, IdleCtxEmpty, NEW g \in GenIds, NEW c \in Curves,
         NEW sel \in GenSelections \cup {0}, NEW p \in GroupParams,
         NEW rngOk \in BOOLEAN, GenInit(g, c, sel, p, rngOk), ~ret'
  PROVE  UNCHANGED <<keyVars, genVars>>
<1> DEFINE alloc == AnyPossible(sel)
          ok == alloc /\ rngOk /\ NameAccepted(p, c)
          r == IF alloc THEN RngAfterInit(rngOk, NameAccepted(p, c)) ELSE rng[g]
<1>1. ~ok
  BY DEF GenInit, Returns
<1>3. gstat[g] = "none" /\ gcurve[g] = None /\ gsel[g] = 0
  BY DEF GenInit, IdleCtxEmpty
<1>4. rng[g] = "none"
  BY <1>3 DEF KInv, TypeOK, RngOwnedByLiveCtx, RngStates
<1>2. /\ rng' = [rng EXCEPT ![g] = "none"]
      /\ gstat' = [gstat EXCEPT ![g] = "none"]
      /\ gcurve' = [gcurve EXCEPT ![g] = None]
      /\ gsel' = [gsel EXCEPT ![g] = 0]
      /\ UNCHANGED keyVars
  <2>1. r = "none"
    BY <1>1, <1>4 DEF RngAfterInit, InitRng, FreeRng
  <2>2. QED
    BY <1>1, <2>1 DEF GenInit
<1>5. UNCHANGED genVars
  BY <1>2, <1>3, <1>4 DEF KInv, TypeOK, genVars
<1>6. QED
  BY <1>2, <1>5

(* Every step of the model is a FailStep or a stutter: set_params stores *)
(* nothing it rejects, gen frees the key makeKey failed on, gen_init      *)
(* undoes its slot, and get_params, export and gen_set_params change no    *)
(* key or context at all.                                                  *)
LEMMA NextFailStep == KInv /\ IdleCtxEmpty /\ [Next]_vars => [FailStep]_vars
<1> SUFFICES ASSUME KInv, IdleCtxEmpty, [Next]_vars PROVE [FailStep]_vars
  OBVIOUS
<1>1. CASE UNCHANGED vars
  BY <1>1
<1>2. CASE \E k \in KeyIds, c \in Curves : KeyNew(k, c)
  BY <1>2 DEF KeyNew, Returns, FailStep
<1>3. CASE \E k \in KeyIds : KeyFree(k)
  BY <1>3 DEF KeyFree, Returns, FailStep
<1>4. CASE \E k, src \in KeyIds : Dup(k, src)
  BY <1>4 DEF Dup, Returns, FailStep
<1>5. CASE \E k \in KeyIds, in \in PubIns \cup {None} : SetParams(k, in)
  BY <1>5 DEF SetParams, Returns, FailStep, keyVars, genVars
<1>6. CASE \E k \in KeyIds, sel \in 0..4, pin \in Secrets \cup {None},
             qin \in PubIns \cup {None}, keepPub \in BOOLEAN :
               Import(k, sel, pin, qin, keepPub)
  BY <1>6 DEF Import, Returns, FailStep
<1>7. CASE \E k \in KeyIds, part \in {"encpub", "pub", "priv"}, buf \in BOOLEAN,
             cap \in BufSizes, rs \in BufSizes \cup {Unmodified} :
               GetParams(k, part, buf, cap, rs)
  BY <1>7 DEF GetParams, FailStep, keyVars, genVars
<1>8. CASE \E k \in KeyIds, sel \in 0..3, alloc, cbOk \in BOOLEAN :
             Export(k, sel, alloc, cbOk)
  BY <1>8 DEF Export, FailStep, keyVars, genVars
<1>9. CASE \E k \in KeyIds, g \in GenIds, mk \in Secrets \cup {None} : Gen(k, g, mk)
  BY <1>9 DEF Gen, Returns, FailStep, keyVars, genVars
<1>10. CASE \E g \in GenIds, c \in Curves, sel \in GenSelections \cup {0},
              p \in GroupParams, rngOk \in BOOLEAN : GenInit(g, c, sel, p, rngOk)
  BY <1>10, FailedGenInit DEF FailStep
<1>11. CASE \E g \in GenIds, p \in GroupParams : GenSetParams(g, p)
  BY <1>11 DEF GenSetParams, FailStep
<1>12. CASE \E g \in GenIds : GenCleanup(g)
  BY <1>12 DEF GenCleanup, Returns, FailStep
<1>13. QED
  BY <1>1, <1>2, <1>3, <1>4, <1>5, <1>6, <1>7, <1>8, <1>9, <1>10, <1>11, <1>12
     DEF Next

(* Spec section 7 holds for every call but import, for any keys, curves *)
(* and contexts: a set_params, get_params, export, gen, gen_init or       *)
(* gen_set_params that fails leaves every key object and every           *)
(* generation context as it was.                                          *)
THEOREM FailedCallsLeaveNoTrace == Spec => FailedCallLeavesNoTrace
<1>1. Init => KInv /\ IdleCtxEmpty
  BY InitKInv DEF Init, IdleCtxEmpty
<1>2. KInv /\ IdleCtxEmpty /\ [Next]_vars => (KInv /\ IdleCtxEmpty)'
  BY NextKInv, NextIdleCtxEmpty
<1>3. KInv /\ IdleCtxEmpty /\ [Next]_vars => [FailStep]_vars
  BY NextFailStep
<1>4. QED
  BY <1>1, <1>2, <1>3, PTL DEF Spec, FailedCallLeavesNoTrace, FailStep

-----------------------------------------------------------------------------
(***************************************************************************)
(* The group-name test of gen_set_params, for every set of curves.        *)
(***************************************************************************)
(* The three prefixes of a two-piece name. *)
LEMMA PairPrefixes ==
  ASSUME NEW a, NEW b
  PROVE  /\ SubSeq(<<a, b>>, 1, 0) = << >>
         /\ SubSeq(<<a, b>>, 1, 1) = <<a>>
         /\ SubSeq(<<a, b>>, 1, 2) = <<a, b>>
<1> DEFINE t == <<a, b>>
<1>0. t \in Seq({a, b}) /\ Len(t) = 2
  OBVIOUS
<1>1. SubSeq(t, 1, 0) = << >>
  BY SubSeqEmpty
<1>2. SubSeq(t, 1, 1) = <<a>>
  <2>1. /\ SubSeq(t, 1, 1) \in Seq({a, b})
        /\ Len(SubSeq(t, 1, 1)) = 1
        /\ SubSeq(t, 1, 1)[1] = a
    BY SubSeqProperties
  <2>2. <<a>> \in Seq({a, b})
    OBVIOUS
  <2>3. /\ Len(SubSeq(t, 1, 1)) = Len(<<a>>)
        /\ \A i \in 1 .. Len(SubSeq(t, 1, 1)) : SubSeq(t, 1, 1)[i] = <<a>>[i]
    BY <2>1
  <2>4. QED
    BY <2>1, <2>2, <2>3, SeqEqual, Zenon
<1>3. SubSeq(t, 1, 2) = t
  BY <1>0, SubSeqFull
<1>4. QED
  BY <1>1, <1>2, <1>3

(* Which of those prefixes the test NamePrefix accepts against another   *)
(* two-piece name: the empty one always, ...                             *)
LEMMA EmptyNamePrefix ==
  ASSUME NEW x, NEW y
  PROVE  NamePrefix(<< >>, <<x, y>>)
BY PairPrefixes DEF NamePrefix

(* ... the one-piece name when it is the first piece, ... *)
LEMMA OneNamePrefix ==
  ASSUME NEW a, NEW x, NEW y
  PROVE  NamePrefix(<<a>>, <<x, y>>) <=> a = x
BY PairPrefixes DEF NamePrefix

(* ... and the full name only when it is the same name. *)
LEMMA TwoNamePrefix ==
  ASSUME NEW a, NEW b, NEW x, NEW y
  PROVE  NamePrefix(<<a, b>>, <<x, y>>) <=> <<a, b>> = <<x, y>>
BY PairPrefixes DEF NamePrefix

(* The group-name test of wp_ecx_gen_set_params (XSTRNCMP(name,         *)
(* ctx->name, XSTRLEN(name))) on a context of curve c accepts a name made  *)
(* from the name of curve d: the empty name always, the family prefix     *)
(* ("X" or "ED") whenever c and d share it, and a full name only when it  *)
(* is c's own.  Spec 4.5 asks for an exact match; the full names of the   *)
(* four curves are told apart, the shorter names are not.                 *)
THEOREM GroupNameTest ==
  \A c, d \in Curves, i \in 0..2 :
    NameAccepted([got |-> TRUE, name |-> SubSeq(CurveName[d], 1, i)], c) <=>
      \/ i = 0
      \/ i = 1 /\ CurveName[d][1] = CurveName[c][1]
      \/ i = 2 /\ d = c
<1> SUFFICES ASSUME NEW c \in Curves, NEW d \in Curves, NEW i \in 0..2
             PROVE  NameAccepted([got |-> TRUE, name |-> SubSeq(CurveName[d], 1, i)], c) <=>
                      \/ i = 0
                      \/ i = 1 /\ CurveName[d][1] = CurveName[c][1]
                      \/ i = 2 /\ d = c
  OBVIOUS
<1>1. /\ CurveName[c] = <<CurveName[c][1], CurveName[c][2]>>
      /\ CurveName[d] = <<CurveName[d][1], CurveName[d][2]>>
  BY CurvesAssumption DEF CurveName
<1>2. CurveName[d] = CurveName[c] <=> d = c
  BY CurvesAssumption DEF CurveName
<1>3. NameAccepted([got |-> TRUE, name |-> SubSeq(CurveName[d], 1, i)], c) <=>
        NamePrefix(SubSeq(CurveName[d], 1, i), CurveName[c])
  <2>0. SubSeq(CurveName[d], 1, i) \in GroupNames
    <3>1. \E cc \in Curves, ii \in 0..2 :
            SubSeq(CurveName[d], 1, i) = SubSeq(CurveName[cc], 1, ii)
      OBVIOUS
    <3>2. QED
      BY <3>1 DEF GroupNames
  <2>1. SubSeq(CurveName[d], 1, i) # None
    BY <2>0, GroupNoneAssumption
  <2>2. QED
    BY <2>1 DEF NameAccepted
<1> DEFINE da == CurveName[d][1]  db == CurveName[d][2]
           cx == CurveName[c][1]  cy == CurveName[c][2]
<1>4. CASE i = 0
  <2>1. SubSeq(CurveName[d], 1, i) = << >>
    BY <1>1, <1>4, PairPrefixes
  <2>2. NamePrefix(<< >>, <<cx, cy>>)
    BY EmptyNamePrefix
  <2>3. QED
    BY <1>1, <1>3, <1>4, <2>1, <2>2
<1>5. CASE i = 1
  <2>1. SubSeq(CurveName[d], 1, i) = <<da>>
    BY <1>1, <1>5, PairPrefixes
  <2>2. NamePrefix(<<da>>, <<cx, cy>>) <=> da = cx
    BY OneNamePrefix
  <2>3. NamePrefix(SubSeq(CurveName[d], 1, i), CurveName[c]) <=> da = cx
    BY <1>1, <2>1, <2>2
  <2>4. QED
    BY <1>3, <1>5, <2>3
<1>6. CASE i = 2
  <2>1. SubSeq(CurveName[d], 1, i) = <<da, db>>
    BY <1>1, <1>6, PairPrefixes
  <2>2. NamePrefix(<<da, db>>, <<cx, cy>>) <=> <<da, db>> = <<cx, cy>>
    BY TwoNamePrefix
  <2>3. NamePrefix(SubSeq(CurveName[d], 1, i), CurveName[c]) <=> d = c
    BY <1>1, <1>2, <2>1, <2>2
  <2>4. QED
    BY <1>3, <1>6, <2>3
<1>7. QED
  BY <1>4, <1>5, <1>6
(* The four schemas of wp_ecx_key_params, read from their index up to   *)
(* OSSL_PARAM_END.                                                        *)
LEMMA Schemas ==
  /\ Schema(0) = {}
  /\ Schema(1) = {"priv"}
  /\ Schema(3) = {"pub"}
  /\ Schema(5) = {"priv", "pub"}
<1>1. Schema(0) = {}
  <2>1. {j \in 0..7 : \A m \in 0..j : KeyParams[m + 1] # "end"} = {}
    BY DEF KeyParams
  <2>2. QED
    BY <2>1 DEF Schema
<1>2. Schema(1) = {"priv"}
  <2>1. {j \in 1..7 : \A m \in 1..j : KeyParams[m + 1] # "end"} = {1}
    BY DEF KeyParams
  <2>2. QED
    BY <2>1 DEF Schema, KeyParams
<1>3. Schema(3) = {"pub"}
  <2>1. {j \in 3..7 : \A m \in 3..j : KeyParams[m + 1] # "end"} = {3}
    BY DEF KeyParams
  <2>2. QED
    BY <2>1 DEF Schema, KeyParams
<1>4. Schema(5) = {"priv", "pub"}
  <2>1. {j \in 5..7 : \A m \in 5..j : KeyParams[m + 1] # "end"} = {5, 6}
    BY DEF KeyParams
  <2>2. QED
    BY <2>1 DEF Schema, KeyParams
<1>5. QED
  BY <1>1, <1>2, <1>3, <1>4

(* wp_ecx_key_types returns, for every selection, the schema that names  *)
(* exactly the selected key parts (spec 4.3: none, private, public or     *)
(* both), whatever other bits the selection has.                          *)
THEOREM KeyTypesCorrect == KeyTypesMatchSelection
<1> SUFFICES ASSUME NEW sel \in 0..7
             PROVE  Schema(KeyTypesIdx(sel)) =
                      {p \in {"priv", "pub"} :
                         Selected(sel, IF p = "priv" THEN SelPriv ELSE SelPub)}
  BY DEF KeyTypesMatchSelection
<1>1. CASE ~Selected(sel, SelPriv) /\ ~Selected(sel, SelPub)
  <2>1. KeyTypesIdx(sel) = 0
    BY <1>1 DEF KeyTypesIdx
  <2>2. QED
    BY <1>1, <2>1, Schemas
<1>2. CASE Selected(sel, SelPriv) /\ ~Selected(sel, SelPub)
  <2>1. KeyTypesIdx(sel) = 1
    BY <1>2 DEF KeyTypesIdx
  <2>2. QED
    BY <1>2, <2>1, Schemas
<1>3. CASE ~Selected(sel, SelPriv) /\ Selected(sel, SelPub)
  <2>1. KeyTypesIdx(sel) = 3
    BY <1>3 DEF KeyTypesIdx
  <2>2. QED
    BY <1>3, <2>1, Schemas
<1>4. CASE Selected(sel, SelPriv) /\ Selected(sel, SelPub)
  <2>1. KeyTypesIdx(sel) = 5
    BY <1>4 DEF KeyTypesIdx
  <2>2. QED
    BY <1>4, <2>1, Schemas
<1>5. QED
  BY <1>1, <1>2, <1>3, <1>4

=============================================================================
