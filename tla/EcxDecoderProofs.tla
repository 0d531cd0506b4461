-------------------------- MODULE EcxDecoderProofs --------------------------
(***************************************************************************)
(* Proofs about EcxDecoder: the flags wp_ecx_dec_decode sets are backed   *)
(* by key material, and a key the application took in the data callback  *)
(* is alive while it holds it, for every set of curves and secrets and    *)
(* every number of decode calls.                                          *)
(***************************************************************************)
EXTENDS EcxDecoder, TLAPS

(* Objects of calls not made yet are untouched. *)
FreshObjs ==
  \A o \in Objs : o > n =>
    /\ status[o] = "none" /\ outcome[o] = "pending"
    /\ frees[o] = 0 /\ holders[o] = {}

(* While a call is in its data callback or about to return, it is the   *)
(* call of object n and has no outcome yet.                               *)
CurrentCall ==
  stage # "idle" => n \in Objs /\ outcome[n] = "pending"

(* Flags are backed by material for every object, live or not. *)
FlagsBacked ==
  \A o \in Objs :
    /\ hasPriv[o] => priv[o] # None
    /\ hasPub[o] => (pub[o] # None \/ priv[o] # None)

(* In the data callback, the current object is alive and the decoder is  *)
(* its only holder; after a failed callback the application does not hold *)
(* it, so the free on wp_ecx_dec_decode's failure path frees no key the   *)
(* application kept.                                                       *)
CallbackHolds ==
  /\ stage = "callback" => holders[n] = {"dec"} /\ status[n] = "live"
  /\ (stage = "returned" /\ ~cbRet) => "app" \notin holders[n]

DInv == TypeOK /\ FreshObjs /\ CurrentCall /\ FlagsBacked /\ CallbackHolds
        /\ AppHoldsLiveKey
(***************************************************************************)
(* Facts about the constants.                                             *)
(***************************************************************************)

(* No key, public key or misread key is the null value. *)
LEMMA MaterialNotNone ==
  ASSUME NEW s \in Secrets
  PROVE  s # None /\ PubOf(s) # None /\ Misread(s) # None
  BY DecNoneAssumption

(* What a decoder recognises is a container, never Junk. *)
LEMMA RecognisedIsContainer ==
  ASSUME NEW c \in DecCtxs, NEW in \in Inputs, Recognised(c, in)
  PROVE  in \in Containers
  <1>1. c.curve \in {"X25519", "X448", "ED25519", "ED448"}
    BY DecCurvesAssumption DEF DecCtxs
  <1>2. in # Junk
    BY <1>1 DEF Recognised, Junk
  <1>3. QED BY <1>2 DEF Inputs

(***************************************************************************)
(* The invariant holds initially and every step preserves it.            *)
(***************************************************************************)

LEMMA InitDInv == Init => DInv
  <1> SUFFICES ASSUME Init PROVE DInv
    OBVIOUS
  <1>1. Junk \in Inputs
    BY DEF Inputs
  <1>2. TypeOK
    <2>1. n \in 0..MaxDecodes /\ stage \in {"idle", "callback", "returned"}
          /\ cbRet \in BOOLEAN
      <3>1. MaxDecodes \in Nat  BY MaxDecodesAssumption
      <3>2. n = 0 /\ stage = "idle" /\ cbRet = FALSE  BY DEF Init
      <3>3. n \in 0..MaxDecodes  BY <3>1, <3>2
      <3>4. cbRet \in BOOLEAN  BY <3>2, Zenon
      <3>5. QED BY <3>2, <3>3, <3>4
    <2>2. /\ status \in [Objs -> {"none", "live", "freed"}]
          /\ frees \in [Objs -> Nat]
          /\ holders \in [Objs -> SUBSET {"dec", "app"}]
          /\ hasPub \in [Objs -> BOOLEAN] /\ hasPriv \in [Objs -> BOOLEAN]
          /\ outcome \in [Objs -> {"pending", "error", "nomatch", "ok"}]
          /\ retv \in [Objs -> BOOLEAN]
      BY DEF Init
    <2>3. /\ priv \in [Objs -> Secrets \cup {Misread(s) : s \in Secrets} \cup {None}]
          /\ pub \in [Objs -> {PubOf(s) : s \in Secrets} \cup {None}]
      BY DEF Init
    <2>4. src \in [Objs -> Inputs]
      BY <1>1 DEF Init
    <2>5. QED BY <2>1, <2>2, <2>3, <2>4 DEF TypeOK
  <1>3. FreshObjs /\ CurrentCall /\ FlagsBacked /\ CallbackHolds /\ AppHoldsLiveKey
    BY DEF Init, FreshObjs, CurrentCall, FlagsBacked, CallbackHolds, AppHoldsLiveKey
  <1>4. QED BY <1>2, <1>3 DEF DInv

LEMMA DecDecodeDInv ==
  ASSUME DInv, NEW c \in DecCtxs, NEW in \in Inputs,
         NEW newOk \in BOOLEAN, NEW readOk \in BOOLEAN,
         DecDecode(c, in, newOk, readOk)
  PROVE  DInv'
  <1> DEFINE o == n + 1
             decoded == ~readOk \/ Recognised(c, in)
  <1>0. stage = "idle" /\ n < MaxDecodes /\ n' = o
    BY DEF DecDecode
  <1>1. o \in Objs /\ n' = o /\ stage = "idle"
    BY <1>0, MaxDecodesAssumption DEF DInv, TypeOK, Objs
  <1>2. status[o] = "none" /\ outcome[o] = "pending" /\ frees[o] = 0
        /\ holders[o] = {}
    BY <1>1 DEF DInv, TypeOK, FreshObjs
  <1>3. src' = [src EXCEPT ![o] = in]
    BY DEF DecDecode
  <1>4. CASE ~newOk
    <2>1. /\ outcome' = [outcome EXCEPT ![o] = "error"]
          /\ retv' = [retv EXCEPT ![o] = FALSE]
          /\ UNCHANGED <<stage, cbRet, status, frees, holders, priv, pub,
                         hasPub, hasPriv>>
      BY <1>4 DEF DecDecode
    <2>2. TypeOK'
      BY <1>1, <1>3, <2>1 DEF DInv, TypeOK, Objs
    <2>3. FreshObjs' /\ CurrentCall' /\ FlagsBacked'
      BY <1>1, <2>1 DEF DInv, TypeOK, FreshObjs, CurrentCall, FlagsBacked, Objs
    <2>4. CallbackHolds' /\ AppHoldsLiveKey'
      BY <1>1, <2>1 DEF DInv, CallbackHolds, AppHoldsLiveKey
    <2>5. QED BY <2>2, <2>3, <2>4 DEF DInv
  <1>5. CASE newOk /\ readOk /\ decoded
    <2>1. /\ status' = [status EXCEPT ![o] = "live"]
          /\ holders' = [holders EXCEPT ![o] = {"dec"}]
          /\ priv' = [priv EXCEPT ![o] =
                        IF c.fmt = "PKI" THEN DecodedPriv(c, in) ELSE None]
          /\ pub' = [pub EXCEPT ![o] = DecodedPub(in)]
          /\ hasPub' = [hasPub EXCEPT ![o] = DecodedFlags(c.fmt).pub]
          /\ hasPriv' = [hasPriv EXCEPT ![o] = DecodedFlags(c.fmt).priv]
          /\ stage' = "callback"
          /\ UNCHANGED <<cbRet, frees, outcome, retv>>
      BY <1>5 DEF DecDecode
    <2>2. in \in Containers
      BY <1>5, RecognisedIsContainer
    <2>3. in.secret \in Secrets /\ in.fmt \in Formats
      BY <2>2 DEF Containers
    <2>4. DecodedPriv(c, in) \in Secrets \cup {Misread(s) : s \in Secrets}
          /\ DecodedPriv(c, in) # None
      BY <2>3, MaterialNotNone DEF DecodedPriv
    <2>5. DecodedPub(in) \in {PubOf(s) : s \in Secrets} \cup {None}
          /\ (c.fmt = "SPKI" => DecodedPub(in) # None)
      <3>1. c.fmt = in.fmt  BY <1>5 DEF Recognised
      <3>2. QED BY <2>3, <3>1, MaterialNotNone DEF DecodedPub
    <2>6. TypeOK'
      BY <1>1, <1>3, <2>1, <2>4, <2>5 DEF DInv, TypeOK, Objs, DecodedFlags
    <2>7. FreshObjs'
      BY <1>1, <2>1 DEF DInv, TypeOK, FreshObjs, Objs
    <2>8. CurrentCall'
      BY <1>1, <1>2, <2>1 DEF CurrentCall
    <2>9. FlagsBacked'
      <3>1. c.fmt \in Formats  BY DEF DecCtxs
      <3>2. QED
        BY <1>1, <2>1, <2>4, <2>5, <3>1
        DEF DInv, TypeOK, FlagsBacked, DecodedFlags, Formats
    <2>10. CallbackHolds'
      BY <1>1, <2>1 DEF DInv, TypeOK, CallbackHolds
    <2>12. AppHoldsLiveKey'
      BY <1>1, <1>2, <2>1 DEF DInv, TypeOK, AppHoldsLiveKey
    <2>11. QED BY <2>6, <2>7, <2>8, <2>9, <2>10, <2>12 DEF DInv
  <1>6. CASE newOk /\ ~(readOk /\ decoded)
    <2>1. /\ frees' = [frees EXCEPT ![o] = 1]
          /\ status' = [status EXCEPT ![o] = "freed"]
          /\ outcome' = [outcome EXCEPT ![o] =
                           IF decoded THEN "error" ELSE "nomatch"]
          /\ retv' = [retv EXCEPT ![o] = FailReturn(decoded)]
          /\ UNCHANGED <<stage, cbRet, holders, priv, pub, hasPub, hasPriv>>
      BY <1>6 DEF DecDecode
    <2>2. TypeOK'
      BY <1>1, <1>3, <2>1 DEF DInv, TypeOK, Objs, FailReturn
    <2>3. FreshObjs' /\ CurrentCall' /\ FlagsBacked'
      BY <1>1, <2>1 DEF DInv, TypeOK, FreshObjs, CurrentCall, FlagsBacked, Objs
    <2>4. CallbackHolds' /\ AppHoldsLiveKey'
      BY <1>1, <1>2, <2>1 DEF DInv, TypeOK, CallbackHolds, AppHoldsLiveKey
    <2>5. QED BY <2>2, <2>3, <2>4 DEF DInv
  <1>7. QED BY <1>4, <1>5, <1>6

(* The callback's steps change object n only, which is pending. *)
LEMMA CallbackDInv ==
  ASSUME DInv,
         \/ \E ok \in BOOLEAN : CbLoad(ok) \/ CbExport(ok)
         \/ CbReject
  PROVE  DInv'
  <1>1. stage = "callback" /\ stage' = "returned"
    BY DEF CbLoad, CbExport, CbReject
  <1>2. n \in Objs /\ outcome[n] = "pending"
    BY <1>1 DEF DInv, CurrentCall
  <1>3. /\ UNCHANGED <<n, priv, pub, hasPub, hasPriv, src, outcome, retv>>
        /\ cbRet' \in BOOLEAN
    BY DEF CbLoad, CbExport, CbReject
  <1>4. /\ status' \in [Objs -> {"none", "live", "freed"}]
        /\ frees' \in [Objs -> Nat]
        /\ holders' \in [Objs -> SUBSET {"dec", "app"}]
        /\ \A o \in Objs \ {n} :
             status'[o] = status[o] /\ frees'[o] = frees[o]
             /\ holders'[o] = holders[o]
    BY <1>2 DEF DInv, TypeOK, CbLoad, CbExport, CbReject
  <1>5. TypeOK'
    BY <1>1, <1>3, <1>4 DEF DInv, TypeOK
  <1>6. FreshObjs'
    BY <1>2, <1>3, <1>4 DEF DInv, TypeOK, FreshObjs, Objs
  <1>7. CurrentCall'
    BY <1>2, <1>3 DEF CurrentCall
  <1>8. FlagsBacked'
    BY <1>3 DEF DInv, FlagsBacked
  <1>9. holders[n] = {"dec"} /\ status[n] = "live"
    BY <1>1 DEF DInv, CallbackHolds
  <1>10. CallbackHolds' /\ AppHoldsLiveKey'
    <2>1. CASE \E ok \in BOOLEAN : CbLoad(ok)
      <3>1. PICK ok \in BOOLEAN : CbLoad(ok)
        BY <2>1
      <3>2. CASE ok
        <4>1. holders' = [holders EXCEPT ![n] = {"app"}] /\ UNCHANGED status
              /\ cbRet' = TRUE
          BY <3>1, <3>2 DEF CbLoad
        <4>2. QED
          BY <1>1, <1>2, <1>3, <1>9, <4>1 DEF DInv, TypeOK, CallbackHolds, AppHoldsLiveKey
      <3>3. CASE ~ok
        <4>1. holders' = [holders EXCEPT ![n] = {}]
              /\ status' = [status EXCEPT ![n] = "freed"]
          BY <3>1, <3>3 DEF CbLoad
        <4>2. QED
          BY <1>1, <1>2, <1>3, <4>1 DEF DInv, TypeOK, CallbackHolds, AppHoldsLiveKey
      <3>4. QED BY <3>2, <3>3
    <2>2. CASE (\E ok \in BOOLEAN : CbExport(ok)) \/ CbReject
      <3>1. UNCHANGED <<status, holders>>
        BY <2>2 DEF CbExport, CbReject
      <3>2. QED
        BY <1>1, <1>3, <1>9, <3>1 DEF DInv, CallbackHolds, AppHoldsLiveKey
    <2>3. QED BY <2>1, <2>2
  <1>11. QED BY <1>5, <1>6, <1>7, <1>8, <1>10 DEF DInv

(* wp_ecx_dec_decode's return changes object n only, and frees it only   *)
(* when the callback failed, so never under the application.              *)
LEMMA DecFinishDInv ==
  ASSUME DInv, DecFinish
  PROVE  DInv'
  <1>1. stage = "returned" /\ stage' = "idle"
    BY DEF DecFinish
  <1>2. n \in Objs /\ outcome[n] = "pending"
    BY <1>1 DEF DInv, CurrentCall
  <1>3. UNCHANGED <<n, cbRet, priv, pub, hasPub, hasPriv, src>>
    BY DEF DecFinish
  <1>4. /\ status' \in [Objs -> {"none", "live", "freed"}]
        /\ frees' \in [Objs -> Nat]
        /\ holders' \in [Objs -> SUBSET {"dec", "app"}]
        /\ outcome' \in [Objs -> {"pending", "error", "nomatch", "ok"}]
        /\ \A o \in Objs \ {n} :
             status'[o] = status[o] /\ frees'[o] = frees[o]
             /\ holders'[o] = holders[o] /\ outcome'[o] = outcome[o]
             /\ retv'[o] = retv[o]
    BY <1>2 DEF DInv, TypeOK, DecFinish, Free
  <1>5. retv' \in [Objs -> BOOLEAN]
    BY <1>2 DEF DInv, TypeOK, DecFinish
  <1>6. TypeOK'
    BY <1>1, <1>3, <1>4, <1>5 DEF DInv, TypeOK
  <1>7. FreshObjs'
    BY <1>2, <1>3, <1>4 DEF DInv, TypeOK, FreshObjs, Objs
  <1>8. CurrentCall' /\ FlagsBacked'
    BY <1>1, <1>3 DEF DInv, CurrentCall, FlagsBacked
  <1>9. CallbackHolds'
    BY <1>1 DEF CallbackHolds
  <1>10. AppHoldsLiveKey'
    <2>1. CASE cbRet
      <3>1. holders' = [holders EXCEPT ![n] = @ \ {"dec"}] /\ UNCHANGED status
        BY <2>1 DEF DecFinish
      <3>2. QED BY <1>2, <3>1 DEF DInv, TypeOK, AppHoldsLiveKey
    <2>2. CASE ~cbRet
      <3>1. holders' = [holders EXCEPT ![n] = @ \ {"dec"}]
        BY <2>2 DEF DecFinish, Free
      <3>2. "app" \notin holders[n]
        BY <1>1, <2>2 DEF DInv, CallbackHolds
      <3>3. QED BY <1>2, <1>4, <3>1, <3>2 DEF DInv, TypeOK, AppHoldsLiveKey
    <2>3. QED BY <2>1, <2>2
  <1>11. QED BY <1>6, <1>7, <1>8, <1>9, <1>10 DEF DInv

(* The application frees only an object it took, which is a call's that  *)
(* was made, and then holds it no more.                                    *)
LEMMA AppFreeDInv ==
  ASSUME DInv, NEW o \in Objs, AppFree(o)
  PROVE  DInv'
  <1>1. "app" \in holders[o]
    BY DEF AppFree
  <1>2. o <= n
    BY <1>1 DEF DInv, TypeOK, FreshObjs, Objs
  <1>3. UNCHANGED <<n, stage, cbRet, priv, pub, hasPub, hasPriv, src, outcome,
                    retv>>
    BY DEF AppFree
  <1>4. /\ status' \in [Objs -> {"none", "live", "freed"}]
        /\ frees' \in [Objs -> Nat]
        /\ holders' \in [Objs -> SUBSET {"dec", "app"}]
        /\ \A p \in Objs \ {o} :
             status'[p] = status[p] /\ frees'[p] = frees[p]
             /\ holders'[p] = holders[p]
    BY DEF DInv, TypeOK, AppFree, Free
  <1>5. TypeOK'
    BY <1>3, <1>4 DEF DInv, TypeOK
  <1>6. FreshObjs'
    BY <1>2, <1>3, <1>4 DEF DInv, TypeOK, FreshObjs, Objs
  <1>7. CurrentCall' /\ FlagsBacked'
    BY <1>3 DEF DInv, CurrentCall, FlagsBacked
  <1>8. holders' = [holders EXCEPT ![o] = @ \ {"app"}]
    BY DEF AppFree, Free
  <1>9. CallbackHolds'
    <2>1. stage = "callback" => o # n
      BY <1>1 DEF DInv, CallbackHolds
    <2>2. QED BY <1>3, <1>4, <1>8, <2>1 DEF DInv, TypeOK, CurrentCall, CallbackHolds
  <1>10. AppHoldsLiveKey'
    BY <1>4, <1>8 DEF DInv, TypeOK, AppHoldsLiveKey
  <1>11. QED BY <1>5, <1>6, <1>7, <1>9, <1>10 DEF DInv

LEMMA NextDInv == DInv /\ [Next]_vars => DInv'
  <1> SUFFICES ASSUME DInv, [Next]_vars PROVE DInv'
    OBVIOUS
  <1>1. CASE \E c \in DecCtxs, in \in Inputs, newOk, readOk \in BOOLEAN :
               DecDecode(c, in, newOk, readOk)
    BY <1>1, DecDecodeDInv
  <1>2. CASE \/ \E ok \in BOOLEAN : CbLoad(ok) \/ CbExport(ok)
             \/ CbReject
    BY <1>2, CallbackDInv
  <1>3. CASE DecFinish
    BY <1>3, DecFinishDInv
  <1>4. CASE \E o \in Objs : AppFree(o)
    BY <1>4, AppFreeDInv
  <1>5. CASE Done \/ UNCHANGED vars
    BY <1>5 DEF Done, vars, DInv, TypeOK, FreshObjs, CurrentCall, FlagsBacked,
                CallbackHolds, AppHoldsLiveKey
  <1>6. QED BY <1>1, <1>2, <1>3, <1>4, <1>5 DEF Next

(***************************************************************************)
(* The theorems.                                                           *)
(***************************************************************************)

(* Every live key object wp_ecx_dec_decode built has material behind each *)
(* flag it set: hasPriv only with a private key, hasPub only with a key.  *)
THEOREM DecoderFlagsBacked == Spec => []DecodedFlagsBackedByMaterial
  <1>1. DInv => DecodedFlagsBackedByMaterial
    BY DEF DInv, FlagsBacked, DecodedFlagsBackedByMaterial
  <1>2. QED BY <1>1, InitDInv, NextDInv, PTL DEF Spec

(* A key the application took through wp_ecx_load in a successful data   *)
(* callback is alive for as long as the application holds it: neither the *)
(* decode call that built it nor any later call frees it.  The run         *)
(* ecx_decoder checks this for three calls, this theorem for any number.   *)
THEOREM AppKeyAlive == Spec => []AppHoldsLiveKey
  <1>1. DInv => AppHoldsLiveKey
    BY DEF DInv
  <1>2. QED BY <1>1, InitDInv, NextDInv, PTL DEF Spec
=============================================================================
