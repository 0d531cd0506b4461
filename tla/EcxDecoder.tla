------------------------------ MODULE EcxDecoder ------------------------------
(***************************************************************************)
(* The decode pipeline of src/src/wp_ecx_kmgmt.c: wp_ecx_dec_decode       *)
(* builds a key object from DER, hands a reference to it to the data       *)
(* callback (wp_ecx_dec_send_params), and frees it when the call fails.    *)
(* The callback is OpenSSL's: it takes the key with wp_ecx_load, or copies *)
(* it to another provider's key manager with wp_ecx_export_object, or      *)
(* rejects it; when it fails after wp_ecx_load it frees what it took.     *)
(*                                                                         *)
(* Decode calls are made one after the other; each builds its own key      *)
(* object, numbered by the call.  Who owns a reference to an object is     *)
(* ghost state (holders).  The DER input is a container record: its        *)
(* format, curve, private key and whether a private key container also     *)
(* carries the public key (PKCS#8 v2), or Junk, which no decoder accepts.  *)
(***************************************************************************)
EXTENDS Naturals

CONSTANTS
  Curves,      \* curve families in use: "X25519", "X448", "ED25519", "ED448"
  Secrets,     \* private keys
  MaxDecodes,  \* bound on the decode calls made
  None         \* no value

ASSUME DecCurvesAssumption ==
  Curves \subseteq {"X25519", "X448", "ED25519", "ED448"} /\ Curves # {}
ASSUME MaxDecodesAssumption == MaxDecodes \in Nat \ {0}

(* The key-exchange curves, whose decoders reimport the key bytes. *)
DhCurves == {"X25519", "X448"}

Formats == {"SPKI", "PKI"}

(* wp_ecx_enc_dec_new for the twelve wp_<curve>_<format>_dec_new: a     *)
(* decoder context is a curve (keyType) and a format.                    *)
DecCtxs == [curve : Curves, fmt : Formats]

Containers ==
  {in \in [curve : Curves, fmt : Formats, secret : Secrets, withPub : BOOLEAN] :
     in.fmt = "SPKI" => ~in.withPub}
Junk == [curve |-> "junk", fmt |-> "junk", secret |-> None, withPub |-> FALSE]
Inputs == Containers \cup {Junk}

PubOf(s) == <<"pub", s>>
(* The private key read from bytes that hold the encoding of PubOf(s). *)
Misread(s) == <<"priv-from-pub", s>>

Objs == 1..MaxDecodes

ASSUME DecNoneAssumption ==
  /\ None \notin Secrets
  /\ \A s \in Secrets : None # PubOf(s) /\ None # Misread(s)

VARIABLES
  n,        \* decode calls started; the current one builds object n
  stage,    \* "idle", "callback" (inside the data callback), "returned"
  cbRet,    \* what the data callback returned
  status,   \* per object: "none", "live" or "freed"
  frees,    \* per object: wp_ecx_free calls made on it
  holders,  \* per object: who owns a reference ("dec", "app")
  priv, pub, hasPub, hasPriv,  \* per object: as in EcxKey
  src,      \* per object: the input it was decoded from
  outcome,  \* per call: "pending", "error", "nomatch" or "ok"
  retv      \* per call: what wp_ecx_dec_decode returned

vars == <<n, stage, cbRet, status, frees, holders, priv, pub, hasPub, hasPriv,
          src, outcome, retv>>

TypeOK ==
  /\ n \in 0..MaxDecodes
  /\ stage \in {"idle", "callback", "returned"}
  /\ cbRet \in BOOLEAN
  /\ status \in [Objs -> {"none", "live", "freed"}]
  /\ frees \in [Objs -> Nat]
  /\ holders \in [Objs -> SUBSET {"dec", "app"}]
  /\ priv \in [Objs -> Secrets \cup {Misread(s) : s \in Secrets} \cup {None}]
  /\ pub \in [Objs -> {PubOf(s) : s \in Secrets} \cup {None}]
  /\ hasPub \in [Objs -> BOOLEAN]
  /\ hasPriv \in [Objs -> BOOLEAN]
  /\ src \in [Objs -> Inputs]
  /\ outcome \in [Objs -> {"pending", "error", "nomatch", "ok"}]
  /\ retv \in [Objs -> BOOLEAN]

Init ==
  /\ n = 0
  /\ stage = "idle"
  /\ cbRet = FALSE
  /\ status = [o \in Objs |-> "none"]
  /\ frees = [o \in Objs |-> 0]
  /\ holders = [o \in Objs |-> {}]
  /\ priv = [o \in Objs |-> None]
  /\ pub = [o \in Objs |-> None]
  /\ hasPub = [o \in Objs |-> FALSE]
  /\ hasPriv = [o \in Objs |-> FALSE]
  /\ src = [o \in Objs |-> Junk]
  /\ outcome = [o \in Objs |-> "pending"]
  /\ retv = [o \in Objs |-> FALSE]

(* The wolfSSL DER decoders (wc_Curve25519PublicKeyDecode, ...) accept  *)
(* a container of their curve and format, and nothing else.              *)
Recognised(c, in) == in.curve = c.curve /\ in.fmt = c.fmt

(* The private key a PKI decoder leaves in the key.  wp_x25519_priv_deocde *)
(* and wp_x448_priv_deocde decode the container and then reimport its last *)
(* len bytes as the private key; when the container carries the public    *)
(* key, those bytes are the public key.  The Ed decoders are wolfSSL's.   *)
DecodedPriv(c, in) ==
  IF c.curve \in DhCurves /\ in.withPub THEN Misread(in.secret) ELSE in.secret

(* The public key an SPKI decoder (its last len bytes) or a PKI decoder   *)
(* (the attached public key, if any) leaves in the key.                   *)
DecodedPub(in) ==
  IF in.fmt = "SPKI" \/ in.withPub THEN PubOf(in.secret) ELSE None

(* A variant of the flag setting with the two format tests swapped. *)
DecodedFlagsSwapped(fmt) == [pub |-> TRUE, priv |-> fmt = "SPKI"]

(* The flags wp_ecx_dec_decode sets after a successful decode: SPKI sets  *)
(* hasPub, PKI sets hasPub and hasPriv.                                   *)
DecodedFlags(fmt) == [pub |-> TRUE, priv |-> fmt = "PKI"]

(* What wp_ecx_dec_decode returns after freeing the key on a failure: 1  *)
(* when the input was not recognised ("not a match"), 0 otherwise.        *)
FailReturn(decoded) == ~decoded

(* wp_ecx_free of an object of the decoder, which is never up_ref'ed: the *)
(* release destroys it, whoever holds it, freed already or not.           *)
Free(o, who) ==
  /\ frees' = [frees EXCEPT ![o] = @ + 1]
  /\ status' = [status EXCEPT ![o] = "freed"]
  /\ holders' = [holders EXCEPT ![o] = @ \ {who}]

(* wp_ecx_dec_decode up to the data callback: wp_<curve>_new (newOk), the *)
(* DER read (readOk), the decode, the flags and OPENSSL_clear_free of the *)
(* DER bytes.  A failure before the callback frees the new key and       *)
(* returns, 1 when the input was not recognised.                          *)
DecDecode(c, in, newOk, readOk) ==
  LET o == n + 1
      decoded == ~readOk \/ Recognised(c, in)
  IN  /\ stage = "idle" /\ n < MaxDecodes
      /\ n' = o
      /\ src' = [src EXCEPT ![o] = in]
      /\ CASE ~newOk ->
                /\ outcome' = [outcome EXCEPT ![o] = "error"]
                /\ retv' = [retv EXCEPT ![o] = FALSE]
                /\ UNCHANGED <<stage, cbRet, status, frees, holders, priv, pub,
                               hasPub, hasPriv>>
           [] newOk /\ readOk /\ decoded ->
                /\ status' = [status EXCEPT ![o] = "live"]
                /\ holders' = [holders EXCEPT ![o] = {"dec"}]
                /\ priv' = [priv EXCEPT ![o] =
                             IF c.fmt = "PKI" THEN DecodedPriv(c, in) ELSE None]
                /\ pub' = [pub EXCEPT ![o] = DecodedPub(in)]
                /\ hasPub' = [hasPub EXCEPT ![o] = DecodedFlags(c.fmt).pub]
                /\ hasPriv' = [hasPriv EXCEPT ![o] = DecodedFlags(c.fmt).priv]
                /\ stage' = "callback"
                /\ UNCHANGED <<cbRet, frees, outcome, retv>>
           [] OTHER ->
                /\ frees' = [frees EXCEPT ![o] = 1]
                /\ status' = [status EXCEPT ![o] = "freed"]
                /\ outcome' = [outcome EXCEPT ![o] =
                                 IF decoded THEN "error" ELSE "nomatch"]
                /\ retv' = [retv EXCEPT ![o] = FailReturn(decoded)]
                /\ UNCHANGED <<stage, cbRet, holders, priv, pub, hasPub, hasPriv>>

(* The data callback takes the key with wp_ecx_load, which clears only   *)
(* wp_ecx_dec_send_params' copy of the pointer.  When the callback then   *)
(* fails, it frees the key it took.                                       *)
CbLoad(ok) ==
  /\ stage = "callback"
  /\ IF ok
       THEN /\ holders' = [holders EXCEPT ![n] = {"app"}]
            /\ UNCHANGED <<frees, status>>
       ELSE /\ frees' = [frees EXCEPT ![n] = @ + 1]
            /\ status' = [status EXCEPT ![n] = "freed"]
            /\ holders' = [holders EXCEPT ![n] = {}]
  /\ stage' = "returned" /\ cbRet' = ok
  /\ UNCHANGED <<n, priv, pub, hasPub, hasPriv, src, outcome, retv>>

(* The data callback copies the key to another provider's key manager   *)
(* through wp_ecx_export_object, which reads the key and takes nothing.  *)
CbExport(ok) ==
  /\ stage = "callback"
  /\ stage' = "returned" /\ cbRet' = ok
  /\ UNCHANGED <<n, status, frees, holders, priv, pub, hasPub, hasPriv, src,
                 outcome, retv>>

(* The data callback rejects the key without taking it. *)
CbReject ==
  /\ stage = "callback"
  /\ stage' = "returned" /\ cbRet' = FALSE
  /\ UNCHANGED <<n, status, frees, holders, priv, pub, hasPub, hasPriv, src,
                 outcome, retv>>

(* A variant of the return of wp_ecx_dec_decode that frees its key after  *)
(* every callback, as if the callback took a reference of its own.        *)
DecFinishAlwaysFree ==
  /\ stage = "returned"
  /\ Free(n, "dec")
  /\ outcome' = [outcome EXCEPT ![n] = IF cbRet THEN "ok" ELSE "error"]
  /\ retv' = [retv EXCEPT ![n] = cbRet]
  /\ stage' = "idle"
  /\ UNCHANGED <<n, cbRet, priv, pub, hasPub, hasPriv, src>>

(* wp_ecx_dec_decode after the callback: on failure it frees ecx, its own *)
(* pointer, and returns 0; on success it returns 1 and its pointer goes.  *)
DecFinish ==
  /\ stage = "returned"
  /\ IF cbRet
       THEN /\ holders' = [holders EXCEPT ![n] = @ \ {"dec"}]
            /\ outcome' = [outcome EXCEPT ![n] = "ok"]
            /\ retv' = [retv EXCEPT ![n] = TRUE]
            /\ UNCHANGED <<frees, status>>
       ELSE /\ Free(n, "dec")
            /\ outcome' = [outcome EXCEPT ![n] = "error"]
            /\ retv' = [retv EXCEPT ![n] = FALSE]
  /\ stage' = "idle"
  /\ UNCHANGED <<n, cbRet, priv, pub, hasPub, hasPriv, src>>

(* The application releases the key it took (EVP_PKEY_free). *)
AppFree(o) ==
  /\ "app" \in holders[o]
  /\ Free(o, "app")
  /\ UNCHANGED <<n, stage, cbRet, priv, pub, hasPub, hasPriv, src, outcome, retv>>

(* Every decode call allowed has been made and has returned, and the     *)
(* application has released what it took.                                *)
Done ==
  /\ n = MaxDecodes /\ stage = "idle"
  /\ \A o \in Objs : "app" \notin holders[o]
  /\ UNCHANGED vars

Next ==
  \/ \E c \in DecCtxs, in \in Inputs, newOk, readOk \in BOOLEAN :
       DecDecode(c, in, newOk, readOk)
  \/ \E ok \in BOOLEAN : CbLoad(ok) \/ CbExport(ok)
  \/ CbReject
  \/ DecFinish
  \/ \E o \in Objs : AppFree(o)
  \/ Done

Spec == Init /\ [][Next]_vars

(***************************************************************************)
(* Properties.                                                            *)
(***************************************************************************)

(* A decoded key's flags are backed by material: the format tests of     *)
(* wp_ecx_dec_decode set hasPriv only for a private key container.        *)
DecodedFlagsBackedByMaterial ==
  \A o \in Objs :
    status[o] = "live" =>
      /\ hasPriv[o] => priv[o] # None
      /\ hasPub[o] => (pub[o] # None \/ priv[o] # None)

(* A key the application took through wp_ecx_load in a successful data  *)
(* callback stays alive until the application frees it: wp_ecx_load hands *)
(* the pointer over without taking a reference, so wp_ecx_dec_decode must *)
(* not free the key on its way out of a successful call, and never frees  *)
(* one that a later call or the application still holds.                  *)
AppHoldsLiveKey == \A o \in Objs : "app" \in holders[o] => status[o] = "live"

(* No key object is freed twice (spec 4.2: destruction happens exactly   *)
(* once), whatever the data callback did with it.                         *)
NoDoubleFree == \A o \in Objs : frees[o] <= 1

(* Once a decode call has returned, every key object still alive is     *)
(* owned by someone who will free it (spec 7: nothing is leaked).          *)
NoLeak == \A o \in Objs : (status[o] = "live" /\ stage = "idle") => holders[o] # {}

(* A decoded private key is the one the container holds (spec 4.6 step 4 *)
(* and the source's "not always last bytes!").                            *)
DecodedKeyIsEncoded ==
  \A o \in Objs : (status[o] = "live" /\ hasPriv[o]) => priv[o] = src[o].secret

=============================================================================
