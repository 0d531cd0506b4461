------------------------------- MODULE EcxKey -------------------------------
(***************************************************************************)
(* The key material of ECX key objects and the calls that move it, from   *)
(* src/src/wp_ecx_kmgmt.c: wp_ecx_new/free/dup, set_params, get_params,   *)
(* import, export and gen, with has, match, validate and key_types as     *)
(* operators (they change nothing).                                       *)
(*                                                                         *)
(* The calls on one key are made by one thread at a time (the code locks  *)
(* only the reference count), so each call is one step.  A private key is *)
(* a model value of Secrets and its public key PubOf(s); a byte string is *)
(* kept only as the key part it holds and its length.  The wolfSSL        *)
(* functions of the curve descriptors are outside this repository and are *)
(* modelled by their contract: an import succeeds on input of the curve's *)
(* length, an export needs a buffer of at least that length, and a public *)
(* key not stored is derived from the private key.                        *)
(***************************************************************************)
EXTENDS Integers, Sequences

CONSTANTS
  KeyIds,    \* key objects (struct wp_Ecx) the application holds
  Curves,    \* curve families in use: "X25519", "X448", "ED25519", "ED448"
  Secrets,   \* private keys
  None,      \* no key object, no key part, no parameter
  BufSizes,  \* data_size of the caller's get_params buffers
  InLens,    \* lengths of the public keys passed to set_params and import
  GenIds     \* generation contexts (wp_EcxGenCtx) in use at the same time

ASSUME CurvesAssumption ==
  Curves \subseteq {"X25519", "X448", "ED25519", "ED448"} /\ Curves # {}
ASSUME SizesAssumption == BufSizes \subseteq Nat /\ InLens \subseteq Nat

(* x25519Data, x448Data, ed25519Data, ed448Data: bits, len, and whether  *)
(* the curve is for key exchange (x_validate) or signatures (ed_validate). *)
Desc == [X25519  |-> [bits |-> 255, len |-> 32, dh |-> TRUE],
         X448    |-> [bits |-> 448, len |-> 56, dh |-> TRUE],
         ED25519 |-> [bits |-> 255, len |-> 32, dh |-> FALSE],
         ED448   |-> [bits |-> 448, len |-> 57, dh |-> FALSE]]

(* OSSL_KEYMGMT_SELECT_* bits and WP_ECX_POSSIBLE_SELECTIONS. *)
SelPriv == 1
SelPub  == 2
SelDomain == 4
SelOther == 128
Possible == {SelPriv, SelPub, SelDomain, SelOther}
Selected(sel, bit) == (sel \div bit) % 2 = 1
AnyPossible(sel) == \E b \in Possible : Selected(sel, b)

(* (word32)p->return_size for OSSL_PARAM_UNMODIFIED: 2^32 - 1 is beyond  *)
(* TLC's integers, and only its comparison with the key and buffer sizes *)
(* matters, so a value above all of them stands for it.                  *)
Unmodified == 1000

(* The contents of uninitialised bytes of OPENSSL_malloc'ed memory. *)
Garbage == <<"garbage">>

PubOf(s) == <<"pub", s>>
Points == {PubOf(s) : s \in Secrets}

(* None stands for no value: it is no curve, private key or point. *)
ASSUME NoneAssumption == None \notin Curves /\ None \notin Secrets /\ None \notin Points

(* A public key parameter: the point it encodes and its length. *)
PubIns == [pt : Points, len : InLens]

(* The names wp_<curve>_gen_init passes as ctx->name (SN_X25519, ...),   *)
(* as sequences of name pieces: "X25519" is <<"X", "25519">>.            *)
CurveName == [X25519  |-> <<"X", "25519">>,  X448  |-> <<"X", "448">>,
              ED25519 |-> <<"ED", "25519">>, ED448 |-> <<"ED", "448">>]

(* Group names a caller passes: the names of the curves and their         *)
(* prefixes, the empty name included.                                    *)
GroupNames == {SubSeq(CurveName[c], 1, i) : c \in Curves, i \in 0..2}

(* No group name is None, the absent parameter. *)
ASSUME GroupNoneAssumption == None \notin GroupNames

(* The outcome of wp_params_get_utf8_string_ptr for OSSL_PKEY_PARAM_GROUP_NAME: *)
(* got is its return (0: the parameter is not a UTF-8 string) and name   *)
(* the string found (None: no such parameter).                           *)
GroupParams ==
  [got : {TRUE}, name : GroupNames \cup {None}] \cup {[got |-> FALSE, name |-> None]}

(* s is a prefix of t: XSTRNCMP(s, t, XSTRLEN(s)) == 0. *)
NamePrefix(s, t) == Len(s) <= Len(t) /\ SubSeq(t, 1, Len(s)) = s

VARIABLES
  curve,     \* the key object's descriptor (ecx->data), None when there is none
  priv,      \* private key in ecx->key
  pub,       \* public key stored in ecx->key (None: derived when exported)
  hasPub,    \* ecx->hasPub
  hasPriv,   \* ecx->hasPriv
  call,      \* the last call made
  ret,       \* and what it returned
  got,       \* the last get_params of a key part: buffer size, bytes written,
             \* return_size, key length, and whether has reports the part
  exported,  \* parameters the last wp_ecx_export passed to its callback
  residue,   \* key parts left in freed memory without being zeroed
  overread,  \* an input was read past its length
  gstat,     \* per generation context: "none" (not allocated) or "live"
  gcurve,    \* its descriptor (ctx->data)
  gsel,      \* its selection (ctx->selection)
  rng        \* per context: its WC_RNG, in RngStates

keyVars == <<curve, priv, pub, hasPub, hasPriv>>
genVars == <<gstat, gcurve, gsel, rng>>
vars == <<curve, priv, pub, hasPub, hasPriv, call, ret, got, exported,
          residue, overread, gstat, gcurve, gsel, rng>>

(* The states of a context's WC_RNG: "none" (zeroed or freed), "live"    *)
(* (initialised by wc_InitRng) or "freedUninit" (wc_FreeRng was called on  *)
(* an RNG that wc_InitRng never set up).                                   *)
RngStates == {"none", "live", "freedUninit"}

Params == [name : {"pub", "priv"}, val : Points \cup Secrets \cup {Garbage}]

TypeOK ==
  /\ curve \in [KeyIds -> Curves \cup {None}]
  /\ priv \in [KeyIds -> Secrets \cup {None}]
  /\ pub \in [KeyIds -> Points \cup {None}]
  /\ hasPub \in [KeyIds -> BOOLEAN]
  /\ hasPriv \in [KeyIds -> BOOLEAN]
  /\ call \in {"none", "new", "free", "dup", "set_params", "import",
               "get_params", "export", "gen", "gen_init", "gen_set_params",
               "gen_cleanup"}
  /\ ret \in BOOLEAN
  /\ got \in [cap : Nat, written : Nat, room : Nat, len : Nat, present : BOOLEAN]
  /\ exported \in Seq(Params)
  /\ residue \subseteq Secrets
  /\ overread \in BOOLEAN
  /\ gstat \in [GenIds -> {"none", "live"}]
  /\ gcurve \in [GenIds -> Curves \cup {None}]
  /\ gsel \in [GenIds -> Nat]
  /\ rng \in [GenIds -> RngStates]

KeyLen(k) == Desc[curve[k]].len

(* The descriptor's exportPub: the stored public key, or the one derived *)
(* from the private key (wp_ed25519_export_public, wp_ed448_export_public *)
(* call wc_ed*_make_public when !pubKeySet).  None: the export fails.     *)
ExportPub(k) ==
  IF pub[k] # None THEN pub[k]
  ELSE IF priv[k] # None THEN PubOf(priv[k]) ELSE None

(* The descriptor's importPub accepts a public key of the curve's length. *)
PubAccepted(c, in) == in.len = Desc[c].len

(* wp_x25519_import_public reads in[31], and copies 32 bytes when its top *)
(* bit is set, before wolfSSL checks inLen.                              *)
ReadsPastInput(c, in) == c = "X25519" /\ in.len < 32

Init ==
  /\ curve = [k \in KeyIds |-> None]
  /\ priv = [k \in KeyIds |-> None]
  /\ pub = [k \in KeyIds |-> None]
  /\ hasPub = [k \in KeyIds |-> FALSE]
  /\ hasPriv = [k \in KeyIds |-> FALSE]
  /\ call = "none"
  /\ ret = TRUE
  /\ got = [cap |-> 0, written |-> 0, room |-> 0, len |-> 0, present |-> FALSE]
  /\ exported = <<>>
  /\ residue = {}
  /\ overread = FALSE
  /\ gstat = [g \in GenIds |-> "none"]
  /\ gcurve = [g \in GenIds |-> None]
  /\ gsel = [g \in GenIds |-> 0]
  /\ rng = [g \in GenIds |-> "none"]

(* The call made and what it returned. *)
Returns(c, r) ==
  /\ call' = c /\ ret' = r

(***************************************************************************)
(* Queries: they read the key and change nothing.                         *)
(***************************************************************************)

(* wp_ecx_has: every part the selection asks for is flagged present. *)
Has(k, sel) ==
  AnyPossible(sel) =>
    /\ Selected(sel, SelPub) => hasPub[k]
    /\ Selected(sel, SelPriv) => hasPriv[k]

(* The contract of wc_ed25519_check_key / wc_ed448_check_key: a public   *)
(* key next to a private key is the one derived from it.                 *)
CheckKey(k) == priv[k] = None \/ ExportPub(k) = PubOf(priv[k])

(* wp_ecx_ed_validate: the parts are flagged present, and a key pair is  *)
(* passed to checkKey.                                                    *)
ValidateEd(k, sel) ==
  /\ Selected(sel, SelPub) => hasPub[k]
  /\ Selected(sel, SelPriv) => hasPriv[k]
  /\ (Selected(sel, SelPub) /\ Selected(sel, SelPriv)) => CheckKey(k)

(* wp_ecx_match_priv_key: both keys flag a private key, exportPriv gives *)
(* it (it fails on a key that has none), and the two exports have the    *)
(* same length and bytes.                                                 *)
MatchPrivKey(k1, k2) ==
  /\ hasPriv[k1] /\ hasPriv[k2]
  /\ priv[k1] # None /\ priv[k2] # None
  /\ KeyLen(k1) = KeyLen(k2) /\ priv[k1] = priv[k2]

(* A variant of wp_ecx_match_pub_key that compares the public keys held  *)
(* in the wolfSSL keys instead of exporting them, so a public key not     *)
(* stored yet is not derived.                                             *)
MatchPubKeyStored(k1, k2) ==
  /\ hasPub[k1] /\ hasPub[k2]
  /\ pub[k1] # None /\ pub[k2] # None
  /\ KeyLen(k1) = KeyLen(k2) /\ pub[k1] = pub[k2]

(* wp_ecx_match_pub_key: both keys flag a public key, exportPub gives it *)
(* (deriving one not stored), lengths and bytes are equal.               *)
MatchPubKey(k1, k2) ==
  /\ hasPub[k1] /\ hasPub[k2]
  /\ ExportPub(k1) # None /\ ExportPub(k2) # None
  /\ KeyLen(k1) = KeyLen(k2) /\ ExportPub(k1) = ExportPub(k2)

(* wp_ecx_match (the provider is running): the same key type when any   *)
(* selection bit is set, then the private and the public key as selected. *)
Match(k1, k2, sel) ==
  /\ sel # 0 => curve[k1] = curve[k2]
  /\ Selected(sel, SelPriv) => MatchPrivKey(k1, k2)
  /\ Selected(sel, SelPub) => MatchPubKey(k1, k2)

(* The contract of checkPub (wc_curve25519_check_public,                 *)
(* wc_curve448_check_public): the bytes encode a point of the curve; every *)
(* point of the model is a public key.                                    *)
CheckPub(pt) == pt \in Points

(* wp_ecx_x_validate with wp_ecx_validate_pub_key: a selected public key *)
(* is flagged, exported and checked; a selected private key is flagged.   *)
XValidate(k, sel) ==
  /\ Selected(sel, SelPub) =>
       hasPub[k] /\ ExportPub(k) # None /\ CheckPub(ExportPub(k))
  /\ Selected(sel, SelPriv) => hasPriv[k]

(* wp_ecx_key_params: the table of parameter schemas, OSSL_PARAM_END as  *)
(* "end"; entry i of the C array is KeyParams[i + 1].                    *)
KeyParams == <<"end", "priv", "end", "pub", "end", "priv", "pub", "end">>

(* wp_ecx_key_types: the index of the schema for a selection. *)
KeyTypesIdx(sel) ==
  LET extra == IF Selected(sel, SelPub) THEN 1 ELSE 0
  IN  3 * extra + (IF Selected(sel, SelPriv) THEN 1 + extra ELSE 0)

(* The names of the schema starting at index i, up to its "end". *)
Schema(i) ==
  {KeyParams[j + 1] : j \in {j \in i..7 : \A m \in i..j : KeyParams[m + 1] # "end"}}

(***************************************************************************)
(* Operations.                                                            *)
(***************************************************************************)

(* wp_ecx_new for a curve's descriptor: an empty key object.  Failure to *)
(* allocate, which leaves nothing, is modelled in EcxRefCnt.              *)
KeyNew(k, c) ==
  /\ curve[k] = None
  /\ curve' = [curve EXCEPT ![k] = c]
  /\ Returns("new", TRUE)
  /\ UNCHANGED <<priv, pub, hasPub, hasPriv, got, exported, residue, overread, gstat, gcurve, gsel, rng>>

(* wp_ecx_free of the last reference: freeKey zeroes the wolfSSL key. *)
KeyFree(k) ==
  /\ curve[k] # None
  /\ curve' = [curve EXCEPT ![k] = None]
  /\ priv' = [priv EXCEPT ![k] = None]
  /\ pub' = [pub EXCEPT ![k] = None]
  /\ hasPub' = [hasPub EXCEPT ![k] = FALSE]
  /\ hasPriv' = [hasPriv EXCEPT ![k] = FALSE]
  /\ Returns("free", TRUE)
  /\ UNCHANGED <<got, exported, residue, overread, gstat, gcurve, gsel, rng>>

(* wp_ecx_dup: a new key of the same curve with the wolfSSL key and both *)
(* flags copied, whatever the selection.                                 *)
Dup(k, src) ==
  /\ curve[src] # None /\ curve[k] = None
  /\ curve' = [curve EXCEPT ![k] = curve[src]]
  /\ priv' = [priv EXCEPT ![k] = priv[src]]
  /\ pub' = [pub EXCEPT ![k] = pub[src]]
  /\ hasPub' = [hasPub EXCEPT ![k] = hasPub[src]]
  /\ hasPriv' = [hasPriv EXCEPT ![k] = hasPriv[src]]
  /\ Returns("dup", TRUE)
  /\ UNCHANGED <<got, exported, residue, overread, gstat, gcurve, gsel, rng>>

(* A variant of wp_ecx_set_params that sets hasPub whenever a parameter *)
(* is present, without looking at importPub's return code.                *)
SetParamsNoRcCheck(k, in) ==
  LET stores == in # None /\ PubAccepted(curve[k], in)
  IN  /\ curve[k] # None
      /\ pub' = IF stores THEN [pub EXCEPT ![k] = in.pt] ELSE pub
      /\ hasPub' = IF in # None THEN [hasPub EXCEPT ![k] = TRUE] ELSE hasPub
      /\ overread' = (overread \/ (in # None /\ ReadsPastInput(curve[k], in)))
      /\ Returns("set_params", in = None \/ stores)
      /\ UNCHANGED <<curve, priv, hasPriv, got, exported, residue, gstat, gcurve, gsel, rng>>

(* wp_ecx_set_params with an encoded public key parameter (in = None: no *)
(* such parameter).  hasPub is set only when importPub returns 0.        *)
SetParams(k, in) ==
  LET stores == in # None /\ PubAccepted(curve[k], in)
  IN  /\ curve[k] # None
      /\ pub' = IF stores THEN [pub EXCEPT ![k] = in.pt] ELSE pub
      /\ hasPub' = IF stores THEN [hasPub EXCEPT ![k] = TRUE] ELSE hasPub
      /\ overread' = (overread \/ (in # None /\ ReadsPastInput(curve[k], in)))
      /\ Returns("set_params", in = None \/ stores)
      /\ UNCHANGED <<curve, priv, hasPriv, got, exported, residue, gstat, gcurve, gsel, rng>>

(* wp_ecx_import.  The private key is imported and both flags are set   *)
(* before the public key is tried; a public key the curve rejects then   *)
(* fails the call.  keepPub: whether the wolfSSL private import keeps a    *)
(* public key already stored (that is wolfSSL's, outside this code).     *)
Import(k, sel, pin, qin, keepPub) ==
  LET ok0    == AnyPossible(sel)
      doPriv == ok0 /\ Selected(sel, SelPriv) /\ pin # None
      doPub  == ok0 /\ Selected(sel, SelPub) /\ qin # None
      pubOk  == doPub => PubAccepted(curve[k], qin)
      pubAfterPriv == IF doPriv /\ ~keepPub THEN None ELSE pub[k]
  IN  /\ curve[k] # None
      /\ priv' = IF doPriv THEN [priv EXCEPT ![k] = pin] ELSE priv
      /\ hasPriv' = IF doPriv THEN [hasPriv EXCEPT ![k] = TRUE] ELSE hasPriv
      /\ pub' = [pub EXCEPT ![k] = IF doPub /\ pubOk THEN qin.pt ELSE pubAfterPriv]
      /\ hasPub' = IF doPriv \/ (doPub /\ pubOk)
                     THEN [hasPub EXCEPT ![k] = TRUE] ELSE hasPub
      /\ overread' = (overread \/ (doPub /\ ReadsPastInput(curve[k], qin)))
      /\ Returns("import", ok0 /\ (doPriv \/ doPub) /\ pubOk)
      /\ UNCHANGED <<curve, got, exported, residue, gstat, gcurve, gsel, rng>>

(* wp_ecx_get_params for one octet-string key parameter (part: encoded   *)
(* public, public or private key), in a buffer (buf) of cap bytes whose  *)
(* return_size is rs.  The export is given outLen = return_size as the   *)
(* room it has.  The Ed curves derive a public key not yet stored with   *)
(* make_public(key, out, *outLen), which wants exactly the key length.   *)
GetParams(k, part, buf, cap, rs) ==
  LET material == IF part = "priv" THEN priv[k] ELSE ExportPub(k)
      derive   == part # "priv" /\ ~Desc[curve[k]].dh /\ pub[k] = None
      ok       == ~buf \/ (/\ material # None
                           /\ rs >= KeyLen(k)
                           /\ derive => rs = KeyLen(k))
  IN  /\ curve[k] # None
      /\ got' = [cap |-> IF buf THEN cap ELSE 0,
                 written |-> IF buf /\ ok THEN KeyLen(k) ELSE 0,
                 room |-> rs,
                 len |-> KeyLen(k),
                 present |-> buf /\ IF part = "priv" THEN hasPriv[k] ELSE hasPub[k]]
      /\ Returns("get_params", ok)
      /\ UNCHANGED <<curve, priv, pub, hasPub, hasPriv, exported, residue, overread, gstat, gcurve, gsel, rng>>

(* wp_ecx_export with wp_ecx_export_keypair: the public key, then the    *)
(* private key whose return code is not checked, both under the name     *)
(* PUB_KEY; idx (len) is not advanced past the private key, so           *)
(* OPENSSL_clear_free(data, len) zeroes only the public part.  alloc:    *)
(* OPENSSL_malloc succeeds; cbOk: what the callback returns.             *)
Export(k, sel, alloc, cbOk) ==
  LET expPriv  == Selected(sel, SelPriv)
      pubOk    == alloc /\ ExportPub(k) # None
      privVal  == IF priv[k] # None THEN priv[k] ELSE Garbage
      privPart == IF expPriv THEN <<[name |-> "pub", val |-> privVal]>> ELSE <<>>
  IN  /\ curve[k] # None
      /\ exported' = IF pubOk
                       THEN <<[name |-> "pub", val |-> ExportPub(k)]>> \o privPart
                       ELSE <<>>
      /\ residue' = residue \cup
                      (IF pubOk /\ expPriv /\ priv[k] # None THEN {priv[k]} ELSE {})
      /\ Returns("export", pubOk /\ cbOk)
      /\ UNCHANGED <<curve, priv, pub, hasPub, hasPriv, got, overread, gstat, gcurve, gsel, rng>>

(* wp_ecx_gen with context g: a new key of the context's descriptor;     *)
(* with a KEYPAIR selection makeKey fills it (mk: the key it makes, None *)
(* when it fails and the new key is freed).  The context is not consumed. *)
Gen(k, g, mk) ==
  LET keyPair == Selected(gsel[g], SelPriv) \/ Selected(gsel[g], SelPub)
  IN  /\ gstat[g] = "live" /\ curve[k] = None
      /\ IF keyPair /\ mk = None
           THEN /\ Returns("gen", FALSE)
                /\ UNCHANGED <<curve, priv, pub, hasPub, hasPriv>>
           ELSE /\ curve' = [curve EXCEPT ![k] = gcurve[g]]
                /\ priv' = IF keyPair THEN [priv EXCEPT ![k] = mk] ELSE priv
                /\ pub' = IF keyPair THEN [pub EXCEPT ![k] = PubOf(mk)] ELSE pub
                /\ hasPub' = IF keyPair THEN [hasPub EXCEPT ![k] = TRUE] ELSE hasPub
                /\ hasPriv' = IF keyPair THEN [hasPriv EXCEPT ![k] = TRUE] ELSE hasPriv
                /\ Returns("gen", TRUE)
      /\ UNCHANGED <<got, exported, residue, overread, gstat, gcurve, gsel, rng>>

(* wp_ecx_gen_set_params on a context of curve c: the group name, if     *)
(* there is one, must be a prefix of ctx->name.  Nothing is stored.       *)
NameAccepted(p, c) == p.got /\ (p.name = None \/ NamePrefix(p.name, CurveName[c]))

(* wc_InitRng on the zeroed RNG of a new context: it is set up when the *)
(* call succeeds (rngOk) and left as it was otherwise.                    *)
InitRng(rngOk) == IF rngOk THEN "live" ELSE "none"

(* wc_FreeRng: releases an RNG that wc_InitRng set up; on any other RNG  *)
(* it is a free of what was never initialised.                            *)
FreeRng(r) == IF r = "live" THEN "none" ELSE "freedUninit"

(* A variant of wp_ecx_gen_init's RNG handling that forgets wc_FreeRng   *)
(* when gen_set_params fails.                                             *)
RngAfterInitNoFree(rngOk, setOk) == InitRng(rngOk)

(* A variant that frees the RNG on every failure path (in the `if (!ok)` *)
(* block next to OPENSSL_free), the wc_InitRng failure included.          *)
RngAfterInitFreeOnFail(rngOk, setOk) ==
  IF ~(rngOk /\ setOk) THEN FreeRng(InitRng(rngOk)) ELSE InitRng(rngOk)

(* The RNG of the context wp_ecx_gen_init allocated: wc_InitRng, then,   *)
(* only when that succeeded and gen_set_params fails, wc_FreeRng.        *)
RngAfterInit(rngOk, setOk) ==
  IF rngOk /\ ~setOk THEN FreeRng(InitRng(rngOk)) ELSE InitRng(rngOk)

(* wp_ecx_gen_init for curve c (wp_<curve>_gen_init) into slot g, with   *)
(* selection sel, group name parameter p and the result of wc_InitRng.   *)
(* On failure the context is freed and NULL returned.                     *)
GenInit(g, c, sel, p, rngOk) ==
  LET alloc == AnyPossible(sel)
      ok    == alloc /\ rngOk /\ NameAccepted(p, c)
  IN  /\ gstat[g] = "none"
      /\ rng' = [rng EXCEPT ![g] = IF alloc THEN RngAfterInit(rngOk, NameAccepted(p, c))
                                                ELSE rng[g]]
      /\ gstat' = [gstat EXCEPT ![g] = IF ok THEN "live" ELSE "none"]
      /\ gcurve' = [gcurve EXCEPT ![g] = IF ok THEN c ELSE None]
      /\ gsel' = [gsel EXCEPT ![g] = IF ok THEN sel ELSE 0]
      /\ Returns("gen_init", ok)
      /\ UNCHANGED <<keyVars, got, exported, residue, overread>>

(* wp_ecx_gen_set_params called by the application on a live context. *)
GenSetParams(g, p) ==
  /\ gstat[g] = "live"
  /\ Returns("gen_set_params", NameAccepted(p, gcurve[g]))
  /\ UNCHANGED <<keyVars, got, exported, residue, overread, genVars>>

(* wp_ecx_gen_cleanup: wc_FreeRng and OPENSSL_free of the context. *)
GenCleanup(g) ==
  /\ gstat[g] = "live"
  /\ rng' = [rng EXCEPT ![g] = FreeRng(rng[g])]
  /\ gstat' = [gstat EXCEPT ![g] = "none"]
  /\ gcurve' = [gcurve EXCEPT ![g] = None]
  /\ gsel' = [gsel EXCEPT ![g] = 0]
  /\ Returns("gen_cleanup", TRUE)
  /\ UNCHANGED <<keyVars, got, exported, residue, overread>>

(* The selections callers pass: import 0..4, export 0..3, and gen_init's *)
(* KEYPAIR parts or ALL_PARAMETERS bits (with 0, which it refuses).      *)
GenSelections == {SelPriv, SelPub, SelPriv + SelPub, SelDomain}

Next ==
  \E k \in KeyIds :
    \/ \E c \in Curves : KeyNew(k, c)
    \/ KeyFree(k)
    \/ \E src \in KeyIds : Dup(k, src)
    \/ \E in \in PubIns \cup {None} : SetParams(k, in)
    \/ \E sel \in 0..4, pin \in Secrets \cup {None}, qin \in PubIns \cup {None},
          keepPub \in BOOLEAN : Import(k, sel, pin, qin, keepPub)
    \/ \E part \in {"encpub", "pub", "priv"}, buf \in BOOLEAN, cap \in BufSizes,
          rs \in BufSizes \cup {Unmodified} : GetParams(k, part, buf, cap, rs)
    \/ \E sel \in 0..3, alloc, cbOk \in BOOLEAN : Export(k, sel, alloc, cbOk)
    \/ \E g \in GenIds, mk \in Secrets \cup {None} : Gen(k, g, mk)
  \/ \E g \in GenIds :
    \/ \E c \in Curves, sel \in GenSelections \cup {0}, p \in GroupParams,
          rngOk \in BOOLEAN : GenInit(g, c, sel, p, rngOk)
    \/ \E p \in GroupParams : GenSetParams(g, p)
    \/ GenCleanup(g)

Spec == Init /\ [][Next]_vars

(***************************************************************************)
(* Properties.                                                            *)
(***************************************************************************)

(* wp_ecx_has answers from the flags alone; whatever sequence of new,    *)
(* dup, set_params, import, gen and free produced a key, a part that has  *)
(* reports present can be exported (a failed import or makeKey must not   *)
(* leave a flag set without the material).                                *)
HasImpliesExportable ==
  \A k \in KeyIds, sel \in {SelPriv, SelPub, SelPriv + SelPub} :
    (curve[k] # None /\ Has(k, sel)) =>
      /\ Selected(sel, SelPub) => ExportPub(k) # None
      /\ Selected(sel, SelPriv) => priv[k] # None

(* wp_ecx_key_types gives, for every selection, the schema naming        *)
(* exactly the selected parts: none, private, public or both (spec 4.3). *)
KeyTypesMatchSelection ==
  \A sel \in 0..7 :
    Schema(KeyTypesIdx(sel)) =
      {p \in {"priv", "pub"} : Selected(sel, IF p = "priv" THEN SelPriv ELSE SelPub)}

(* Spec section 7: an import that fails leaves the key in its prior      *)
(* state; the code commits the private key before trying the public one.  *)
ImportAllOrNothing ==
  [][(call' = "import" /\ ~ret') => UNCHANGED keyVars]_vars

(* Spec section 7 for every other call: a set_params, get_params,       *)
(* export, gen, gen_init or gen_set_params that fails leaves every key    *)
(* object and every generation context as it was; gen frees the key it   *)
(* was filling and gen_init the RNG and context it had set up.           *)
FailedCallLeavesNoTrace ==
  [][(~ret' /\ call' # "import") => UNCHANGED <<keyVars, genVars>>]_vars

(* Spec section 8, round trip: every parameter wp_ecx_export hands to    *)
(* the callback holds the key part its name says.                        *)
ExportedParamsNamedByContent ==
  \A i \in DOMAIN exported :
    exported[i].val \in (IF exported[i].name = "pub" THEN Points ELSE Secrets)

(* Spec section 7: the buffer wp_ecx_export allocates is zeroed before   *)
(* it is freed, on every path: no private key is left in freed memory.    *)
ExportBufferZeroed == residue = {}

(* wp_ecx_get_params writes no more bytes than the caller's buffer has. *)
GetWritesWithinBuffer == got.written <= got.cap

(* A get_params of a key part the key has, into a buffer of at least the *)
(* key's length whose return_size is left OSSL_PARAM_UNMODIFIED (as       *)
(* OSSL_PARAM_construct_octet_string leaves it), succeeds (spec 4.1: a    *)
(* public key not yet derived is derived and exported in one step).      *)
GetAnswersPresentPart ==
  (call = "get_params" /\ got.present /\ got.cap >= got.len /\ got.room = Unmodified)
    => ret

(* Spec 9, match reflexivity and generation validity: a key object that  *)
(* flags both parts, whatever sequence of calls produced it, matches      *)
(* itself on both parts, and an X25519 or X448 one passes wp_ecx_x_validate *)
(* of both parts.                                                         *)
FullKeySelfConsistent ==
  \A k \in KeyIds :
    (curve[k] # None /\ hasPub[k] /\ hasPriv[k]) =>
      /\ Match(k, k, SelPriv + SelPub)
      /\ Desc[curve[k]].dh => XValidate(k, SelPriv + SelPub)

(* Spec 4.5 and the resource rule of section 6, on the RNG of a          *)
(* generation context: wc_FreeRng is only ever given an RNG that          *)
(* wc_InitRng set up (not on the path where wc_InitRng itself failed),    *)
(* every initialised RNG belongs to a live context (gen_init frees it     *)
(* when gen_set_params fails, gen_cleanup with the context) and every     *)
(* live context has one to generate with.                                  *)
RngOwnedByLiveCtx ==
  \A g \in GenIds :
    /\ rng[g] # "freedUninit"
    /\ rng[g] = "live" <=> gstat[g] = "live"

(* The public key adapters read no byte past the input they are given. *)
PublicInputReadWithinBounds == ~overread

=============================================================================
