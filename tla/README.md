# TLA+ models of the wolfProvider ECX key manager

This directory holds TLA+ models of `src/src/wp_ecx_kmgmt.c`. That file is the
key manager of wolfProvider, the OpenSSL 3 provider backed by wolfSSL, for the
curves X25519, X448, Ed25519 and Ed448. It contains:

- the TLC configurations that model-check the models on small instances;
- TLAPS proofs of the main safety properties, for every value of the constants;
- `PROJECT.json`, which maps every modelled definition to the source lines it
  translates.

## The system

`wp_ecx_kmgmt.c` (2193 lines) has these parts:

| Part | Code | What it does |
|---|---|---|
| Curve descriptor table | `wp_EcxData`, `x25519Data` … `ed448Data`, per-curve adapters (1229-1613) | For each curve: its sizes and its wolfSSL functions (init, free, make, import/export public and private, check). |
| Key object | `struct wp_Ecx` (109-140) | The wolfSSL key, its descriptor, `refCnt` under `mutex`, and the flags `hasPub`/`hasPriv`. |
| Lifecycle | `wp_ecx_new`, `wp_ecx_up_ref`, `wp_ecx_free`, `wp_ecx_dup`, `wp_ecx_load` (177-334) | Creation, reference-counted sharing between threads, destruction, copy, and taking a reference handed over by a decoder. |
| Parameter I/O | `set_params`, `get_params`, `import`, `export`, `key_types` (342-1025) | Moving key material in and out through `OSSL_PARAM` lists. |
| Equality and validation | `has`, `match`, `x_validate`, `ed_validate` (552-787) | Reading the flags and the exported material. |
| Generation context | `gen_init`, `gen_set_params`, `gen`, `gen_cleanup` (1043-1175) | Key-pair generation with an RNG, for a curve named at init. |
| Decode pipeline | `wp_ecx_dec_decode` and the per-curve decoders (1624-2193) | A key built from DER and handed to OpenSSL through a callback. |
| Dispatch tables | `IMPLEMENT_ECX_KEYMGMT_DISPATCH`, decoder tables | Constant data. |

How the parts interact:

- A key object is created by `new`, `dup`, `gen` or the decoder.
- It is shared by `up_ref`: signing, verification and key exchange take references.
- It is released by `free`: the release that brings `refCnt` to zero destroys it.
- The only field several threads may touch is `refCnt`, which is guarded by the mutex.
- Every other operation assumes the caller has exclusive use of the key (spec §5).

## Modules

### `EcxRefCnt`: lifecycle of one shared key object

This module models `wp_ecx_new` (218-257), `wp_ecx_up_ref` (177-197) and
`wp_ecx_free` (265-289) called by several threads on one key object.

The state mirrors the code:

- `refCnt` and `mutex` are the fields of `struct wp_Ecx`.
- `obj` records whether the object exists: `"none"`, `"live"`, `"failed"` (new failed) or `"freed"`.
- `frees` counts the executions of the destruction branch.
- `cnt` is wp_ecx_free's local variable.
- `pc` says where each thread is inside its current call.

A call is split into atomic steps at every point where another thread may run:

- **up_ref**:
  - `UpRefCall`: the call is made.
  - `UpRefLock`: `wc_LockMutex` succeeds. It blocks while another thread holds the mutex.
  - `UpRefLockFail`: `rc < 0`, so the call returns 0.
  - `UpRefInc`: `refCnt++` and the unlock.
- **free**:
  - `FreeCall`, `FreeLock`.
  - `FreeDec`: `cnt = --refCnt` and the unlock.
  - `FreeCheck`: the `cnt == 0` test and the destruction.
  - When the lock fails, the code still executes `cnt = --ecx->refCnt` (line 273), without the mutex. That is a data race. Its possible outcomes are modelled by splitting it into `FreeLoad` and `FreeStore`, so that another thread's update can fall between the read and the write.
- **new**: `wp_ecx_new` touches nothing shared before it returns, so it is one step. `NewOk` gives `refCnt = 1` and the creator's reference. `NewFail` covers init or mutex failure, where nobody gets a reference.

The callers' references are ghost state:

- Each successful `new` or `up_ref` hands out a numbered token to a thread (`tok`, `owner`).
- A `free` call gives one up.
- The thread receiving an up_ref's reference (`upTo`) may differ from the caller. This models one thread sharing the key with another.

Constants:

- `Threads`.
- `MaxRefs`: a bound on the tokens ever handed out. It caps the otherwise unbounded number of up_ref calls.
- `LockFails`: whether `wc_LockMutex` may fail.
- `NoThread`.

`Done` is a stutter step. It is allowed once every thread is idle and holds no reference, so deadlock checking stays on.

**Fairness.** `WF_vars(InCall(t))` for each thread. Once a call is made it keeps running: the scheduler runs any thread that is not blocked, and the only thing a call waits for is the mutex. The steps that start calls are not fair, because a caller may keep its reference for ever.

### `EcxShared`: what the life cycle promises

`EcxShared` is the abstract specification of a shared key object (spec §4.2, §5).
It has no count, no mutex and no steps inside a call:

- `sobj` is the object: `"none"`, `"live"`, `"failed"` or `"freed"`.
- `ref[k]` is each reference: `"unborn"`, `"held"` or `"gone"`.
- `holder[k]` is the thread a reference belongs to.

Its actions are atomic: `Create`, `CreateFail`, `Share` (a holder makes a
reference for another thread), `Release`, and `Destroy`. `Destroy` is allowed
only on a live object that nobody holds.

`EcxRefCnt` defines `Shared == INSTANCE EcxShared WITH sobj <- obj, ref <-
SharedRef, holder <- owner`. `SharedRef` maps the token state `"releasing"` to
`"held"`: a reference being given up is still held until the decrement. Under
this mapping:

- `NewOk` is `Create`.
- `UpRefInc` is `Share`.
- `FreeDec` is `Release`.
- The `FreeCheck` that destroys the object is `Destroy`.
- Every other step is a stutter.

`ImplementsShared` is `Shared!SSpec`, checked by the `ecx_refcnt` run and proved
by `Refinement`.

### `EcxRefCntProofs`: the TLAPS proofs for `EcxRefCnt`

See "What is proved".

### `EcxKey`: the key material and the calls that move it

This module models the calls that create, fill, read and release key objects. Each call on one key is one step, because the code locks only the reference count and the caller has exclusive use of a key (spec §5).

The state, per key object (`KeyIds`):

- `curve`: the descriptor (`ecx->data`), or `None` when the key object does not exist.
- `priv`: the private key held in `ecx->key`.
- `pub`: the public key stored in `ecx->key`. `None` means none is stored, and an export derives it from `priv` (`ExportPub`, which is `wp_ed25519_export_public` and wolfSSL's X25519 export).
- `hasPub`, `hasPriv`: the flags.

Abstractions:

- A private key is a model value of `Secrets`, and its public key is `PubOf(s)`.
- A public key given as a parameter is a point with a length (`PubIns`).
- `Desc` holds each curve's `bits` and `len` from `x25519Data` … `ed448Data`.
- The wolfSSL functions behind the descriptors are outside this repository and are modelled by their contracts (`PubAccepted`, `CheckKey`): an import succeeds on input of the curve's length, an export needs room for the key, and `make_public` wants a buffer size equal to the key length.
- Whether wolfSSL's private import keeps a public key already stored is left open (`keepPub`).

Each history variable records what the last call did. No action reads them:

- `call` and `ret`.
- `got`: buffer size, bytes written, `return_size`, key length, and whether the part is flagged.
- `exported`: the parameter list handed to the export callback.
- `residue`: private keys left in freed memory.
- `overread`: an input was read past its end.

The actions:

| Action | Code |
|---|---|
| `KeyNew` | `wp_ecx_new`. Allocation failure is in `EcxRefCnt`. |
| `KeyFree` | `wp_ecx_free` of the last reference. |
| `Dup` | `wp_ecx_dup`, which copies everything whatever the selection. |
| `SetParams` | `wp_ecx_set_params` with an encoded public key, or without one. |
| `Import` | `wp_ecx_import`, whole: the selection test, the private import and both flags, the public import, and the final "nothing given" test. |
| `GetParams` | `wp_ecx_get_params` for one key-part parameter, with `wp_ecx_get_params_enc_pub_key` / `_priv_key`: `outLen` starts as `return_size`, and a NULL `data` only reports the length. |
| `Export` | `wp_ecx_export` with `export_keypair`: allocation, the public key, the unchecked private export under the name `PUB_KEY`, the callback, and `OPENSSL_clear_free(data, len)`. |
| `Gen` | `wp_ecx_gen` with a live context: a key of the context's descriptor, filled by makeKey when the context's selection asks for a key pair, and freed when makeKey fails. |
| `GenInit` | `wp_ecx_gen_init` for one curve into a free context slot: the `WP_ECX_POSSIBLE_SELECTIONS` test, `wc_InitRng`, the call of `gen_set_params` and its failure path (`wc_FreeRng`, then the context is freed), and storing the selection and descriptor. |
| `GenSetParams` | `wp_ecx_gen_set_params` called by the application: it only answers, and stores nothing. |
| `GenCleanup` | `wp_ecx_gen_cleanup`: `wc_FreeRng` and the free of the context. |

The generation contexts (`GenIds`) have a state of their own:

- `gstat`: whether the slot holds a live context.
- `gcurve`: `ctx->data`.
- `gsel`: `ctx->selection`.
- `rng`: its `WC_RNG`: `"none"` (zeroed or freed), `"live"` (set up by `wc_InitRng`), or `"freedUninit"` when `wc_FreeRng` was given an RNG that `wc_InitRng` never set up. `InitRng` and `FreeRng` model the two wolfSSL calls. `RngAfterInit` composes them the way `gen_init` orders them (lines 1057-1067): `wc_InitRng`, then `wc_FreeRng` only on the path where `wc_InitRng` succeeded and `gen_set_params` failed. `GenCleanup` applies `FreeRng` to the context's RNG.

The group-name test is modelled by what it does. A name is a sequence of name
pieces (`CurveName`: `"X25519"` is `<<"X", "25519">>`). `XSTRNCMP(name,
ctx->name, XSTRLEN(name)) == 0` is `NamePrefix`. The names a caller may pass
(`GroupNames`) are the curve names and their prefixes, the empty name
included. `wp_params_get_utf8_string_ptr` is modelled by its contract
(`GroupParams`): the parameter may be absent, or not a UTF-8 string. `gen_init`
runs only while the provider is running (`wolfssl_prov_is_running`), which the
model takes as given.

`has`, `match`, `x_validate`, `ed_validate` and `key_types` change nothing, so
they are operators:

- `Has`.
- `Match`, with `MatchPrivKey` and `MatchPubKey`.
- `XValidate`, with the contract `CheckPub` of wolfSSL's `checkPub`.
- `ValidateEd`.
- `KeyTypesIdx`, with the table `KeyParams`.

`OSSL_PARAM_UNMODIFIED` truncated to `word32` is `Unmodified`. It stands for a value above every key and buffer size, because only those comparisons matter.

### `EcxKeyProofs`: the TLAPS proofs for `EcxKey`

See "What is proved".

### `EcxDecoder`: the decode pipeline and who owns the decoded key

The module models a sequence of up to `MaxDecodes` calls of `wp_ecx_dec_decode`. Each call builds object number `n`. Per object, the state is:

- `status`: not yet created, live or freed.
- `frees`: how many times `wp_ecx_free` ran on it.
- `holders`: who holds a pointer that will be freed. `"dec"` is the decoder's local `ecx`; `"app"` is the caller who took it with `wp_ecx_load`.
- The key material and flags the decode left.
- The container `src` it was decoded from.
- The call's `outcome` and return value `retv`.

`stage` and `cbRet` track the one call in progress. Calls are sequential: a decoder context is used by one thread.

The input is a container record: a curve, a format (`SPKI` or `PKI`), a secret, and for PKI whether it carries the public key. `Junk` is a container no decoder recognises. The DER framing is abstracted: what the wolfSSL decoders accept (`Recognised`) is modelled from their contract. What the per-curve adapters leave in the key is modelled from the source:

- `wp_x25519_pub_deocde` reimports the last 32 bytes as the public key.
- `wp_x25519_priv_deocde` reimports the last 32 bytes as the private key (`DecodedPriv`). When the container carries the public key, those bytes are the public key (`Misread(s)`).

| Action | Code |
|---|---|
| `DecDecode` | `wp_ecx_dec_decode` up to the callback: `wp_<curve>_new` (may fail), `wp_read_der_bio` (may fail), the decode, the flags, `OPENSSL_clear_free`, and the failure path that frees the key and returns 1 for "not a match". |
| `CbLoad(ok)` | The data callback takes the key with `wp_ecx_load` and succeeds, or fails and frees what it took. `wp_ecx_load` clears only `wp_ecx_dec_send_params`' copy of the pointer. |
| `CbExport(ok)` | The callback exports the key to another key manager through `wp_ecx_export_object`, which takes nothing. |
| `CbReject` | The callback returns 0 without taking the key. |
| `DecFinish` | `wp_ecx_dec_decode` after the callback: free on failure, return. |
| `AppFree(o)` | The caller frees a key it took. |
| `Done` | All calls made and keys released; the system may stop here. |

### `EcxDecoderProofs`: the TLAPS proofs for `EcxDecoder`

See "What is proved".

## Runs

| Run | Configuration | Result | Shows |
|---|---|---|---|
| `ecx_refcnt` | 3 threads, `MaxRefs = 4`, lock never fails, `FairSpec` | pass (346,811 states) | `RefCntMatchesReferences`, `DestroyedOnlyWhenUnreferenced`, `DroppedKeyIsFreed`, `CallsReturn`, `MutexHeldInCriticalSection`, `ImplementsShared`, `CountUpdatedUnderMutex` |
| `ecx_refcnt_lockfail_mutex` | 3 threads, `MaxRefs = 3`, lock may fail | pass (28,889 states) | `MutexHeldInCriticalSection` |
| `ecx_refcnt_lockfail` | 3 threads, `MaxRefs = 3`, lock may fail | violation | `DestroyedOnlyWhenUnreferenced` fails |
| `ecx_key` | 2 keys, 1 generation context, X25519 and Ed25519, 2 secrets, input lengths {16, 32}, buffers {16, 32} | pass (3,249 states of the view) | `HasImpliesExportable`, `RngOwnedByLiveCtx`, `FullKeySelfConsistent`, `FailedCallLeavesNoTrace` |
| `ecx_key_import_partial` | same | violation | `ImportAllOrNothing` fails (line 835) |
| `ecx_key_export_names` | same | violation | `ExportedParamsNamedByContent` fails (line 968) |
| `ecx_key_get_overflow` | same | violation | `GetWritesWithinBuffer` fails (line 448) |
| `ecx_key_get_derive` | same | violation | `GetAnswersPresentPart` fails (line 1405) |
| `ecx_key_overread` | same | violation | `PublicInputReadWithinBounds` fails (line 1235) |
| `ecx_decoder` | decoders X25519 and Ed25519 in SPKI and PKI, 1 secret, `MaxDecodes = 3` | pass (230,812 states) | `DecodedFlagsBackedByMaterial`, `AppHoldsLiveKey` |
| `ecx_decoder_double_free` | same | violation | `NoDoubleFree` fails (line 1802) |
| `ecx_decoder_leak` | same | violation | `NoLeak` fails (line 1801) |

The properties:

- **`RefCntMatchesReferences`**: while the key exists, `refCnt` equals the references the callers own. A reference being given up counts until its decrement has happened.
- **`DestroyedOnlyWhenUnreferenced`**: the destruction branch runs at most once. When it has run, nobody owns a reference, and no thread is inside a call, except threads past their decrement that are only testing their own `cnt`.
- **`DroppedKeyIsFreed`**: once every reference is given up, the key is destroyed (no leak).
- **`CallsReturn`**: every call of up_ref or free returns.
- **`MutexHeldInCriticalSection`**: a thread holds the mutex exactly between a successful `wc_LockMutex` and its `wc_UnLockMutex`. This is the property that the `rc` tests of both functions protect.
- **`CountUpdatedUnderMutex`** (action property): after `new` sets it to 1, `refCnt` changes only in one step of the thread that holds the mutex, the step that releases it, and by +1 or -1. The increments and decrements are serialised read-modify-writes (spec §4.2, §5). With `LockFails = TRUE` the unlocked store of `wp_ecx_free` breaks it. That is the same race as the finding below.
- **`ImplementsShared`**: every behaviour of `EcxRefCnt` is a behaviour of `EcxShared` under the refinement mapping. The object is created once, references are made only by holders, and it is destroyed once, when nobody holds it.

The `EcxKey` properties:

- **`HasImpliesExportable`**: whatever sequence of calls made a key, a part `has` reports can be exported. A flag set on a failed path would break it.
- **`FullKeySelfConsistent`** (spec §9, match reflexivity and generation validity): a key that flags both parts matches itself on both parts, and an X25519 one passes `x_validate` of both parts. The public key is exported, and derived when not stored, so a key imported from a private key alone must still match itself.
- **`RngOwnedByLiveCtx`** (spec §4.5 and §6): `wc_FreeRng` is only ever given an RNG that `wc_InitRng` set up, and an initialised RNG exists exactly while its context is live. `gen_init` has three failure paths. It must free the RNG on the `gen_set_params` one, or the RNG leaks (mutant `RngAfterInitNoFree`). It must not free it on the `wc_InitRng` one (mutant `RngAfterInitFreeOnFail`, which frees in the `if (!ok)` block).
- **`FailedCallLeavesNoTrace`** (action property, spec §7): a `set_params`, `get_params`, `export`, `gen`, `gen_init` or `gen_set_params` that fails leaves every key object and every generation context as it was. A failed `gen` frees the key it was filling. A failed `gen_init` frees the RNG and resets the slot. Import is left out, because it breaks the rule (the finding below).
- **`ImportAllOrNothing`** (action property): an import that returns 0 leaves every key unchanged (spec §7).
- **`ExportedParamsNamedByContent`**: each parameter the export callback receives holds the part its name says (spec §8, round trip).
- **`ExportBufferZeroed`**: no private key is left in memory the export frees (spec §7). No run checks it on its own. It fails in one export of a key with a private key, and its cause (line 1011: `len` does not count the private key) is the same `export_keypair` code as the `ExportedParamsNamedByContent` finding.
- **`GetWritesWithinBuffer`**: `get_params` writes no more than the caller's `data_size`.
- **`GetAnswersPresentPart`**: `get_params` of a part the key has, into a buffer large enough, with `return_size` as `OSSL_PARAM_construct_octet_string` leaves it, succeeds.
- **`PublicInputReadWithinBounds`**: the public key adapters read nothing past their input.

The `EcxDecoder` properties:

- **`DecodedFlagsBackedByMaterial`**: a decoded key has a private key when it says so, and a public key or a private key to derive it from when it says so.
- **`AppHoldsLiveKey`**: a key the application took through `wp_ecx_load` in a successful callback stays alive until the application frees it. `wp_ecx_load` hands the pointer over without taking a reference. So the free after the callback (line 1803) must run only when the callback failed, and no later call may free the key. It takes a decode, a load and a return to break (mutant `DecFinishAlwaysFree`).
- **`NoDoubleFree`**: no key is freed twice (spec §4.2).
- **`NoLeak`**: between calls, every live key is held by someone who will free it (spec §7).
- **`DecodedKeyIsEncoded`**: a decoded private key is the one in the container (spec §4.6 step 4). No run checks it: the spec and the source's TODO already flag the defect, and TLC finds it in a single decode of an X25519 PKI container that carries the public key.

The `ecx_key` run uses `VIEW MCView`, which is the key variables and the generation contexts. The history variables are written by the actions and read by none, so two states with the same key and context variables have the same futures. The properties of this run read only those variables, so the view loses nothing. The violation runs do not use the view.

**Why the bounds are enough.** Three threads are the fewest that show the lock-failure bug: one decrements without the lock, a second's up_ref is lost, and a third still holds the key when it is freed. `MaxRefs = 4` lets all three threads hold a reference while an up_ref is in progress. The lock-failure runs use `MaxRefs = 3`, which already contains the violating scenario.

For `EcxKey`, the bounds are chosen so that each interesting case occurs:

- Two key objects let `Dup` copy one into the other.
- One DH curve (X25519, which has the adapter that reads `in[31]`) and one signature curve (Ed25519, with `checkKey` and the derived public export).
- Two secrets let a public key and a private key disagree.
- The lengths 16 and 32 give a public key that is well formed and one that is too short.
- The buffer sizes 16 and 32 give a buffer that is too small and one that is exact.

X448 and Ed448 differ from these only in `len`.

One generation context slot is enough: contexts share nothing with each
other. With two curves, `GroupNames` holds the empty name, `"X"`, `"ED"` and
both full names. Every branch of `gen_init` is therefore taken: no possible
selection, RNG failure, a name of the other curve refused, and a prefix
accepted.

**The `EcxKey` violations (findings).** TLC finds each in three or four steps:

- `new`, then `import` of a private key and a 16-byte public key: the import fails with the private key and both flags kept.
- `new`, `set_params`, then `export` with the private key selected: the second parameter is named `PUB_KEY` and holds uninitialised bytes. With a private key it holds the private key.
- `new`, `set_params`, `get_params` with a 16-byte buffer and `return_size = OSSL_PARAM_UNMODIFIED`: 32 bytes are written.
- `new` Ed25519, `import` of a private key, `get_params` of the public key into a 32-byte buffer: it fails, because `make_public` receives `OSSL_PARAM_UNMODIFIED` as the size.
- `new` X25519, `set_params` with a 16-byte key: `in[31]` is read.

**The `EcxDecoder` violations (findings).**

- Double free: a PKI decode, then the callback loads the key and fails. The callback frees the key, and `wp_ecx_dec_decode` frees it again at line 1802, because `wp_ecx_load` cleared only `wp_ecx_dec_send_params`' copy of `ecx`.
- Leak: a decode whose callback succeeds through `wp_ecx_export_object`. The function frees `ecx` only when `ok` is 0 (line 1801), and nobody else holds it.
- Misread (known, no run): an X25519 PKI container with the public key attached. The key's private key is the public key bytes (line 1944, "TODO: not always last bytes!").

Three calls are enough: each violation needs one, and three let a not-a-match call, a failed call and a good call share a run. One secret is enough, because the properties compare a key with its own container, not with other keys.

**The violation (a finding).** With `LockFails = TRUE`, TLC finds this trace:

1. Thread t2's `wp_ecx_free` fails to lock and loads `refCnt = 2`.
2. Thread t1's up_ref raises the count to 3.
3. t2 stores 1, so t1's increment is lost.
4. t1's free takes the count to 0 and destroys the key while t3 still holds a reference.

The spec says every count mutation is serialised (§4.2, §5). The code does not serialise the decrement when the lock fails. `wp_ecx_up_ref` handles the same failure correctly: it leaves the count alone and returns 0.

**Mutants.** Each property of a passing run is checked against a variant of one action that a plausible bug would produce. Each variant is defined next to the action it replaces:

| Variant | Bug | Property that catches it |
|---|---|---|
| `UpRefIncNoIncrement` | forgets `refCnt++` | `RefCntMatchesReferences` |
| `FreeCheckShared` | tests the shared `refCnt` instead of the local `cnt` | `DestroyedOnlyWhenUnreferenced` |
| `FreeDecPostDec` | `cnt = refCnt--` | `DroppedKeyIsFreed` |
| `UpRefIncNoUnlock` | forgets the unlock | `CallsReturn` |
| `UpRefLockNoWait` | takes the mutex without waiting for its holder | `MutexHeldInCriticalSection` (`ecx_refcnt`) |
| `FreeStoreUnlocks` | unlocks without testing `rc` | `MutexHeldInCriticalSection` (`ecx_refcnt_lockfail_mutex`) |
| `SetParamsNoRcCheck` | sets `hasPub` without testing importPub's result | `HasImpliesExportable` |
| `DecodedFlagsSwapped` | swaps the SPKI and PKI format tests | `DecodedFlagsBackedByMaterial` |
| `DecFinishAlwaysFree` | frees the key after every callback, as if the callback had taken a reference | `AppHoldsLiveKey` |
| `UpRefIncNoIncrement` | forgets `refCnt++` | `ImplementsShared` (the next free destroys a shared object) |
| `RngAfterInitNoFree` | forgets `wc_FreeRng` when `gen_set_params` fails in `gen_init` | `RngOwnedByLiveCtx` |
| `RngAfterInitFreeOnFail` | calls `wc_FreeRng` on every failure path, including when `wc_InitRng` failed | `RngOwnedByLiveCtx` |
| `MatchPubKeyStored` | compares the stored public keys instead of exporting them | `FullKeySelfConsistent` |
| `SetParamsNoRcCheck` | sets `hasPub` without testing importPub's result | `FailedCallLeavesNoTrace` (a rejected key still sets the flag) |
| `UpRefIncNoUnlock` | forgets the unlock after `refCnt++` | `CountUpdatedUnderMutex` (the count changes in a step that does not release the mutex) |

## What is proved

`EcxRefCntProofs` proves the following, for every set of threads, every `MaxRefs` and both values of `LockFails` unless stated.

**Type correctness.** `TypeCorrect`: `Spec => []TypeOK`. `TypeOK` is inductive by itself.

**The lock discipline.** `MutexDiscipline`: `Spec => []MutexHeldInCriticalSection`. It holds whether or not the lock may fail.

- The invariant, conjoined with `TypeOK`, is inductive.
- Taking the free mutex enters the critical section (lemma `EnterStep`). No thread was inside, because `mutex = NoThread`.
- The holder's unlock leaves it (lemma `LeaveStep`).
- Every other step moves a thread between two places outside the critical section, and leaves the mutex alone (lemma `OutsideStep`).

**Reference counting.** `RefCntCorrect` proves `Spec => []RefCntMatchesReferences`, and `FreedOnlyWhenUnreferenced` proves `Spec => []DestroyedOnlyWhenUnreferenced`. Both assume `~LockFails`, because with lock failures both properties are false (the finding above).

Neither property is inductive. The strengthening `IInv` adds:

- **`NoRace`**: nobody is on the unlocked path.
- **`BeforeNew`**: before `new` succeeds there are no references and no calls. While the key is live, it has not been freed.
- **`Fresh`**: token numbers from `nextTok` up are unused. Each up_ref in progress has a distinct reserved, unused number, and its caller holds a reference.
- **`Releasing`**: a token being given up belongs to exactly one thread inside `free`, which names it in `relTok`.
- **`LastDec`**: a thread that decremented to 0 is the only one. At that point no reference is live and the key still exists.
- **`AfterFree`**: after the destruction, no reference is live, no thread is inside a call, and a thread still at its `cnt` test has `cnt # 0`.

With `IInv`:

- `RefCntMatchesReferences` follows from cardinality facts: `FS_AddElement` for up_ref and `FS_RemoveElement` for free.
- `DestroyedOnlyWhenUnreferenced` follows from `LastDec` and `AfterFree`. Only the thread whose decrement reached 0 can destroy the key, and at that moment `Live = {}`. By `NoLiveNoCall`, no thread can then be inside up_ref or before its decrement in free.

`IInv` was first checked with TLC as an invariant of the `ecx_refcnt` instance. The proof of `IInv /\ [Next]_vars => IInv'` has one lemma per action (`StepNewOk`, `StepUpRefCall`, `StepUpRefInc`, `StepFreeCall`, `StepFreeDec`, `StepFreeCheck`). Each lemma has one step per conjunct the action can disturb. `StepQuiet` covers the steps that change no count, and `StepNoLockFail` shows that the lock-failure steps cannot occur.

**The key model.** `EcxKeyProofs` proves these for every set of keys, curves, secrets, lengths and sizes:

- **`KeyInvariant`** proves `Spec => []KInv`.
- **`HasExportable`** proves `Spec => []HasImpliesExportable`.

`KInv` is `TypeOK` plus three conjuncts, and it is inductive:

- an absent key object holds nothing;
- `hasPriv` implies a private key;
- `hasPub` implies a stored public key, or a private key to derive it from.

The first conjunct is needed because `KeyNew` turns an absent object into a present one without touching the flags.

There is one lemma per action (`StepKeyNew` … `StepGen`). `StepGetParams` and `StepExport` also show that the history variables keep their types. `HasImpliesExportable` follows from `KInv` and the selection bits (`SelectionBits`).

The assumptions are:

- `CurvesAssumption`: the curves are among the four.
- `SizesAssumption`: sizes are naturals.
- `NoneAssumption`: `None` is no curve, secret or point.

`KInv` also states that a live generation context has a curve, and
`RngOwnedByLiveCtx`. The first of these is needed for `Gen`, which gives the new
key the context's curve. `StepGenInit`, `StepGenSetParams` and `StepGenCleanup`
cover the context actions. `StepGenInit` shows that the RNG `RngAfterInit` leaves in an idle slot is `"live"` exactly when `gen_init` succeeds. `StepGenCleanup` shows that `FreeRng` is given a live RNG. From `KInv` follow:

- **`RngOwned`**: `Spec => []RngOwnedByLiveCtx`.
- **`FullKeyChecks`**: `Spec => []FullKeySelfConsistent`. A key flagging both parts has a private key, so `ExportPub` derives a point and both matches and `checkPub` succeed.

**`key_types`.** `KeyTypesCorrect` proves `KeyTypesMatchSelection`. For every selection, the schema at the index `wp_ecx_key_types` computes names exactly the selected parts. The proof has one case per combination of the private and public bits. The lemma `Schemas` reads the four entries of the table. This is a statement about constants, so it is proved rather than model-checked.

**The refinement.** `Refinement` in `EcxRefCntProofs` proves that, assuming
`~LockFails`, `Spec => ImplementsShared`. The argument has four parts:

- `RefineInit`: the initial state maps to `Shared!SInit`.
- `RefineNext`: under `IInv`, each step maps to an `EcxShared` step or a stutter.
- For the `UpRefInc` step, `HeldIsLive` and `LiveMeansLiveObject` give the holder that `Share` requires. The caller's reference is held.
- For the destroying `FreeCheck` step, `LastDec` gives `Destroy`'s guard: no reference is held.

The lemma `SharedRefUpdate` shows that `SharedRef` changes the way `tok` does. The
lock-failure steps cannot occur (`StepNoLockFail`).

**The decoder.** `EcxDecoderProofs` proves `DecoderFlagsBacked` (`Spec =>
[]DecodedFlagsBackedByMaterial`) and `AppKeyAlive` (`Spec =>
[]AppHoldsLiveKey`) for every set of curves and secrets and every `MaxDecodes`.
Neither property is inductive on its own. The strengthening `DInv` is `TypeOK`
and `AppHoldsLiveKey` plus four conjuncts:

- **`FreshObjs`**: objects above `n` are untouched. The next call's object is empty and pending.
- **`CurrentCall`**: while a call is in its callback or returning, object `n` exists and has no outcome yet.
- **`FlagsBacked`**: the flag/material link, for every object and not only live ones.
- **`CallbackHolds`**: in the callback, object `n` is live and held by the decoder alone. After a failed callback the application does not hold it. That is why the free on `DecFinish`'s failure path never frees a key the application kept.

`DInv` was checked with TLC on the `ecx_decoder` instance before it was proved.
There is one lemma per action:

- `DecDecodeDInv`, with a case for each branch of `wp_ecx_dec_decode`;
- `CallbackDInv`;
- `DecFinishDInv`;
- `AppFreeDInv`.

The assumption `DecNoneAssumption` (`None` is no key, public key or misread key)
is what makes a decoded flag's material non-null.

**The group-name test.** `GroupNameTest` in `EcxKeyProofs` characterises the
prefix test of `gen_set_params` for every set of curves. A context of curve `c`
accepts a name made from curve `d`'s name in three cases:

- the empty name, always;
- the family prefix (`"X"` or `"ED"`), when `c` and `d` share it;
- the full name, only when `d = c`.

So the full names of the four curves are never confused, and the shorter names
are (spec §4.5 asks for an exact match). The proof reads the three prefixes of a
two-piece name with `SubSeqEmpty`, `SubSeqProperties`, `SeqEqual` and `SubSeqFull`
of `SequenceTheorems` (lemma `PairPrefixes`). It then has one lemma per prefix
length (`EmptyNamePrefix`, `OneNamePrefix`, `TwoNamePrefix`). The assumption
`GroupNoneAssumption` (no group name is `None`) separates a present name from an
absent parameter.

**Failed calls.** `FailedCallsLeaveNoTrace` in `EcxKeyProofs` proves `Spec =>
FailedCallLeavesNoTrace`. The action property is not a consequence of `KInv`
alone. A failed `gen_init` writes `None`, 0 and `"none"` into its slot. That
leaves the slot unchanged only if an idle slot already holds exactly those
values. The proof therefore carries a second invariant:

- **`IdleCtxEmpty`**: an idle slot has no descriptor and no selection.

`IdleCtxEmpty` is inductive given `KInv` (lemma `NextIdleCtxEmpty`). Its RNG is
`"none"` by `RngOwnedByLiveCtx`. The lemmas are:

- `FailedGenInit`: a failed `gen_init` leaves the slot unchanged.
- `NextFailStep`: every step satisfies the constrained step `FailStep`, or
  stutters. There is one case per action.

**Serialised count updates.** `CountSerialised` in `EcxRefCntProofs` proves `Spec
=> CountUpdatedUnderMutex`, assuming `~LockFails`. The argument:

- `IInv` rules out the unlocked `FreeLoad`/`FreeStore` path (`StepNoLockFail`).
- `MInv` says that a thread in `up_inc` or `free_dec` holds the mutex.
- The lemma `HolderUpdate` turns the holder's increment or decrement into the constrained step.

The theorem is stated for `~LockFails` only, because TLC finds it violated otherwise.

**Left to TLC only.**

- The liveness properties `DroppedKeyIsFreed` and `CallsReturn`: TLAPS does not handle fairness or `ENABLED`.
- The violations: `LockFails = TRUE`, the five `EcxKey` findings and the three `EcxDecoder` findings.

## What is not modelled, and the plan

| Part | Status |
|---|---|
| Descriptor table | Partly modelled. `Desc` holds each curve's `bits` and `len`. The per-curve adapters this file defines are in `EcxKey` (`ReadsPastInput`, `ExportPub`) and `EcxDecoder` (`DecodedPriv`, `DecodedPub`). The wolfSSL functions behind the table are outside this repository, and are modelled by their contracts. |
| Dispatch tables, settable/gettable tables | Not modelled. They are constant data with no state to explore. |
| Group-name prefix test (line 1124) | Modelled as the code does it (`NameAccepted`). Spec §4.5 requires an exact match, and no run states that rule. The divergence is recorded as a hazard: a context is created for the empty name or for `"X"`. |
| X25519 public keys with the top bit set | Still to add to `EcxKey`. |
| X448 and Ed448 decoders | Still to add. They differ from the X25519 and Ed25519 decoders only in `len`. |

Two hazards have no property, because one would only restate a definition:

- `ed_validate`'s KEYPAIR check is wolfSSL's `wc_ed25519_check_key`, which is outside this repository. It is modelled by its contract (`CheckKey`), so a property about validated pairs would repeat that contract.
- The return of 1 for input no decoder recognises (line 1805) is a literal assignment in `DecDecode`'s failure branch (`FailReturn`).

The `SINGLE_THREADED`/`WP_SINGLE_THREADED` mismatch at line 234 is a build-configuration issue. The models describe the multi-threaded build.
