# TLA+ model of the DLMS/COSEM ACSE association (`src/src/csm_association.c`)

This directory models the server side of the DLMS/COSEM association control
(ACSE) in cosemlib and checks it with TLC. The code is one source file,
`src/src/csm_association.c`. It decodes an AARQ, decides whether to grant the
association, encodes the AARE, and handles RLRQ/RLRE.

## 1. Inventory

### Components and their state

| Component | Code | State kept |
|---|---|---|
| OID matcher | `acse_oid_decoder`, `acse_oid_encoder`, `cOidHeader` | none; it writes `ref` or `auth_level` |
| Field codec tables | `aarq_codec_chain`, `aare_codec_chain` | constant tables of (tag, requirement, codec) |
| AARQ decode engine | `csm_asso_decoder` plus one decoder per field | the per-association record `csm_asso_state`, filled field by field |
| Nested InitiateRequest/Response codec | `acse_user_info_decoder` and `_encoder` | `proposed_conformance`, `client_max_receive_pdu_size` |
| Authorization | `csm_asso_is_granted` | `state_cf`, `result` |
| AARE encode engine | `csm_asso_encoder` plus the field encoders | the packet buffer; `handshake.stoc` |
| Release handler and dispatcher | `csm_asso_execute`, `csm_asso_init` | `state_cf` |
| TLV, cursor and A-XDR primitives | `csm_ber_*`, `csm_array_*`, `csm_axdr_*` | the buffer cursor (collaborators, not under `src/`) |
| System services | `csm_sys_test_lls_password`, random source, system title | (collaborators) |
| Transport / session | caller of `csm_asso_execute` and `csm_asso_init` | not modelled |

`csm_asso_state` holds these fields:
- `state_cf`
- `auth_level`
- `ref`
- `handshake.ctos`, `handshake.stoc`
- `client_app_title`
- `proposed_conformance`, `client_max_receive_pdu_size`
- `result`

One record serves the whole session. `csm_asso_init` resets only `state_cf`,
`ref`, `auth_level` and `result`.

### Operations and interaction

`csm_asso_execute` takes one APDU. What it does depends on `state_cf`:

- **IDLE:**
  1. `csm_asso_decoder` walks `aarq_codec_chain`. It peeks the next BER header. When the header's tag matches an entry, it runs that entry's decoder; otherwise it only moves to the next entry. A decoder failure is forgiven on an `ACSE_OPT` entry; the cursor stays where the decoder stopped.
  2. `csm_asso_is_granted` sets `state_cf` and `result` from `auth_level` and the password test. The test reads `handshake.ctos`.
  3. `csm_asso_encoder` walks `aare_codec_chain`. It writes each tag, then calls the encoder, then backpatches the outer length into one byte.
  If the decode fails, no reply is sent.
- **ASSOCIATED:** an RLRQ returns the association to IDLE and gets a fixed RLRE. Anything else is ignored.
- **PENDING:** nothing happens in this file.

### Hard behaviours

These are the interesting behaviours:
- **Desynchronisation.** A forgiven field failure leaves the cursor inside client-controlled bytes. The skip decoder enters constructed fields instead of jumping over them.
- **Stale state across cycles.** `ctos`, `auth_level`, `proposed_conformance` and the PDU size survive a release and a failed decode.
- **Backpatched lengths.** The outer AARE length and two user-information sizes are written after the body. The outer length is assumed to fit one byte.
- **Table exhaustion.** A field out of SEQUENCE order makes the loop skip past the entries it would have matched. The decode then ends as a success with the rest unread.
- **Buffer edges.** A tag write that overflows is silently skipped.
- **Byte-level arithmetic.** The conformance and PDU size are read as u8/u16 pieces.

PROJECT.json lists each one at the line where it bites, under "hazards".

### Properties that make it correct

- Every AARE is well formed. The outer length, the field tiling and the two user-information sizes agree.
- A grant at LLS needs the password presented in *this* AARQ.
- Decoding reproduces what the client encoded: the conformance, the PDU size and the mechanism.
- A bad InitiateRequest fails the AARQ (spec 4.3).
- Every AARE names the context that was proposed. An AARE reported as encoded carries all the fields of its level, even when the buffer is nearly full.
- The HLS server challenge mirrors this AARQ's challenge and stays within bounds.
- An AARQ without a mechanism is accepted. An AARQ with an unsupported mechanism is refused.
- A malformed mechanism-name OID leaves `auth_level` alone (spec 8).
- A granted or pending association holds the calling-AP-title of the AARQ that established it.
- Overall, the code implements the abstract association of spec 4.4/4.6 (`AcseAbstract`).

## 2. Modules

| Module | Models | Composes |
|---|---|---|
| `AcseBer` | Collaborator primitives, modelled from the spec: BER header decode, OID prefix read, u8/u16/null reads, buffer write | none |
| `AcseTypes` | Tags, enums, `cOidHeader`, `acse_context`, the `csm_asso_state` record set; CONSTANTS for the buffer sizes, password, system title and conformance | `AcseBer` |
| `AcseAarq` | Every AARQ field decoder, `aarq_codec_chain`, and the `csm_asso_decoder` loop (RECURSIVE `DecodeLoop`). A decoder is a pure operator returning `[ok, p, a]` | `AcseTypes` |
| `AcseAare` | Every AARE field encoder, `aare_codec_chain`, and `csm_asso_encoder` (RECURSIVE `EncodeLoop` with buffer capacity and backpatch) | `AcseTypes` |
| `AcseAssociation` | `csm_asso_init`, `csm_asso_is_granted`, and `csm_asso_execute` as one action per state; holds the properties | `AcseAarq`, `AcseAare` |
| `AcseClient` | The environment: a DLMS client's AARQ (with the InitiateRequest, an optional calling-AP-title and implementation-information, and a mechanism OID that is exact, one byte long or one byte short), RLRQ and stray APDUs as byte sequences | none |
| `AcseAbstract` | What the core promises, with no bytes: the association state, the request handled, the answer (none/accepted/rejected/released) and the level the association runs at. Grant is decided by the mechanism and password the AARQ presents; release happens only on RLRQ while ASSOCIATED; PENDING is left only by a session start | none |
| `AcseRefinement` | The refinement mapping: `state <- asso.state_cf`, `request <- received`, `answer <- ReplyAnswer` (read back from the reply bytes), `level <- auth_level` while not IDLE and "none" in IDLE; `AbstractSpec == Abs!Spec`; the properties that compare a reply with the request | `AcseAssociation`, `AcseClient`, `AcseAbstract` |
| `MC_AcseAssociation` | Client request sets and constant values for TLC | `AcseRefinement` |

Several decoders and both loops are split into small operators. Each stage passes
the result of the previous read as a parameter:
- `BerHeader`;
- `UserInfoHeaderDecoder`, `InitiateRequestDecoder`, `ConformanceDecoder`, `ConformanceBlockDecoder`;
- `DecodeStep`, `EncodeStep`, `AareLength`;
- `IdleAnswer`.

The split keeps the order of the reads the C code makes, and it lets TLC's
coverage profiling, which expands every reference to a LET definition
separately, stay within memory.

### State and actions

There are four variables:
- `asso`: the `csm_asso_state` record.
- `reply`: the bytes the last call put in the packet, or `<<>>` for no reply.
- `aarq`: a history variable holding the client-side record of the last packet handled in IDLE. The properties use it to compare what was sent with what was decoded.
- `received`: a history variable holding the request of the packet the last call handled, in any state. `NoRequest` after a session start. The refinement mapping uses it.

The actions are:
- `ExecuteIdle(pkt)`, `ExecuteAssociated(pkt)`, `ExecutePending(pkt)`: one call of `csm_asso_execute` each. Each is atomic, because the call runs to completion with no callbacks.
- `SessionStart`: `csm_asso_init`. The session layer may call it at any time.

There is no fairness. The code has no internal scheduling.

The one liveness question is whether ASSOCIATION_PENDING is eventually left.
It depends on the ciphered exchange outside this file, or on the session layer
restarting. Neither is code here, so no fairness condition is justified. The
safety side is checked instead: `AbstractSpec` allows no way out of PENDING
except a session start.

## 3. Runs

Each run's constants:
- buffer: 1024 bytes;
- `CSM_DEF_LLS_SIZE` = 8, challenge size = 64, app title = 8, `CSM_DEF_MAX_PDU_SIZE` = 1024;
- one 8-byte password.

The request sets cover:
- LN/SN;
- no mechanism, and mechanism LLS, HLS or an unknown id;
- no authentication value, the right password, or a wrong one;
- RLRQ and a stray APDU.

Some runs add:
- a calling-AP-title of one of two clients (bytes all 1 or all 2), or none;
- implementation-information;
- a mechanism-name OID with a trailing byte, or without its id byte.

Every packet may be sent in any order and any number of times, so releases
followed by new handshakes, and repeated failures, are all explored.

| Run | Cfg | Expect | Shows |
|---|---|---|---|
| `assoc_core` | `MC_AcseAssociation.cfg` | pass | `TypeOK`, `AareContextEchoed`, `AareLengthsConsistent` hold over LN, SN and both ciphered contexts, with and without calling-AP-titles (20,287 states) |
| `refines_abstract` | `_refine.cfg` | pass | `AbstractSpec` holds for complete requests: every AARQ names LLS or HLS and presents an 8-byte value, LN/SN, password right or wrong, with or without a calling-AP-title (two titles) and implementation-information, plus RLRQ and a stray APDU. `EstablishedHoldsCallingTitle` holds on the same requests: every granted or pending association holds the title its AARQ presented |
| `oversized_oid` | `_oid.cfg` | violation | an LLS AARQ whose mechanism OID has one extra byte gets no reply, yet `auth_level` has become LOW |
| `stoc_challenge` | `_stoc.cfg` | violation | an HLS AARQ without an authentication value gets a 0-byte (or stale-length) server challenge |
| `aare_truncated` | `_truncated.cfg` | violation | with a 25-byte buffer, an AARE without user-information is sent as success |
| `lowest_level_stale` | `_lowest.cfg` | violation | after a rejected LLS attempt, an AARQ with no mechanism is rejected with AUTH_FAILURE |
| `unsupported_mechanism` | `_unsupported.cfg` | violation | an AARQ naming mechanism id 2 is associated without authentication |
| `stale_credentials` | `_stale.cfg` | violation | LLS is granted with the previous client's password |
| `conformance_roundtrip` | `_conf.cfg` | violation | conformance/PDU size are decoded one byte off |
| `called_title_desync` | `_called.cfg` | violation | a called-AP-title makes the decoder ignore every later field |
| `aare_long_form` | `_long.cfg` | violation | the AARE for a 58..64-byte challenge overflows the one-byte length |
| `initiate_forgiven` | `_version.cfg` | violation | a version-5 InitiateRequest is accepted |

### Why the bounds are enough

- Two or three steps reach every decision of the grant, and the state space is closed: TLC explores it completely.
- The refinement run is restricted to complete requests on purpose. Each of its AARQs overwrites `auth_level` and `ctos`, so the stale-state findings cannot arise, and what remains checked is the state machine, the grant rule and the answers. The same property fails at once on the full request set, because of the unsupported-mechanism finding. So the restriction is exactly the boundary of those findings.
- The truncated run uses a 25-byte buffer. That is the size of a non-HLS AARE up to its user-information, so the tag write of the last field is the one that fails.
- The core run includes the two ciphered contexts. They are the other branch of the VAA-name choice in `acse_user_info_encoder` (LN and LN-ciphered write 0x0007, the rest 0xFA00), and other values for `AareContextEchoed` to tell apart.
- The refinement run uses two client titles and no title. With two titles, a title left by an earlier client differs from the one this AARQ presents, so a stale or misread title is visible.
- The OID run uses one byte too many and one too few. These are the smallest malformations; larger ones go through the same reads.
- The long-challenge run uses a 58-byte value. The largest challenge whose AARE still has a short-form length is 57 bytes.

Two properties were dropped from the core run because they held whatever the code does:
- `AareComplete` at a 1024-byte buffer, where no write can fail;
- a check that the AARE's result byte matches `state_cf`, which only restated lines 556 and 610.

`AareComplete` is kept where it can fail: the 25-byte run.

The stale-credentials run reports the shortest trace, an LLS AARQ with no authentication value. Its request set also contains a 7-byte password. That value fails `acse_auth_value_decoder`, and the failure is forgiven with the cursor left inside the field (hazard at line 947). A check with only LLS requests (right or 7-byte password) plus RLRQ finds the same violation through that route.

### Findings

PROJECT.json "findings" describes them:
- stale CtoS grant (code bug);
- conformance off by one (code bug);
- called-title desync (divergence from the spec);
- AARE longer than 127 bytes (code bug);
- InitiateRequest failure forgiven (divergence from spec 4.3);
- server challenge length copied from a stale or empty CtoS (divergence);
- a failed tag write ignored, giving a truncated AARE (code bug);
- `auth_level` kept across AARQs, so a lowest-level client is rejected (code bug);
- an unsupported mechanism granted without authentication (divergence from spec 4.4);
- an oversized mechanism-name OID changes `auth_level` before the decode fails (divergence from spec 8).

## 4. Plan for later work

Done so far:
- the abstract spec and its refinement;
- the HLS challenge run;
- the small-buffer run;
- the context echo;
- malformed mechanism OIDs;
- calling-AP-title and implementation-information in the client.

The level in the abstract state, and a larger core instance, were added last.

Left open:
- **A-XDR round trip as a separate module.** The InitiateRequest and InitiateResponse are already modelled byte by byte, in the order the code reads and writes them. `ConformanceDecoded` and `AareLengthsConsistent` check them against the client's encoding. A pure module would only repeat those operators.
- **Out-of-order AARQ fields** (hazard at line 965). The decode loop never goes back to a table entry it passed. When the table is exhausted, the decode succeeds with bytes unread. Spec 4.2 prescribes this, and spec 9 asks to keep it, so there is no stated outcome to check against.

## 5. Not modelled

- The transport and session layer. The model has only the delivered packets and `SessionStart`.
- The ciphered HLS completion, which is outside this file. This is why there is no liveness property for PENDING.
- The contents of random bytes and of the system title. No code path inspects them, so each is a constant.
- The collaborator primitives are modelled from their spec contracts, because their code is not under `src/`.
