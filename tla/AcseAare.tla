------------------------------ MODULE AcseAare -------------------------------
(***************************************************************************)
(* The AARE encode engine of csm_association.c: the per-field encoders,   *)
(* the aare_codec_chain table and csm_asso_encoder, which writes the tag  *)
(* of every emitted entry, the entry's content, and finally backpatches   *)
(* the one-byte outer length.  An encoder is given the association state  *)
(* and returns the bytes it writes (the length byte after the tag first)  *)
(* and the state with its side effects (the StoC challenge).              *)
(***************************************************************************)
EXTENDS AcseTypes

Enc(bytes, a) == [bytes |-> bytes, a |-> a]

\* acse_proto_version_encoder: length 2, bit string 07 80.
ProtoVersionEncoder(a) == Enc(<< 2, 7, 128 >>, a)

\* acse_app_context_encoder: the constructed header's length only.
AppContextEncoder(a) == Enc(BerLen(9), a)

\* acse_oid_encoder: length 7, the DLMS-UA prefix, name selector, id.
OidEncoder(name, id) == BerLen(7) \o OidHeader \o << name, id >>

\* acse_oid_context_encoder / acse_oid_mechanism_encoder.
OidContextEncoder(a) == Enc(OidEncoder(APP_CONTEXT_NAME, a.ref), a)
OidMechanismEncoder(a) == Enc(OidEncoder(SECURITY_MECHANISM_NAME, a.auth_level), a)

\* acse_result_encoder: accepted (0) unless the state stayed IDLE (1).
ResultEncoder(a) == Enc(BerInteger(IF a.state_cf = CF_IDLE THEN 1 ELSE 0), a)

\* acse_result_src_diag_encoder: acse-service-user [1] with the result.
ResultSrcDiagEncoder(a) == Enc(BerLen(5) \o << 161 >> \o BerInteger(a.result), a)

\* acse_resp_system_title_encoder: an OCTET STRING holding the system title.
RespSystemTitleEncoder(a) ==
  Enc(BerLen(APP_TITLE_SIZE + 2) \o << BER_OCTET_STRING, APP_TITLE_SIZE >> \o SystemTitle, a)

\* acse_responder_requirements_encoder: length 2, bit string 07 80.
ResponderRequirementsEncoder(a) == Enc(<< 2, 7, 128 >>, a)

\* acse_responder_auth_value_encoder: a StoC challenge as long as the
\* stored CtoS challenge, of random bytes, kept in the handshake scratch.
ResponderAuthValueEncoder(a) ==
  LET size == Len(a.ctos)
      stoc == [i \in 1..size |-> RandomByte]
  IN Enc(BerLen(size + 2) \o << TAG_CONTEXT_SPECIFIC, size >> \o stoc,
         [a EXCEPT !.stoc = stoc])

\* Mutant of UserInfoEncoder: the structure size also leaves out its tag.
UserInfoEncoderOffByOne(a) ==
  LET vaa  == IF a.ref \in {LN_REF, LN_REF_WITH_CYPHERING} THEN << 0, 7 >> ELSE << 250, 0 >>
      body == << 0, BER_OCTET_STRING, 0, AXDR_INITIATE_RESPONSE, 0, 6, 95, 31, 4, 0,
                 (Conformance \div 65536) % 256, (Conformance \div 256) % 256,
                 Conformance % 256, (PDU_SIZE \div 256) % 256, PDU_SIZE % 256 >> \o vaa
      size == Len(body)
  IN Enc([body EXCEPT ![1] = (size - 2) % 256, ![3] = (size - 3) % 256], a)

(***************************************************************************)
(* acse_user_info_encoder: reserves the structure's size byte, writes the *)
(* OCTET STRING tag and a reserved size byte, the InitiateResponse (tag   *)
(* 0x08, no QoS, version 6, the [APPLICATION 31] conformance block with  *)
(* the configured conformance, the server PDU size, the VAA name 0x0007   *)
(* for LN referencing and 0xFA00 otherwise), then patches the two        *)
(* reserved bytes from the number of bytes written since the first.       *)
(***************************************************************************)
UserInfoEncoder(a) ==
  LET vaa  == IF a.ref \in {LN_REF, LN_REF_WITH_CYPHERING} THEN << 0, 7 >> ELSE << 250, 0 >>
      body == << 0, BER_OCTET_STRING, 0, AXDR_INITIATE_RESPONSE, 0, 6, 95, 31, 4, 0,
                 (Conformance \div 65536) % 256, (Conformance \div 256) % 256,
                 Conformance % 256, (PDU_SIZE \div 256) % 256, PDU_SIZE % 256 >> \o vaa
      size == Len(body)
  IN Enc([body EXCEPT ![1] = (size - 1) % 256, ![3] = (size - 3) % 256], a)

\* The encoder a chain entry names, applied.
Insert(enc, a) ==
  CASE enc = "proto_version" -> ProtoVersionEncoder(a)
    [] enc = "app_context"   -> AppContextEncoder(a)
    [] enc = "oid_context"   -> OidContextEncoder(a)
    [] enc = "result"        -> ResultEncoder(a)
    [] enc = "src_diag"      -> ResultSrcDiagEncoder(a)
    [] enc = "resp_title"    -> RespSystemTitleEncoder(a)
    [] enc = "resp_req"      -> ResponderRequirementsEncoder(a)
    [] enc = "oid_mechanism" -> OidMechanismEncoder(a)
    [] enc = "resp_auth"     -> ResponderAuthValueEncoder(a)
    [] enc = "user_info"     -> UserInfoEncoder(a)

Field(tag, ctx, enc) == [tag |-> tag, ctx |-> ctx, enc |-> enc]

\* aare_codec_chain: the AARE SEQUENCE in order (tag, requirement, encoder).
AareCodecChain ==
  << Field(128, ACSE_NONE, "proto_version"),          \* protocol-version [0]
     Field(161, ACSE_ANY,  "app_context"),            \* application-context-name [1]
     Field(BER_OBJECT_IDENTIFIER, ACSE_ANY, "oid_context"),
     Field(162, ACSE_ANY,  "result"),                 \* result [2]
     Field(163, ACSE_ANY,  "src_diag"),               \* result-source-diagnostic [3]
     Field(164, ACSE_SEC,  "resp_title"),             \* responding-AP-title [4]
     Field(136, ACSE_SEC,  "resp_req"),               \* responder-acse-requirements [8]
     Field(137, ACSE_SEC,  "oid_mechanism"),          \* mechanism-name [9]
     Field(170, ACSE_SEC,  "resp_auth"),              \* responding-authentication-value [10]
     Field(190, ACSE_ANY,  "user_info") >>            \* user-information [30]

(***************************************************************************)
(* The csm_asso_encoder loop from entry i on, with out the bytes written  *)
(* so far.  NONE entries, and SEC entries unless HLS-GMAC was negotiated, *)
(* are not emitted.  A tag that does not fit is silently not written and *)
(* the loop goes on; content that does not fit ends the loop in failure.  *)
(***************************************************************************)
RECURSIVE EncodeLoop(_, _, _)
\* One turn of the loop for entry i, with e what its encoder writes.
EncodeStep(i, out, a, e) ==
  LET f    == AareCodecChain[i]
      emit == f.ctx # ACSE_NONE
              /\ (a.auth_level = CSM_AUTH_HIGH_LEVEL_GMAC \/ f.ctx # ACSE_SEC)
      t    == Write(out, << f.tag >>, BufSize)
      c    == Write(t.out, e.bytes, BufSize)
      done == emit /\ t.ok
  IN IF done /\ ~c.ok THEN [ok |-> FALSE, out |-> c.out, a |-> e.a]
     ELSE EncodeLoop(i + 1, IF done THEN c.out ELSE out, IF done THEN e.a ELSE a)

EncodeLoop(i, out, a) ==
  IF i > Len(AareCodecChain) THEN [ok |-> TRUE, out |-> out, a |-> a]
  ELSE EncodeStep(i, out, a, Insert(AareCodecChain[i].enc, a))

\* The outer length byte patched with the number of bytes after the header.
AareLength(r) ==
  IF ~r.ok THEN r ELSE [r EXCEPT !.out = [@ EXCEPT ![2] = (Len(r.out) - 2) % 256]]

\* csm_asso_encoder: tag 0x61 and a placeholder length, the chain, then the
\* length byte patched.
AssoEncoder(a) ==
  LET h == Write(<< >>, << AARE_TAG, 0 >>, BufSize)
  IN IF ~h.ok THEN [ok |-> FALSE, out |-> << >>, a |-> a]
     ELSE AareLength(EncodeLoop(1, h.out, a))
==============================================================================
