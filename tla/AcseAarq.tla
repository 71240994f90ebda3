------------------------------ MODULE AcseAarq -------------------------------
(***************************************************************************)
(* The AARQ decode engine of csm_association.c: the per-field decoders,   *)
(* the object identifier matcher, the nested A-XDR InitiateRequest codec,  *)
(* the aarq_codec_chain table and the csm_asso_decoder loop.               *)
(*                                                                         *)
(* Every decoder is a function of the association state a, the packet     *)
(* bytes b, the header h the engine has just read and the read position p *)
(* after it; it returns whether it succeeded, where it left the cursor and *)
(* the association state with its side effects.  A failed decoder keeps   *)
(* the side effects it made before failing, as the C code does.           *)
(***************************************************************************)
EXTENDS AcseTypes

Res(ok, p, a) == [ok |-> ok, p |-> p, a |-> a]

\* acse_proto_version_decoder: a 2-byte bit string 07 80 (version 1).
ProtoVersionDecoder(a, b, h, p) ==
  LET u == ReadU8(b, p)
      v == ReadU8(b, u.p)
  IN IF h.length # 2 THEN Res(FALSE, p, a)
     ELSE Res(u.ok /\ v.ok /\ u.v = 7 /\ v.v = 128, IF u.ok THEN v.p ELSE p, a)

\* acse_app_context_decoder: only checks the length of the constructed
\* header (7-byte OID + its 2-byte header); the OID is the next header.
AppContextDecoder(a, b, h, p) == Res(h.length = 9, p, a)

\* Mutant of OidDecoder: any mechanism id is stored, recognised or not.
OidDecoderAnyMechanism(a, b, h, p) ==
  LET o == OidRead(b, p, OidHeader)
      knownRef == o.name = APP_CONTEXT_NAME /\ o.id \in Refs \ {NO_REF}
      anyAuth  == o.name = SECURITY_MECHANISM_NAME
  IN Res(o.ok /\ (knownRef \/ anyAuth), o.p,
         IF o.ok /\ knownRef THEN [a EXCEPT !.ref = o.id]
         ELSE IF o.ok /\ anyAuth THEN [a EXCEPT !.auth_level = o.id]
         ELSE a)

\* Mutant of OidDecoder: every recognised context is stored as LN.
OidDecoderRefAlwaysLn(a, b, h, p) ==
  LET o == OidRead(b, p, OidHeader)
      knownRef  == o.name = APP_CONTEXT_NAME /\ o.id \in Refs \ {NO_REF}
      knownAuth == o.name = SECURITY_MECHANISM_NAME
                   /\ o.id \in {CSM_AUTH_LOW_LEVEL, CSM_AUTH_HIGH_LEVEL_GMAC}
  IN Res(o.ok /\ (knownRef \/ knownAuth), o.p,
         IF o.ok /\ knownRef THEN [a EXCEPT !.ref = LN_REF]
         ELSE IF o.ok /\ knownAuth THEN [a EXCEPT !.auth_level = o.id]
         ELSE a)

(***************************************************************************)
(* acse_oid_decoder: the OID matcher.  A matching prefix with the         *)
(* application-context name selector sets ref to one of the four known    *)
(* ids; with the security-mechanism selector sets auth_level to LLS or    *)
(* HLS-GMAC.  Anything else fails and assigns nothing.  The header length *)
(* is not consulted.                                                       *)
(***************************************************************************)
OidDecoder(a, b, h, p) ==
  LET o == OidRead(b, p, OidHeader)
      knownRef  == o.name = APP_CONTEXT_NAME /\ o.id \in Refs \ {NO_REF}
      knownAuth == o.name = SECURITY_MECHANISM_NAME
                   /\ o.id \in {CSM_AUTH_LOW_LEVEL, CSM_AUTH_HIGH_LEVEL_GMAC}
  IN Res(o.ok /\ (knownRef \/ knownAuth), o.p,
         IF o.ok /\ knownRef THEN [a EXCEPT !.ref = o.id]
         ELSE IF o.ok /\ knownAuth THEN [a EXCEPT !.auth_level = o.id]
         ELSE a)

\* acse_req_decoder: sender ACSE requirements, a 2-byte bit string 07 80.
ReqDecoder(a, b, h, p) ==
  LET u == ReadU8(b, p)
      v == ReadU8(b, u.p)
  IN IF h.length # 2 THEN Res(FALSE, p, a)
     ELSE IF ~u.ok \/ u.v # 7 THEN Res(FALSE, u.p, a)
     ELSE Res(v.ok /\ v.v = 128, v.p, a)

\* acse_auth_value_decoder: an inner [0] header whose length lies in
\* [LLS_SIZE, CHALLENGE_SIZE]; the value is stored as the CtoS challenge.
AuthValueDecoder(a, b, h, p) ==
  LET i  == BerDecode(b, p)
      n  == i.length
      ok == /\ i.ok /\ n >= LLS_SIZE /\ n <= CHALLENGE_SIZE
            /\ i.tag = TAG_CONTEXT_SPECIFIC /\ Avail(b, i.p, n)
  IN IF ok THEN Res(TRUE, i.p + n, [a EXCEPT !.ctos = SubSeq(b, i.p + 1, i.p + n)])
           ELSE Res(FALSE, i.p, a)

\* Mutant of ClientSystemTitleDecoder: the title is copied one byte early,
\* from the inner length byte on.
ClientSystemTitleDecoderEarly(a, b, h, p) ==
  LET i  == BerDecode(b, p)
      ok == /\ i.ok /\ i.length = APP_TITLE_SIZE /\ i.id = BER_OCTET_STRING
            /\ Avail(b, i.p, APP_TITLE_SIZE)
  IN IF ok THEN Res(TRUE, i.p + APP_TITLE_SIZE,
                    [a EXCEPT !.client_app_title = SubSeq(b, i.p, i.p + APP_TITLE_SIZE - 1)])
           ELSE Res(FALSE, i.p, a)

\* acse_client_system_title_decoder: an inner OCTET STRING of exactly
\* APP_TITLE_SIZE bytes, stored as the client application title.
ClientSystemTitleDecoder(a, b, h, p) ==
  LET i  == BerDecode(b, p)
      ok == /\ i.ok /\ i.length = APP_TITLE_SIZE /\ i.id = BER_OCTET_STRING
            /\ Avail(b, i.p, APP_TITLE_SIZE)
  IN IF ok THEN Res(TRUE, i.p + APP_TITLE_SIZE,
                    [a EXCEPT !.client_app_title = SubSeq(b, i.p + 1, i.p + APP_TITLE_SIZE)])
           ELSE Res(FALSE, i.p, a)

\* acse_skip_decoder: jumps over the content of a primitive field (the
\* jump's own failure is ignored); a constructed field is entered.
SkipDecoder(a, b, h, p) ==
  Res(TRUE, IF h.prim /\ Avail(b, p, h.length) THEN p + h.length ELSE p, a)

(***************************************************************************)
(* acse_user_info_decoder: an inner OCTET STRING holding an A-XDR         *)
(* InitiateRequest: tag 0x01, a dedicated-key marker byte (read, not     *)
(* interpreted), two A-XDR nulls, version 6, then the [APPLICATION 31]    *)
(* conformance header.  Its content is read the way the code reads it:   *)
(* the unused-bits byte, two conformance bytes and a 16-bit PDU size.     *)
(* "byte" keeps the last value read, so a skipped read reuses it; the      *)
(* conformance is stored whether or not the reads succeed, and a          *)
(* conformance header whose length is not 4 is accepted unread.           *)
(***************************************************************************)
ConformanceBlockDecoder(a, b, isConf, inBlock, v5, u, b6) ==
  LET v7  == u.ok /\ b6 = 0
      r8  == ReadU8(b, u.p)
      v8  == v7 /\ r8.ok
      b8  == IF v8 THEN r8.v ELSE b6
      r9  == ReadU8(b, r8.p)
      v9  == v8 /\ r9.ok
      b9  == IF v9 THEN r9.v ELSE b8
      pdu == ReadU16(b, r9.p)
  IN Res(IF ~isConf THEN FALSE ELSE IF inBlock THEN v9 /\ pdu.ok ELSE v5,
         pdu.p,
         IF ~inBlock THEN a
         ELSE [a EXCEPT !.proposed_conformance = b6 * 65536 + b8 * 256 + b9,
                        !.client_max_receive_pdu_size =
                           IF v9 /\ pdu.ok THEN pdu.v ELSE @])

\* The conformance header c read after the version; v4 says the fields
\* before it were valid, otherwise the status checked is the outer one, i.
ConformanceDecoder(a, b, i, v4, ver, c) ==
  LET hdr    == IF v4 THEN c ELSE i
      isConf == hdr.tag = 95 /\ hdr.ext = 31
      u      == ReadU8(b, c.p)
  IN ConformanceBlockDecoder(a, b, isConf, isConf /\ hdr.length = 4, v4 /\ c.ok,
                             u, IF u.ok THEN u.v ELSE ver.v)

\* The InitiateRequest after its tag byte d: key marker, two nulls, version.
InitiateRequestDecoder(a, b, i, d) ==
  LET k   == ReadU8(b, d.p)                       \* dedicated-key marker
      n1  == ReadNull(b, k.p)                     \* response-allowed
      n2  == ReadNull(b, n1.p)                    \* proposed-quality-of-service
      ver == ReadU8(b, n2.p)
  IN ConformanceDecoder(a, b, i, n1.ok /\ n2.ok /\ ver.ok /\ ver.v = 6, ver,
                        BerDecode(b, ver.p))

UserInfoHeaderDecoder(a, b, i) ==
  LET d == ReadU8(b, i.p)
  IN IF ~i.ok \/ i.id # BER_OCTET_STRING \/ ~d.ok \/ d.v # AXDR_INITIATE_REQUEST
     THEN Res(FALSE, d.p, a)
     ELSE InitiateRequestDecoder(a, b, i, d)

UserInfoDecoder(a, b, h, p) == UserInfoHeaderDecoder(a, b, BerDecode(b, p))

\* The decoder a chain entry names, applied.
Extract(dec, a, b, h, p) ==
  CASE dec = "proto_version" -> ProtoVersionDecoder(a, b, h, p)
    [] dec = "app_context"   -> AppContextDecoder(a, b, h, p)
    [] dec = "oid"           -> OidDecoder(a, b, h, p)
    [] dec = "skip"          -> SkipDecoder(a, b, h, p)
    [] dec = "client_title"  -> ClientSystemTitleDecoder(a, b, h, p)
    [] dec = "req"           -> ReqDecoder(a, b, h, p)
    [] dec = "auth_value"    -> AuthValueDecoder(a, b, h, p)
    [] dec = "user_info"     -> UserInfoDecoder(a, b, h, p)

Entry(tag, ctx, dec) == [tag |-> tag, ctx |-> ctx, dec |-> dec]

\* aarq_codec_chain: the AARQ SEQUENCE in order (tag, requirement, decoder).
AarqCodecChain ==
  << Entry(128, ACSE_NONE, "proto_version"),          \* protocol-version [0]
     Entry(161, ACSE_ANY,  "app_context"),            \* application-context-name [1]
     Entry(BER_OBJECT_IDENTIFIER, ACSE_ANY, "oid"),
     Entry(162, ACSE_NONE, "skip"),                   \* called-AP-title [2]
     Entry(163, ACSE_NONE, "skip"),                   \* called-AE-qualifier [3]
     Entry(164, ACSE_NONE, "skip"),                   \* called-AP-invocation-id [4]
     Entry(BER_INTEGER, ACSE_NONE, "skip"),
     Entry(165, ACSE_NONE, "skip"),                   \* called-AE-invocation-id [5]
     Entry(BER_INTEGER, ACSE_NONE, "skip"),
     Entry(166, ACSE_OPT,  "client_title"),           \* calling-AP-title [6]
     Entry(167, ACSE_NONE, "skip"),                   \* calling-AE-qualifier [7]
     Entry(168, ACSE_NONE, "skip"),                   \* calling-AP-invocation-id [8]
     Entry(BER_INTEGER, ACSE_NONE, "skip"),
     Entry(169, ACSE_NONE, "skip"),                   \* calling-AE-invocation-id [9]
     Entry(BER_INTEGER, ACSE_NONE, "skip"),
     Entry(138, ACSE_OPT,  "req"),                    \* sender-acse-requirements [10]
     Entry(139, ACSE_OPT,  "oid"),                    \* mechanism-name [11]
     Entry(172, ACSE_OPT,  "auth_value"),             \* calling-authentication-value [12]
     Entry(157, ACSE_OPT,  "skip"),                   \* implementation-information [29]
     Entry(190, ACSE_OPT,  "user_info") >>            \* user-information [30]

(***************************************************************************)
(* csm_asso_decoder's main loop.  idx entries have been consumed and h is *)
(* the header read last.  A header whose tag is the entry's tag runs the  *)
(* entry's decoder; an OPT entry's failure is forgiven wherever it left   *)
(* the cursor; after a match the next header is read unless the table is *)
(* exhausted.  A header whose tag is not the entry's tag only advances    *)
(* the table, whatever the entry's requirement.                          *)
(***************************************************************************)
RECURSIVE DecodeLoop(_, _, _, _)
\* One turn of the loop with r the outcome of the entry's decoder (only
\* consulted when the header matches the entry).
DecodeStep(idx, h, b, a, r) ==
  LET codec == AarqCodecChain[idx + 1]
      last  == idx + 1 = Len(AarqCodecChain)
      match == h.tag = codec.tag
      ret   == r.ok \/ codec.ctx = ACSE_OPT
      nh    == BerDecode(b, r.p)
  IN IF ~match /\ last THEN [ok |-> TRUE, a |-> a]
     ELSE IF match /\ ~ret THEN [ok |-> FALSE, a |-> r.a]
     ELSE IF match /\ last THEN [ok |-> TRUE, a |-> r.a]
     ELSE IF match /\ ~nh.ok THEN [ok |-> FALSE, a |-> r.a]
     ELSE DecodeLoop(idx + 1, IF match THEN nh ELSE h, b,
                     IF match THEN r.a ELSE a)

DecodeLoop(idx, h, b, a) ==
  DecodeStep(idx, h, b, a, Extract(AarqCodecChain[idx + 1].dec, a, b, h, h.p))

\* csm_asso_decoder: the outer header must be an AARQ whose length is the
\* number of bytes left; then the loop runs from the first field header.
AssoDecoder(a, b) ==
  LET o == BerDecode(b, 0)
      h == BerDecode(b, o.p)
  IN IF ~o.ok \/ o.length # Len(b) - o.p \/ o.tag # AARQ_TAG
     THEN [ok |-> FALSE, a |-> a]
     ELSE IF ~h.ok THEN [ok |-> FALSE, a |-> a]
     ELSE DecodeLoop(0, h, b, a)
==============================================================================
