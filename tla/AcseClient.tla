------------------------------ MODULE AcseClient -----------------------------
(***************************************************************************)
(* The environment of the ACSE core: what a head-end client sends.  A     *)
(* request records what the client means (the fields it includes and     *)
(* their values); Aarq(r) is that request BER-encoded in the order of the *)
(* AARQ SEQUENCE, with the InitiateRequest A-XDR-encoded inside the       *)
(* user-information field.  Nothing here models server code.              *)
(***************************************************************************)
EXTENDS AcseTypes

ABSENT == -1

\* A BER TLV with a short or one-byte long length.
Tlv(tag, content) ==
  << tag >> \o (IF Len(content) < 128 THEN << Len(content) >>
                ELSE << 129, Len(content) >>) \o content

Opt(present, bytes) == IF present THEN bytes ELSE << >>

\* The InitiateRequest: tag, no dedicated key, response-allowed default,
\* no QoS, the DLMS version, the conformance block, the client PDU size.
InitiateRequest(version, conf, pdu) ==
  << AXDR_INITIATE_REQUEST, 0, 0, 0, version, 95, 31, 4, 0,
     (conf \div 65536) % 256, (conf \div 256) % 256, conf % 256,
     (pdu \div 256) % 256, pdu % 256 >>

\* The system title of a client, every byte t.
ClientTitle(t) == [i \in 1..APP_TITLE_SIZE |-> t]

\* The content of a mechanism-name field: the 7-byte OID, or a malformed
\* one with a trailing byte ("long") or without its id byte ("short").
MechOid(r) ==
  CASE r.moid = "exact" -> OidHeader \o << SECURITY_MECHANISM_NAME, r.mech >>
    [] r.moid = "long"  -> OidHeader \o << SECURITY_MECHANISM_NAME, r.mech, 0 >>
    [] r.moid = "short" -> OidHeader \o << SECURITY_MECHANISM_NAME >>

(***************************************************************************)
(* A request: ctx the application context id, called whether a called-AP- *)
(* title is included, title whether a calling-AP-title is included, mech *)
(* the mechanism id (ABSENT: no mechanism-name, and then no sender ACSE   *)
(* requirements), auth the calling authentication value (<< >>: absent),  *)
(* version/conf/pdu the InitiateRequest.                                  *)
(***************************************************************************)
Request(ctx, called, title, mech, auth, version, conf, pdu) ==
  [kind |-> "AARQ", ctx |-> ctx, called |-> called, title |-> title, mech |-> mech,
   auth |-> auth, version |-> version, conf |-> conf, pdu |-> pdu,
   impl |-> << >>, moid |-> "exact"]

NoClientRequest == Request(ABSENT, FALSE, ABSENT, ABSENT, << >>, 0, 0, 0)

Aarq(r) ==
  Tlv(AARQ_TAG,
      Tlv(128, << 7, 128 >>)
      \o Tlv(161, Tlv(BER_OBJECT_IDENTIFIER, OidHeader \o << APP_CONTEXT_NAME, r.ctx >>))
      \o Opt(r.called, Tlv(162, Tlv(BER_OCTET_STRING, ClientTitle(67))))
      \o Opt(r.title # ABSENT, Tlv(166, Tlv(BER_OCTET_STRING, ClientTitle(r.title))))
      \o Opt(r.mech # ABSENT, Tlv(138, << 7, 128 >>))
      \o Opt(r.mech # ABSENT, Tlv(139, MechOid(r)))
      \o Opt(r.auth # << >>, Tlv(172, Tlv(TAG_CONTEXT_SPECIFIC, r.auth)))
      \o Opt(r.impl # << >>, Tlv(157, r.impl))
      \o Tlv(190, Tlv(BER_OCTET_STRING, InitiateRequest(r.version, r.conf, r.pdu))))

\* A packet as delivered: its bytes and, for the properties, its request.
AarqPacket(r) == [bytes |-> Aarq(r), req |-> r]
RlrqPacket == [bytes |-> << RLRQ_TAG, 3, 128, 1, 0 >>, req |-> [NoClientRequest EXCEPT !.kind = "RLRQ"]]
OtherPacket == [bytes |-> << 192, 1, 193, 0, 8, 0, 0, 1, 0, 0, 255, 2, 0 >>,
                req |-> [NoClientRequest EXCEPT !.kind = "OTHER"]]
==============================================================================
