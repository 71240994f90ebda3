------------------------------ MODULE AcseTypes ------------------------------
(***************************************************************************)
(* Constants and codes shared by the AARQ decoder, the AARE encoder and    *)
(* the association state machine.  Wire tags follow the ASN.1 of the      *)
(* source comments: [APPLICATION n] is 0x60+n, an IMPLICIT primitive [n]   *)
(* is 0x80+n, an EXPLICIT (constructed) [n] is 0xA0+n.                     *)
(***************************************************************************)
EXTENDS Integers, Sequences, AcseBer

CONSTANTS
  LLS_SIZE,        \* CSM_DEF_LLS_SIZE: shortest calling authentication value
  CHALLENGE_SIZE,  \* CSM_DEF_CHALLENGE_SIZE: longest one (and scratch capacity)
  APP_TITLE_SIZE,  \* CSM_DEF_APP_TITLE_SIZE: length of a system title
  PDU_SIZE,        \* CSM_DEF_PDU_SIZE: server max receive PDU size
  Conformance,     \* config->conformance: 24-bit conformance block offered
  Password,        \* the LLS password configured for config->llc.dsap
  SystemTitle,     \* csm_sys_get_system_title()
  RandomByte,      \* what csm_sys_get_random_u8() returns (content is opaque)
  BufSize          \* capacity of the packet buffer the reply is written into

ASSUME /\ LLS_SIZE \in 1..CHALLENGE_SIZE /\ CHALLENGE_SIZE \in 1..127
       /\ APP_TITLE_SIZE \in 1..127 /\ PDU_SIZE \in 0..65535
       /\ Conformance \in 0..(2^24 - 1) /\ RandomByte \in Byte
       /\ Password \in Seq(Byte) /\ SystemTitle \in Seq(Byte)
       /\ Len(SystemTitle) = APP_TITLE_SIZE /\ BufSize \in Nat

\* Outer APDU tags.
AARQ_TAG == 96   \* 0x60
AARE_TAG == 97   \* 0x61
RLRQ_TAG == 98   \* 0x62
RLRE_TAG == 99   \* 0x63

\* Universal tags and A-XDR codes used inside fields.
BER_INTEGER == 2
BER_OCTET_STRING == 4
BER_OBJECT_IDENTIFIER == 6
TAG_CONTEXT_SPECIFIC == 128
AXDR_INITIATE_REQUEST == 1
AXDR_INITIATE_RESPONSE == 8

\* cOidHeader: the DLMS-UA prefix 2.16.756.5.8 as encoded bytes.
OidHeader == << 96, 133, 116, 5, 8 >>

\* Object identifier name selectors.
APP_CONTEXT_NAME == 1
SECURITY_MECHANISM_NAME == 2

\* Connection states (state_cf).
CF_IDLE == "IDLE"
CF_ASSOCIATION_PENDING == "PENDING"
CF_ASSOCIATED == "ASSOCIATED"

\* Referencing (ids of the application context name; NO_REF before any).
NO_REF == 0
LN_REF == 1
SN_REF == 2
LN_REF_WITH_CYPHERING == 3
SN_REF_WITH_CYPHERING == 4
Refs == {NO_REF, LN_REF, SN_REF, LN_REF_WITH_CYPHERING, SN_REF_WITH_CYPHERING}

\* Authentication levels (ids of the mechanism name).
CSM_AUTH_LOWEST_LEVEL == 0
CSM_AUTH_LOW_LEVEL == 1
CSM_AUTH_HIGH_LEVEL_GMAC == 5

\* Handshake result codes (acse-service-user diagnostics).
CSM_ASSO_ERR_NULL == 0
CSM_ASSO_AUTH_UNKNOWN == 11
CSM_ASSO_ERR_AUTH_FAILURE == 13
CSM_ASSO_AUTH_REQUIRED == 14

\* Requirement of a codec chain entry (enum acse_context).
ACSE_NONE == "NONE"
ACSE_ANY == "ANY"
ACSE_OPT == "OPT"
ACSE_SEC == "SEC"

\* The association state csm_asso_state (config is the constants above).
AssoState ==
  [state_cf : {CF_IDLE, CF_ASSOCIATION_PENDING, CF_ASSOCIATED},
   auth_level : {CSM_AUTH_LOWEST_LEVEL, CSM_AUTH_LOW_LEVEL, CSM_AUTH_HIGH_LEVEL_GMAC},
   ref : Refs,
   ctos : Seq(Byte), stoc : Seq(Byte), client_app_title : Seq(Byte),
   proposed_conformance : 0..(2^24 - 1),
   client_max_receive_pdu_size : 0..65535,
   result : {CSM_ASSO_ERR_NULL, CSM_ASSO_AUTH_UNKNOWN,
             CSM_ASSO_ERR_AUTH_FAILURE, CSM_ASSO_AUTH_REQUIRED}]
==============================================================================
