--------------------------- MODULE AcseAssociation ---------------------------
(***************************************************************************)
(* One association of the ACSE core (csm_association.c): the state        *)
(* csm_asso_state, csm_asso_init, and csm_asso_execute, the dispatcher    *)
(* that runs decode -> csm_asso_is_granted -> encode on a packet received *)
(* while IDLE, answers an RLRQ while ASSOCIATED, and ignores anything     *)
(* else.  Each execute runs to completion before the next packet (the     *)
(* session layer serialises calls), so one call is one atomic step.      *)
(*                                                                         *)
(* Packets is the set of packets a client may send, each its bytes and   *)
(* the request it encodes; aarq records the request of the last packet   *)
(* handled while IDLE and reply the bytes the last call returned.  Both   *)
(* are history variables used only by the properties.                     *)
(***************************************************************************)
EXTENDS AcseAarq, AcseAare

CONSTANTS
  Packets,     \* the packets the transport may deliver: [bytes, req]
  NoRequest    \* the request history before any packet

VARIABLES
  asso,   \* csm_asso_state
  reply,  \* the bytes csm_asso_execute left to send (<< >> for none)
  aarq,     \* the request of the last packet handled while IDLE
  received  \* the request of the packet the last call handled

vars == << asso, reply, aarq, received >>

\* csm_asso_init.  The handshake challenges, the client title, the
\* conformance and the PDU size are not initialised by it; the state lives
\* in zero-initialised static storage, so they start empty or zero.
AssoInit(a) ==
  [a EXCEPT !.state_cf = CF_IDLE, !.auth_level = CSM_AUTH_LOWEST_LEVEL,
            !.ref = NO_REF, !.result = CSM_ASSO_ERR_NULL]

ZeroState ==
  [state_cf |-> CF_IDLE, auth_level |-> CSM_AUTH_LOWEST_LEVEL, ref |-> NO_REF,
   ctos |-> << >>, stoc |-> << >>,
   client_app_title |-> [i \in 1..APP_TITLE_SIZE |-> 0],
   proposed_conformance |-> 0, client_max_receive_pdu_size |-> 0,
   result |-> CSM_ASSO_ERR_NULL]

\* csm_sys_test_lls_password(dsap, ctos): the stored password compared.
TestLlsPassword(ctos) == ctos = Password

(***************************************************************************)
(* csm_asso_is_granted: from IDLE, the lowest level is granted, LLS is    *)
(* granted when the stored CtoS value is the password, HLS-GMAC is put   *)
(* pending; every branch records the handshake result.                   *)
(***************************************************************************)
AssoIsGranted(a) ==
  IF a.state_cf # CF_IDLE THEN a
  ELSE CASE a.auth_level = CSM_AUTH_LOWEST_LEVEL ->
              [a EXCEPT !.state_cf = CF_ASSOCIATED, !.result = CSM_ASSO_ERR_NULL]
         [] a.auth_level = CSM_AUTH_LOW_LEVEL /\ TestLlsPassword(a.ctos) ->
              [a EXCEPT !.state_cf = CF_ASSOCIATED, !.result = CSM_ASSO_ERR_NULL]
         [] a.auth_level = CSM_AUTH_LOW_LEVEL ->
              [a EXCEPT !.result = CSM_ASSO_ERR_AUTH_FAILURE]
         [] a.auth_level = CSM_AUTH_HIGH_LEVEL_GMAC ->
              [a EXCEPT !.state_cf = CF_ASSOCIATION_PENDING,
                        !.result = CSM_ASSO_AUTH_REQUIRED]
         [] OTHER -> [a EXCEPT !.result = CSM_ASSO_AUTH_UNKNOWN]

RLRE == << RLRE_TAG, 3, 128, 1, 0 >>

Init ==
  /\ asso = ZeroState
  /\ reply = << >>
  /\ aarq = NoRequest
  /\ received = NoRequest

(***************************************************************************)
(* csm_asso_execute while IDLE: decode; on success authorise and encode   *)
(* the AARE (granted or not) into the packet buffer.  A failed decode    *)
(* keeps the fields it set and produces no reply.                         *)
(***************************************************************************)
\* The rest of the IDLE branch once the decoder returned d.
IdleAnswer(pkt, d) ==
  LET e == AssoEncoder(AssoIsGranted(d.a))
  IN /\ asso' = IF ~d.ok THEN d.a ELSE e.a
     /\ reply' = IF d.ok /\ e.ok THEN e.out ELSE << >>
     /\ aarq' = pkt.req
     /\ received' = pkt.req

ExecuteIdle(pkt) ==
  /\ asso.state_cf = CF_IDLE
  /\ IdleAnswer(pkt, AssoDecoder(asso, pkt.bytes))

\* Mutant of ExecuteAssociated: any leading tag releases the association.
ExecuteAssociatedAnyTag(pkt) ==
  /\ asso.state_cf = CF_ASSOCIATED
  /\ Len(pkt.bytes) > 0
  /\ asso' = [asso EXCEPT !.state_cf = CF_IDLE]
  /\ reply' = RLRE
  /\ received' = pkt.req
  /\ UNCHANGED aarq

\* csm_asso_execute while ASSOCIATED: an RLRQ tag in the first byte
\* returns to IDLE with the fixed RLRE; anything else gets no reply.
ExecuteAssociated(pkt) ==
  /\ asso.state_cf = CF_ASSOCIATED
  /\ Len(pkt.bytes) > 0
  /\ IF pkt.bytes[1] = RLRQ_TAG
     THEN /\ asso' = [asso EXCEPT !.state_cf = CF_IDLE]
          /\ reply' = RLRE
     ELSE /\ reply' = << >>
          /\ UNCHANGED asso
  /\ received' = pkt.req
  /\ UNCHANGED aarq

\* csm_asso_execute in any other state (ASSOCIATION_PENDING): no reply.
ExecutePending(pkt) ==
  /\ asso.state_cf = CF_ASSOCIATION_PENDING
  /\ reply' = << >>
  /\ received' = pkt.req
  /\ UNCHANGED << asso, aarq >>

\* The session layer calls csm_asso_init at the start of a connection.
SessionStart ==
  /\ asso' = AssoInit(asso)
  /\ reply' = << >>
  /\ received' = NoRequest
  /\ UNCHANGED aarq

Next ==
  \/ \E pkt \in Packets : ExecuteIdle(pkt) \/ ExecuteAssociated(pkt) \/ ExecutePending(pkt)
  \/ SessionStart

Spec == Init /\ [][Next]_vars

-----------------------------------------------------------------------------
\* The association state keeps the types of csm_asso_state's fields.
TypeOK ==
  /\ asso \in AssoState
  /\ Len(asso.ctos) <= CHALLENGE_SIZE /\ Len(asso.stoc) <= CHALLENGE_SIZE
  /\ reply \in Seq(Byte)
-----------------------------------------------------------------------------
(* Reading a reply back: the top-level fields of an AARE body.            *)

IsAare(r) == Len(r) >= 2 /\ r[1] = AARE_TAG

\* Following the declared lengths from p lands exactly on the end of r.
RECURSIVE Lands(_, _)
Lands(r, p) == IF p = Len(r) THEN TRUE
               ELSE IF p + 2 > Len(r) THEN FALSE
               ELSE Lands(r, p + 2 + r[p + 2])

\* The position before the top-level field with tag t at or after p (0: none).
RECURSIVE FieldAt(_, _, _)
FieldAt(r, p, t) == IF p + 2 > Len(r) THEN 0
                    ELSE IF r[p + 1] = t THEN p
                    ELSE FieldAt(r, p + 2 + r[p + 2], t)

\* The association-result of an AARE (an INTEGER value).
AareResult(r) == r[FieldAt(r, 2, 162) + 5]

(***************************************************************************)
(* Every AARE csm_asso_execute sends is well framed: the outer length     *)
(* byte backpatched by csm_asso_encoder counts the bytes after it, the    *)
(* fields' own length bytes tile the body exactly, and in the user-       *)
(* information field the two sizes backpatched by acse_user_info_encoder *)
(* agree: the OCTET STRING is the structure minus its tag and size.       *)
(***************************************************************************)
AareLengthsConsistent ==
  IsAare(reply) =>
    LET u == FieldAt(reply, 2, 190)
    IN /\ reply[2] = Len(reply) - 2
       /\ Lands(reply, 2)
       /\ u > 0 /\ u + 4 <= Len(reply)
       /\ reply[u + 3] = BER_OCTET_STRING
       /\ reply[u + 4] = reply[u + 2] - 2

-----------------------------------------------------------------------------
(* Properties the code does not keep (each checked by a violation run).   *)

(***************************************************************************)
(* Spec 3/4.4: the handshake scratch is per AARQ/AARE cycle, and LLS      *)
(* grants on the challenge the client presents.  An association granted  *)
(* at the low authentication level was opened by an AARQ that carried    *)
(* the password.  csm_asso_is_granted tests whatever                      *)
(* ctos and auth_level hold, and neither is reset between cycles.         *)
(***************************************************************************)
LlsGrantNeedsPresentedPassword ==
  (asso.state_cf = CF_ASSOCIATED /\ asso.auth_level = CSM_AUTH_LOW_LEVEL)
    => aarq.auth = Password

(***************************************************************************)
(* Spec 8: the 24-bit conformance block (and the client PDU size) decoded *)
(* by acse_user_info_decoder are the values the client encoded, whenever  *)
(* the AARQ was answered.                                                 *)
(***************************************************************************)
ConformanceDecoded ==
  (IsAare(reply) /\ aarq.kind = "AARQ" /\ ~aarq.called)
    => /\ asso.proposed_conformance = aarq.conf
       /\ asso.client_max_receive_pdu_size = aarq.pdu

(***************************************************************************)
(* Spec 4.2: unused called-AP fields are structurally skipped, so an AARQ *)
(* carrying a mechanism name that is answered is answered at that level.  *)
(***************************************************************************)
MechanismApplied ==
  (IsAare(reply) /\ aarq.mech \in {CSM_AUTH_LOW_LEVEL, CSM_AUTH_HIGH_LEVEL_GMAC})
    => asso.auth_level = aarq.mech

(***************************************************************************)
(* csm_asso_encoder (comment at the placeholder length): the AARE is never *)
(* longer than 127 bytes, so its one-byte BER length is in short form.    *)
(***************************************************************************)
AareShortForm == IsAare(reply) => reply[2] < 128

(***************************************************************************)
(* Spec 4.3: any deviation in the InitiateRequest fails the user-         *)
(* information field and with it the whole AARQ: no AARE answers an AARQ  *)
(* whose InitiateRequest proposes a DLMS version other than 6.           *)
(***************************************************************************)
InitiateRequestRequired == IsAare(reply) => aarq.version = 6

\* The top-level fields an AARE must carry (spec 4.5): the application
\* context, the result and its diagnostic, the user-information, and under
\* HLS-GMAC the responding title, requirements, mechanism and challenge.
AareFieldTags(level) ==
  {161, 162, 163, 190}
  \cup (IF level = CSM_AUTH_HIGH_LEVEL_GMAC THEN {164, 136, 137, 170} ELSE {})

(***************************************************************************)
(* Every AARE csm_asso_execute reports as encoded carries every field of  *)
(* the AARE for the level it negotiated: csm_asso_encoder selects the     *)
(* security-only entries by auth_level and, when a write fails, must not  *)
(* hand back a shortened AARE as a success.                              *)
(***************************************************************************)
AareComplete ==
  IsAare(reply) => \A t \in AareFieldTags(asso.auth_level) : FieldAt(reply, 2, t) # 0

(***************************************************************************)
(* The server challenge of an HLS AARE is as long as the challenge this  *)
(* AARQ presented, which lies in [LLS_SIZE, CHALLENGE_SIZE]: the length    *)
(* acse_responder_auth_value_encoder copies from the handshake scratch    *)
(* must be that of the current cycle.                                     *)
(***************************************************************************)
StocMirrorsChallenge ==
  LET q == FieldAt(reply, 2, 170)
  IN IsAare(reply) /\ q # 0 =>
       /\ reply[q + 4] = Len(aarq.auth)
       /\ LLS_SIZE <= reply[q + 4] /\ reply[q + 4] <= CHALLENGE_SIZE
==============================================================================
