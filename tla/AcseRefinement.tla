---------------------------- MODULE AcseRefinement ----------------------------
(***************************************************************************)
(* The ACSE core seen through AcseAbstract: the association state is      *)
(* state_cf itself, the request is the one the last call handled, and the *)
(* level is auth_level while the association is not IDLE, and the        *)
(* answer is read back from the bytes csm_asso_execute left to send: no   *)
(* bytes, the fixed RLRE, or an AARE whose association-result is 0        *)
(* (accepted) or not.  A reply that is none of these has no abstract     *)
(* counterpart.                                                           *)
(***************************************************************************)
EXTENDS AcseAssociation, AcseClient

ReplyAnswer ==
  CASE reply = << >>                             -> "none"
    [] reply = RLRE                              -> "released"
    [] IsAare(reply) /\ AareResult(reply) = 0    -> "accepted"
    [] IsAare(reply)                             -> "rejected"
    [] OTHER                                     -> "garbled"

Abs == INSTANCE AcseAbstract
         WITH state <- asso.state_cf, request <- received, answer <- ReplyAnswer,
              level <- IF asso.state_cf = CF_IDLE THEN "none" ELSE asso.auth_level,
              Requests <- {pkt.req : pkt \in Packets},
              Unauthenticated <- {ABSENT, CSM_AUTH_LOWEST_LEVEL}, Lowest <- CSM_AUTH_LOWEST_LEVEL,
              LowLevel <- CSM_AUTH_LOW_LEVEL, HighLevel <- CSM_AUTH_HIGH_LEVEL_GMAC

(***************************************************************************)
(* csm_asso_execute and csm_asso_init implement the association the spec *)
(* describes: every step of the code is a step of AcseAbstract (or leaves *)
(* its state, request, answer and level alone), so an AARQ is granted,   *)
(* deferred or refused by the mechanism and password it presents itself  *)
(* and runs at the level it asked for, an RLRQ releases only an          *)
(* established association, and the AARE reports the decision taken.     *)
(***************************************************************************)
AbstractSpec == Abs!Spec

(***************************************************************************)
(* The AARE names the application context the AARQ proposed: the ref     *)
(* acse_oid_context_encoder writes back is the one acse_oid_decoder took  *)
(* from this AARQ, after the whole chain ran in step over its fields.    *)
(***************************************************************************)
AareContextEchoed ==
  IsAare(reply) /\ aarq.ctx # ABSENT => reply[FieldAt(reply, 2, 161) + 11] = aarq.ctx

(***************************************************************************)
(* An AARQ that names no security mechanism asks for the lowest level and *)
(* is accepted (spec 4.4 and its acceptance criteria), whatever earlier   *)
(* associations of the session negotiated: csm_asso_is_granted must not  *)
(* see a level left from another handshake.                              *)
(***************************************************************************)
LowestLevelAccepted ==
  IsAare(reply) /\ aarq.mech = ABSENT => AareResult(reply) = 0

(***************************************************************************)
(* An AARQ naming a security mechanism the core does not support is      *)
(* refused (spec 4.4: AUTH_UNKNOWN, state stays IDLE), not associated.   *)
(***************************************************************************)
UnsupportedMechanismRefused ==
  IsAare(reply) /\ aarq.mech \notin {ABSENT, CSM_AUTH_LOW_LEVEL, CSM_AUTH_HIGH_LEVEL_GMAC}
    => AareResult(reply) # 0

(***************************************************************************)
(* An association that is granted or pending holds the calling-AP-title  *)
(* of the AARQ that established it, when that AARQ presented one (spec   *)
(* 4.2: stored verbatim): the ciphered HLS exchange that follows a       *)
(* pending grant authenticates the client under that title.  It needs   *)
(* acse_client_system_title_decoder to read the title from its own      *)
(* field and every later entry of the chain to leave it alone.           *)
(***************************************************************************)
EstablishedHoldsCallingTitle ==
  asso.state_cf # CF_IDLE /\ aarq.title # ABSENT
    => asso.client_app_title = ClientTitle(aarq.title)

(***************************************************************************)
(* A truncated or oversized mechanism-name OID fails the field without   *)
(* changing auth_level (spec 8): no call of csm_asso_execute on an AARQ   *)
(* whose mechanism-name is not exactly 7 bytes moves the level.          *)
(***************************************************************************)
MalformedOidKeepsLevel ==
  [][received'.moid # "exact" => asso'.auth_level = asso.auth_level]_vars

==============================================================================
