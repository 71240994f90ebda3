----------------------------- MODULE AcseAbstract -----------------------------
(***************************************************************************)
(* What the ACSE core promises a client, with no bytes in it (the spec,   *)
(* sections 4.4 and 4.6): one association moves IDLE -> ASSOCIATED or    *)
(* ASSOCIATION_PENDING on an AARQ, by the rule of the mechanism and the   *)
(* credential that AARQ presents, at the level that AARQ asked for, back *)
(* to IDLE on an RLRQ while associated, and to IDLE at every session     *)
(* start.  Every request is answered with an accepting or rejecting      *)
(* AARE, the release response or nothing.                                *)
(***************************************************************************)
CONSTANTS
  Requests,          \* the requests a client may send: [kind, mech, auth, ...]
  NoRequest,         \* the request recorded before any packet
  Password,          \* the LLS password of the access point
  Unauthenticated,   \* the mechanism values that ask for the lowest level
  Lowest,            \* the lowest level (no authentication)
  LowLevel,          \* the mechanism value of LLS (password)
  HighLevel          \* the mechanism value of HLS-GMAC

VARIABLES
  state,     \* the association state
  request,   \* the request handled by the last step
  answer,    \* what the last step sent back
  level      \* the level the association runs at ("none" while IDLE)

Answers == {"none", "accepted", "rejected", "released"}

\* The state an AARQ leads to from IDLE.
Outcome(r) ==
  CASE r.mech \in Unauthenticated                -> "ASSOCIATED"
    [] r.mech = LowLevel /\ r.auth = Password    -> "ASSOCIATED"
    [] r.mech = HighLevel                        -> "PENDING"
    [] OTHER                                     -> "IDLE"

\* The level an AARQ that leaves IDLE runs at.
Granted(r) == IF r.mech \in Unauthenticated THEN Lowest ELSE r.mech

Init ==
  /\ state = "IDLE"
  /\ request = NoRequest
  /\ answer = "none"
  /\ level = "none"

\* An AARQ while IDLE is answered: accepted exactly when it leaves IDLE.
Associate(r) ==
  /\ state = "IDLE"
  /\ r.kind = "AARQ"
  /\ state' = Outcome(r)
  /\ answer' = IF Outcome(r) = "IDLE" THEN "rejected" ELSE "accepted"
  /\ level' = IF Outcome(r) = "IDLE" THEN "none" ELSE Granted(r)
  /\ request' = r

\* Anything else while IDLE does not decode as an AARQ: no answer.
Undecodable(r) ==
  /\ state = "IDLE"
  /\ r.kind # "AARQ"
  /\ answer' = "none"
  /\ request' = r
  /\ UNCHANGED << state, level >>

\* An RLRQ while associated releases the association.
Release(r) ==
  /\ state = "ASSOCIATED"
  /\ r.kind = "RLRQ"
  /\ state' = "IDLE"
  /\ answer' = "released"
  /\ level' = "none"
  /\ request' = r

\* Anything else while associated or pending is ignored.
Ignore(r) ==
  /\ state # "IDLE"
  /\ ~(state = "ASSOCIATED" /\ r.kind = "RLRQ")
  /\ answer' = "none"
  /\ request' = r
  /\ UNCHANGED << state, level >>

\* A new connection starts from IDLE.
Start ==
  /\ state' = "IDLE"
  /\ answer' = "none"
  /\ request' = NoRequest
  /\ level' = "none"

Next ==
  \/ \E r \in Requests : Associate(r) \/ Undecodable(r) \/ Release(r) \/ Ignore(r)
  \/ Start

Spec == Init /\ [][Next]_<< state, request, answer, level >>
==============================================================================
