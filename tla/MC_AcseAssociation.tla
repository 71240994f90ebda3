------------------------- MODULE MC_AcseAssociation --------------------------
(***************************************************************************)
(* Model-checking instances of AcseAssociation: the configuration values  *)
(* of the DLMS profile and the sets of packets a client sends.           *)
(***************************************************************************)
EXTENDS AcseRefinement

\* An 8-byte LLS password, a wrong one of the same length, one too short.
mcPassword == << 49, 50, 51, 52, 53, 54, 55, 56 >>
mcWrong    == << 49, 50, 51, 52, 53, 54, 55, 57 >>
mcShort    == SubSeq(mcPassword, 1, 7)
\* A 58-byte HLS challenge: the longest for which an HLS AARE still fits a
\* short-form BER length is 57 bytes.
mcLong     == [i \in 1..58 |-> 65]

mcSystemTitle == [i \in 1..8 |-> 83]

\* The conformance block and PDU size of a typical LN client (0x007E1F,
\* 0x04B0): all three conformance bytes and both PDU bytes differ.
mcConf == 32287
mcPdu  == 1200

Base(ctxs, calleds, mechs, auths, versions) ==
  { AarqPacket(Request(c, cl, ABSENT, m, au, v, mcConf, mcPdu)) :
      c \in ctxs, cl \in calleds, m \in mechs, au \in auths, v \in versions }

\* Well-formed requests for every mechanism, with and without credentials,
\* plus a release request and an unrelated APDU.
mcPackets ==
  Base({LN_REF, SN_REF}, {FALSE}, {ABSENT, CSM_AUTH_LOW_LEVEL, CSM_AUTH_HIGH_LEVEL_GMAC, 2},
       {<< >>, mcPassword, mcWrong}, {6})
  \cup {RlrqPacket, OtherPacket}

\* Requests with a password too short for the LLS range.
mcStalePackets == mcPackets \cup Base({LN_REF}, {FALSE}, {CSM_AUTH_LOW_LEVEL}, {mcShort}, {6})

\* Requests that also carry a called-AP-title.
mcCalledPackets == mcPackets \cup
  Base({LN_REF}, {TRUE}, {CSM_AUTH_LOW_LEVEL, CSM_AUTH_HIGH_LEVEL_GMAC}, {mcWrong}, {6})

\* HLS requests with the longest challenges.
mcLongPackets == Base({LN_REF}, {FALSE}, {CSM_AUTH_HIGH_LEVEL_GMAC}, {mcPassword, mcLong}, {6})
  \cup {RlrqPacket}

\* Requests whose InitiateRequest proposes DLMS version 5.
mcVersionPackets == mcPackets \cup Base({LN_REF}, {FALSE}, {ABSENT}, {<< >>}, {5})

\* Complete requests with a calling-AP-title of one of two clients, or none,
\* and with or without implementation-information.
mcTitlePackets ==
  { AarqPacket([Request(LN_REF, FALSE, t, m, au, 6, mcConf, mcPdu) EXCEPT !.impl = im]) :
      t \in {ABSENT, 1, 2}, m \in {CSM_AUTH_LOW_LEVEL, CSM_AUTH_HIGH_LEVEL_GMAC},
      au \in {mcPassword, mcWrong}, im \in {<< >>, << 1, 2 >>} }
  \cup {RlrqPacket}

\* LLS and HLS requests whose mechanism-name OID is one byte too long or
\* too short, beside the well-formed ones.
mcOidPackets == mcPackets \cup
  { AarqPacket([Request(LN_REF, FALSE, ABSENT, m, mcPassword, 6, mcConf, mcPdu)
                EXCEPT !.moid = o]) :
      m \in {CSM_AUTH_LOW_LEVEL, CSM_AUTH_HIGH_LEVEL_GMAC}, o \in {"long", "short"} }

\* Complete requests: every AARQ names LLS or HLS and presents a value of
\* the LLS size, so each handshake overwrites the level and the CtoS value;
\* some carry a calling-AP-title and implementation-information.
mcCompletePackets ==
  Base({LN_REF, SN_REF}, {FALSE}, {CSM_AUTH_LOW_LEVEL, CSM_AUTH_HIGH_LEVEL_GMAC},
       {mcPassword, mcWrong}, {6})
  \cup {RlrqPacket, OtherPacket} \cup mcTitlePackets

\* The core set, with the two ciphered contexts and the titled requests.
mcCorePackets == mcPackets \cup mcTitlePackets \cup
  Base({LN_REF_WITH_CYPHERING, SN_REF_WITH_CYPHERING}, {FALSE},
       {ABSENT, CSM_AUTH_LOW_LEVEL, CSM_AUTH_HIGH_LEVEL_GMAC}, {<< >>, mcPassword}, {6})

==============================================================================
