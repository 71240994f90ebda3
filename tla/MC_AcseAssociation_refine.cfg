CONSTANTS
  LLS_SIZE = 8
  CHALLENGE_SIZE = 64
  APP_TITLE_SIZE = 8
  PDU_SIZE = 1024
  Conformance = 7200
  RandomByte = 170
  BufSize = 1024
  Password <- mcPassword
  SystemTitle <- mcSystemTitle
  Packets <- mcCompletePackets
  NoRequest <- NoClientRequest
SPECIFICATION Spec
PROPERTY AbstractSpec
INVARIANT EstablishedHoldsCallingTitle
