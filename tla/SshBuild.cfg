SPECIFICATION FairSpec
CONSTANTS
  Confs <- MCConfs
  Tries = 2
INVARIANTS
  TypeOK
  OneScriptAtATime
  ShippedAsAsked
PROPERTIES
  StaysOnlyOnALiveSession
  TransportIsNoVerdict
CHECK_DEADLOCK FALSE
