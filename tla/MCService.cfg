CONSTANTS
  Keys = {k1, k2}
  Subscribers = {c1}
  Probes = {h1}
  MaxFile = 2
SPECIFICATION FairSpec
CHECK_DEADLOCK FALSE
INVARIANTS
  TypeOK
  SubscribersStayCurrent
  OrphansOnlyFromStartup
  AnswerIsOneSnapshot
PROPERTIES
  NewStreamsStart
  ProbesAreAnswered
