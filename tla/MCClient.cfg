CONSTANT StaleAfter = 4
SPECIFICATION FairSpec
INVARIANTS
  TypeOK
  SilenceIsShown
  StateMatchesSession
PROPERTIES
  ComesBack
