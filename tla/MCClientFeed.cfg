CONSTANT StaleAfter = 2
SPECIFICATION FairSpec
PROPERTY DeadFeedIsShown
