\* Two letters, at most one of them with the consumer, and time for one to
\* be published when the other's time is up.
SPECIFICATION FairSpec
CONSTANTS
    Letters = {m1, m2}
    MessageTtl = 2
    CodeTtl = 2
    MaxRetries = 1
    Prefetch = 1
    MaxTime = 3
INVARIANTS
    TypeOK
    FreshLetter
    CodeHasLetter
    LossExplained
    DuplicatesExplained
PROPERTIES EveryLetterLeaves
CHECK_DEADLOCK FALSE
