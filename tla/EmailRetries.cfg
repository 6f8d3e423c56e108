\* One letter and a mail server that refuses it, with the code's maxRetries.
SPECIFICATION Spec
CONSTANTS
    Letters = {m1}
    MessageTtl = 1
    CodeTtl = 1
    MaxRetries = 3
    Prefetch = 1
    MaxTime = 1
INVARIANTS RetriesBounded
CHECK_DEADLOCK FALSE
