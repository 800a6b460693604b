SPECIFICATION FairSpec
CONSTANTS
    PerKey = 2
    Qty = 1
    Numbering = {TRUE, FALSE}
    Failing = {TRUE, FALSE}
INVARIANT NumberlessBlocks
INVARIANT OpenIsTracked
PROPERTY GivenUpIsDead
PROPERTY GhostIsReleased
