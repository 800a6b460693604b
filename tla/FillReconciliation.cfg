SPECIFICATION FairSpec
CONSTANTS
    Qty = 3
    MaxOrders = 2
    MaxShared = 1
    Feeds = {{"websocket"}, {"polling"}, {"websocket", "polling"}}
    Numbering = {TRUE, FALSE}
INVARIANT FilledIsExecuted
PROPERTY LedgerIsOnce
PROPERTY FilledOnlyGrows
PROPERTY PollingHeals
CHECK_DEADLOCK FALSE
