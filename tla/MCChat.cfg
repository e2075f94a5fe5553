SPECIFICATION Spec
CONSTANTS
    Channels = {0, 1}
    ChannelLists <- MCChannelLists
    QueueLimit = 1
    Nodes = {a, b}
    Local = a
    None = None
    MaxBytes = 1
    HistoryLimit = 1
    MaxMessages = 2
    MaxConnects = 1
    MaxRestarts = 1
    MaxQueue = 3
INVARIANTS
    BubblesAreThread
    RowsFollowView
    SidebarAgrees
PROPERTIES
    SendingEnds
CHECK_DEADLOCK FALSE
