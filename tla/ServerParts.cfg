CONSTANTS
    Parts = {"mlist", "cloud", "proxy", "stream", "reply"}
    th1 = th1  th2 = th2
    Slots = {s1, s2}
    MaxClients = 2
    MaxRequests = 3
    MaxRing = 2
SPECIFICATION MCSpec
CHECK_DEADLOCK FALSE
INVARIANTS
    StoreMatchesList
    SeekAnswers
    ReplyReachesAsker
    WholeCommands
    CommandsArriveAsSent
    AnswersArriveAsSent
PROPERTIES
    UnreadNotHidden
