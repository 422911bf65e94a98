SPECIFICATION BotSpec
CONSTANTS
    w1 = w1
    w2 = w2
    ours = ours
    theirs = theirs
    Waits = {w1, w2}
    Chats = {ours, theirs}
    None = None
    Subjects <- MCSubjects
    Update <- MCUpdate
    Bot = bot
    OtherBot = other
    Limit = 2
    MaxUpdates = 3
    MaxActs = 4
    MaxPolls = 2
INVARIANTS
    TelegramInv
    NothingPassedOver
CHECK_DEADLOCK FALSE
PROPERTIES
    ReplyEndsWait
    DetectEnds
