SPECIFICATION ProgramsSpec
CONSTANTS
    Fds = {f1, f2}
    Listener = lfd
    None = None
    MaxEvents = 2
    BuffLen = 3
    SendRoom = 2
    Streams <- MCStreams
    Box = 2
    MapPattern <- MCMapPattern
    Draws <- MCDraws
    Erasable <- MCErasable
    Levels = {2}
    MaxCommands = 2
    Users = {u1, u2}
    Nobody = Nobody
    AnswerSizes = {1, 2, 3}
    BufPieces = 2
    MaxAsked = 5
    MaxPushed = 3
    Handlers = {h1, h2}
    MaxUsers = 4
    MaxGroups = 2
    MaxRequests = 2
    HeroHp = 1
    BossHp = 2
    PropMaxNumber = 1
    FirstMax = 1
    Modes = {"easy", "medium", "hard"}
    Threshold = 2
    LeastThreshold = 1
    MaxEnemies = 2
    MaxScore = 4
INVARIANTS TableIsTree EventsCurrent Echoed UndoRestores SessionAgrees ThreadsApart OwnIds FriendsBothWays BossesCounted
PROPERTIES EveryoneServed AnswerComes RewardWearsOff
CHECK_DEADLOCK FALSE
