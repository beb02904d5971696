SPECIFICATION PartsSpec
CONSTANTS
    Capacity = 12
    Body <- MCBody
    HeadLength = 4
    FileLength = 2
    MaxRequests = 2
    Requests <- MCRequests
    Timers = {t1, t2, t3}
    Null = Null
    Timeout = 2
    MaxTime = 4
INVARIANTS AnswersMatch AnswersWhole WrittenInOrder TimersLinked
PROPERTIES Answered TimersKeepPromise
CHECK_DEADLOCK FALSE
