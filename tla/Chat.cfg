CONSTANTS
    Unit = 100
    Cent = 10
    Percent = 10
    TokenUnit = 50
    WadFloor = 500
    WadUnit = 1000
    Tolerance = 20
    Infinite = infinite
    Turns = {t1, t2}
    Threads = {th1, th2}
    Results <- MCResults
    Replies <- MCReplies
    OutageFigures = {7000}
    MaxLoops = 2
    MaxCalls = 2
    HistoryLimit = 2
    Earlier = 3
    NoThread = noThread
    NoTurn = noTurn
SPECIFICATION Spec
INVARIANTS
    TypeOK
    FiguresTraced
    QuestionSeen
    NoOrphans
PROPERTY TurnEnds
CHECK_DEADLOCK FALSE
