CONSTANTS
    j1 = j1  j2 = j2  j3 = j3
    w1 = w1  w2 = w2  w3 = w3  w4 = w4
    c1 = c1  c2 = c2
    NoJob = NoJob
    Job = {j1, j2}
    Worker = {w1}
    Closer = {}
    Impatient = {}
    Concurrency = 1
    Priority <- OnePriority
    Legacy = {FALSE}
    HasCancelling = TRUE
    MaySuppress = FALSE
    MaxLoops = 1
CHECK_DEADLOCK FALSE
SPECIFICATION LoopSpec
PROPERTY AnsweredInAnyLoop
