CONSTANTS
    j1 = j1  j2 = j2  j3 = j3
    w1 = w1  w2 = w2  w3 = w3  w4 = w4
    c1 = c1  c2 = c2
    NoJob = NoJob
    Job = {j1, j2, j3}
    Worker = {w1, w2}
    Closer = {c1}
    Impatient = {c1}
    Concurrency = 2
    Priority <- TwoPriorities
    Legacy = {TRUE}
    HasCancelling = TRUE
    MaySuppress = TRUE
SPECIFICATION Spec
SYMMETRY Symmetric
INVARIANT IInv
INVARIANT NothingForgotten
INVARIANT OneOwner
INVARIANT NoOrphanWork
INVARIANT ConcurrencyBound
PROPERTY PriorityRespected
PROPERTY CancelledOnRequest
PROPERTY ServiceRefinement
