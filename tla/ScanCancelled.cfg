CONSTANTS
    w1 = w1  w2 = w2
    NoHost = NoHost
    Worker = {w1, w2}
    NHosts = 2
SPECIFICATION Spec
INVARIANT CancellationTearsDown
