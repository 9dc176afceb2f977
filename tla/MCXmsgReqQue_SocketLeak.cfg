\* Checks NoSocketLeak alone; TLC reports the code's behaviour violating it.
CONSTANTS
    s1 = s1
    s2 = s2
    s3 = s3
    Nil = Nil
    Socks <- MCSocks
    NumXmsgThr = 2
SPECIFICATION Spec
INVARIANT
    NoSocketLeak
CHECK_DEADLOCK FALSE
