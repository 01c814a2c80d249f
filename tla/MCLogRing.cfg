\* A ring of six characters; the monitor is started twice and stopped at any
\* time.  The system may stop: the gateway logs MaxPut texts, no more.
CONSTANTS
    Length = 6
    ReadMax = 4
    ErrLen = 2
    Sizes <- MCSizes
    MaxPut = 4
    MaxStart = 2
SPECIFICATION FairSpec
INVARIANTS TypeOK InBounds InOrder OneInside
PROPERTIES LogShown PutReturns
CHECK_DEADLOCK FALSE
