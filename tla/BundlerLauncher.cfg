CONSTANT MaxSignals = 2
SPECIFICATION FairSpec
INVARIANTS TypeOK TestChainLaidOut GethOutlivesServices NoUnaskedSuccess
PROPERTIES InnerSignalStops FailureReachesCaller
CHECK_DEADLOCK FALSE
