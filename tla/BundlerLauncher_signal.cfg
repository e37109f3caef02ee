CONSTANT MaxSignals = 1
SPECIFICATION FairSpec
PROPERTY SignalStops
CHECK_DEADLOCK FALSE
