CONSTANTS
    first = first
    second = second
    retry = retry
    mw = mw
    clone = clone
    zero = zero
    Tasks = {first, second, retry}
    Middlewares = {mw, clone}
    Op <- MCOp
    Self <- MCSelf
    PreFund <- MCPreFund
    SaltArg <- MCSalt
    RandomU64 = {0, 2, 7}
    Salts = {1, 2}
    Default = zero
    Purse = 3
    Cost = 1
SPECIFICATION FairSpec
INVARIANTS TypeOK MapEntryAccepted FundedWhenPosted DeployedIsLeftAlone OkStaysDeployable
PROPERTIES PostAfterReceipt OkLeadsToDeployment
CHECK_DEADLOCK FALSE
