CONSTANTS
    pay = pay
    deposit = deposit
    Salt = 2
    Zero = Zero
    PreFund = 1
    Purse = 1
    Cost = 1
    Payload <- MCPayload
    Estimates <- MCEstimates
    Demands <- MCDemands
    Margin = 0
    Step <- MCStep
    U64Max = 2
    U256Max = 3
SPECIFICATION FairSpec
INVARIANTS NoOperationBeforeWallet LostOnlyToOther NoncesDiffer
PROPERTY OkMeansBothExecuted
CHECK_DEADLOCK FALSE
