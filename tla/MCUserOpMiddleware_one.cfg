CONSTANTS
    alice = alice
    bob = bob
    scw = scw
    pay = pay
    mint = mint
    Tasks = {alice}
    Wallets = {scw}
    Payloads = {pay, mint}
    Kind <- MCOneCall
    Wallet <- MCOneWallet
    Payload <- MCOnePayload
    Estimates <- MCEstimates
    Demands <- MCDemands
    Margin = 1
    Step <- MCStep
    U64Max = 3
    U256Max = 5
SPECIFICATION FairSpec
INVARIANT TypeOK
PROPERTIES RetryRaisesOneLimit Returns
CHECK_DEADLOCK FALSE
