CONSTANTS
    alice = alice
    bob = bob
    scw = scw
    pay = pay
    mint = mint
    Tasks = {alice, bob}
    Wallets = {scw}
    Payloads = {pay, mint}
    Kind <- MCKind
    Wallet <- MCSameScw
    Payload <- MCPayload
    Estimates <- MCOneEstimate
    Demands <- MCTwoDemands
    Margin = 1
    Step <- MCStep
    U64Max = 3
    U256Max = 5
SPECIFICATION Spec
INVARIANTS AtMostOnce OkWasAccepted OnlyUnansweredLive NonceNeverAhead
PROPERTY ImplementsSubmission
CHECK_DEADLOCK FALSE
