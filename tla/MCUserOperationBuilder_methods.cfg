CONSTANTS
    Names <- MCNames
    Factory <- MCFactory
    Salts = {0, 1}
    Given = given
    PartialUo <- MCPartialUo
SPECIFICATION Spec
INVARIANTS TypeOK OneFactory SenderMatchesInitCode
PROPERTY FailureChangesNothing
CHECK_DEADLOCK FALSE
