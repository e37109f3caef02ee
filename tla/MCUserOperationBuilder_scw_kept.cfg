CONSTANTS
    Names <- MCNames
    Factory <- MCFactory
    Salts = {0, 1}
    Given = given
    PartialUo <- MCPartialUo
SPECIFICATION Spec
PROPERTY ScwAddressIsKept
CHECK_DEADLOCK FALSE
