SPECIFICATION Spec
CONSTANTS
    Input <- Lines
    Literals = {"ip2"}
    Addresses = {"ip1", "ip2"}
    THRESHOLD = 2
    FirstSize = 2
    RobotsMax = 8
    PageSizes = {8, 16, 32}
    PageSize = 8
    PageMax = 32
    MaxBytes = 20
INVARIANT ClaimMovesOn
