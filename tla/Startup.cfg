SPECIFICATION Spec
CONSTANTS
    Numbers = {3, 256, 70000}
    MaxOptions = 3
    MaxAddresses = 2
INVARIANTS
    TypeOK
    HandlerFitsSocket
    NothingLeaks
    OptionsTakeEffect
