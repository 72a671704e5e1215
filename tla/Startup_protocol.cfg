SPECIFICATION Spec
CONSTANTS
    Numbers = {3}
    MaxOptions = 2
    MaxAddresses = 1
INVARIANTS
    ProtocolIsMandatory
