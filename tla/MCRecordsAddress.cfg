SPECIFICATION Spec
CONSTANTS
    Rows = {x1}
    Requests = {r1}
    Addresses = {a1}
    Placeholder = Placeholder
    Generated = Generated
    None = None
INVARIANTS DepositAddressIsReal
