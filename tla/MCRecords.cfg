SPECIFICATION Spec
CONSTANTS
    Rows = {x1, x2}
    Requests = {r1, r2}
    Addresses = {a1, a2}
    Placeholder = Placeholder
    Generated = Generated
    None = None
SYMMETRY Symmetric
INVARIANTS IndInv NothingLeft
PROPERTIES OnePendingCheck DepositAsOffered DepositsSeen TypedAddressKept
