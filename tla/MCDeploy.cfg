SPECIFICATION Spec
CONSTANTS
    Boots = {b1, b2}
    Last = 6
    Baseline = 5
    None = None
SYMMETRY Symmetric
INVARIANTS IndInv ForgedHasCause ApiHasSchema
PROPERTIES HistoryKept
