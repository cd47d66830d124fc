SPECIFICATION Spec
CONSTANTS
    Users = {u1, u2}
    DepositIds = {d1}
    InvestmentIds = {i1}
    WithdrawalIds = {w1}
    PlanIds = {p1}
    Requests = {r1}
    Amounts = {1, 2}
    PlanTerms <- TwoOffers
    MaxDay = 2
    None = None
SYMMETRY Symmetric
INVARIANT InvestmentHasPlan
PROPERTIES  MaturityKept
