SPECIFICATION Spec
CONSTANTS
    Users = {u1}
    DepositIds = {d1}
    InvestmentIds = {i1}
    WithdrawalIds = {w1}
    PlanIds = {p1}
    Requests = {r1, r2}
    Amounts = {2}
    PlanTerms <- OneOffer
    MaxDay = 0
    None = None
SYMMETRY Symmetric
INVARIANTS IndInv
 
