SPECIFICATION SigningSpec
CONSTANTS
    a = a  b = b  c = c  d = d
    Coins = {a, b, c, d}
    Amount <- MCAmount
    Base <- MCBase
    Witness <- MCWitness
    OutBytes = 1
    Overhead = 1
    MaxWeight = 38
    MaxCount = 3
    Requests <- MCRequests
    Owner <- MCOwner
    Scope <- MCScope
    AnyoneCanPay <- MCAnyone
    ToSign <- MCToSign
INVARIANT AmountsChecked
