SPECIFICATION WalletSpec
CONSTANTS
    a = a  b = b  c = c  d = d
    Coins = {a, b, c, d}
    Amount <- MCAmount
    Base <- MCBase
    Witness <- MCWitness
    OutBytes = 1
    Overhead = 1
    MaxWeight = 38
    MaxCount = 3
    Requests <- MCRequests
    Owner <- MCOwner
    Scope <- MCScope
    AnyoneCanPay <- MCAnyone
    ToSign <- MCToSign
    Addresses <- MCAddresses
    Data <- MCData
    Built <- MCBuilt
    Inserts <- MCInserts
    NewPayers = {"third"}
    Blockhashes = {2}
    BudgetValues = {2}
    MaxInstructions = 3
INVARIANTS
    WalletInv
     FeePaysSize NothingDust NoNeedlessInput MaxSpendsAll
     NothingChangedSinceSigned
    MeansAsAsked PrivilegesEnough SignaturesFit
PROPERTIES
    SignedHashesCompile PrivilegesKept OthersSign NonceStaysFirst
