SPECIFICATION SolanaSpec
CONSTANTS
    Addresses <- MCAddresses
    Data <- MCData
    Built <- MCBuilt
    Inserts <- MCInserts
    NewPayers = {"third"}
    Blockhashes = {2}
    BudgetValues = {2}
    MaxInstructions = 3
INVARIANT NewMeansAsked
