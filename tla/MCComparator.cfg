\* Without a limit of errors, and with one that a cycle's pairs can go past.
SPECIFICATION CoSpec
CONSTANTS
    Values = {0, 1, 2, 3}
    ErrorMaxes = {0, 1}
    MaxSent = 2
    Blocks <- MCBlocks
    Contents = {0, 1}
    value_of <- MCvalue_of
INVARIANTS PassMeansEqual ComparesAllPairs CountsAddUp SignalsOneApart DumpsWholeTransactions
