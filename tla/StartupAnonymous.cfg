CONSTANTS
    T1 = T1
    T2 = T2
    Short = Short
    Long = Long
    WithSpace = WithSpace
    Garbled = Garbled
    Empty = Empty
    None = None
    Names = {1, 2}
    Tokens <- MCTokens
    Length <- MCLength
    Spaced <- MCSpaced
    Policies <- MCPolicies
    Environments <- MCEnvironments
    Hosts <- MCHosts
    UsableHosts <- MCUsableHosts
    Databases <- MCDatabases
    Budgets <- MCBudgets
    Packages <- MCPackages
SPECIFICATION Spec
CHECK_DEADLOCK FALSE
INVARIANT NoAnonymousRemote
