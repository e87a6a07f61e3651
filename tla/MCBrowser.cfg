SPECIFICATION FairSpec
CONSTANTS
    Page = {p1, p2}
    Key = {k1, k2}
    Hash = {hash}
    None = None
    HashOf <- MCHashOf
    MaxCalls = 2
    MaxHandle = 3
    Budgets <- MCBudgets
    IoPlans <- MCIoPlans
    UserData = {1, 2}
    MaxCap = 2
    MaxQueue = 2
    AskKey = {1, 2}
    HeapBase = 3
    Bases = {3, 13, 20}
    PageWords = 8
    MaxPages = 4
    PoolWords = 12
    Size = {1, 3}
    Align = {1, 2, 4}
    MemPlans <- MCMemPlans
    Lives <- MCLives
INVARIANTS TypeOK CountsAgree HeldIsServed EndsOnce OwnData BlocksApart
PROPERTIES JoinSettles RowsFollow AllAnswered
