CONSTANTS
    JobIds = {j1, j2}
    Budgets = {1, 2}
SPECIFICATION FairSpec
CHECK_DEADLOCK FALSE
PROPERTIES
    
    CancellationEnds
