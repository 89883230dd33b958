SPECIFICATION SchedulerSpec
CONSTANTS
    Accounts = {1, 2, 3}
    AccountStates <- MCAccountStates
    Levels = {0}
    Nil = Nil
INVARIANTS
    OrderIsRight
    NoRewardForLess
PROPERTIES
    RoundRobinFair
