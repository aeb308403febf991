\* Two threads as the code is built, of which only Start's is registered.
SPECIFICATION Spec
CONSTANTS
    N = 2
    Cycle = 6
    MaxBase = 3
    LIBGO_SYS_Unix = FALSE
INVARIANTS
    BalancesByLoad
