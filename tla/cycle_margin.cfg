SPECIFICATION Spec
CONSTANTS
    soxl = soxl  soxx = soxx  boxx = boxx
    Asset <- RiskFirst
    Sweep = boxx
    Price <- SweepCheap
    Targets <- Retargets
    InitHold <- HoldsRisk
    InitCash <- MinusOne
    Scales = {1, 2}
    Substitutes = {FALSE}
    Threshold = 0  MinTrade = 0  SubstituteBelow = 0
    CashOnly = TRUE
    Attempts = 2
    Lots = {1, 4}
PROPERTIES NegativeCashSkipsBuys
CHECK_DEADLOCK FALSE
