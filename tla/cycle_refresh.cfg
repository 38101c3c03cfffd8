SPECIFICATION Spec
CONSTANTS
    soxl = soxl  soxx = soxx  boxx = boxx
    Asset <- RiskFirst
    Sweep = boxx
    Price <- ThreeToOne
    Targets <- OddTargets
    InitHold <- HoldsTwo
    InitCash = 1
    Scales = {1, 2}
    Substitutes = {FALSE}
    Threshold = 0  MinTrade = 0  SubstituteBelow = 0
    CashOnly = TRUE
    Attempts = 2
    Lots = {1, 4}
INVARIANTS TypeOK UnknownIsLast OrdersAreCovered NoSelfTrade
PROPERTIES BuysAreBounded
CHECK_DEADLOCK FALSE
