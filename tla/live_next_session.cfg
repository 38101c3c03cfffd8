SPECIFICATION Spec
CONSTANTS
    w1 = w1  w2 = w2  w3 = w3  p1 = p1  p2 = p2
    Worker = {w1, w2}
    Profile = {p1}
    ProfileOf <- OneProfile
    CompletedSession = {}
    Direct = {}
    Target = {t1}
    Release = {r1, r2}
    LastSession = 3
    MaxOrders = 1
    NoProfile = NoProfile  NoCommand = NoCommand  NoVerdict = NoVerdict
SYMMETRY Symmetric
INVARIANTS TypeOK SettledBeforeNext
PROPERTIES ImplementsDecisionBook OrphanBlocks ClaimedWhenDueAndBound
