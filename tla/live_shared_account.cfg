SPECIFICATION Spec
CONSTANTS
    w1 = w1  w2 = w2  w3 = w3  p1 = p1  p2 = p2
    Worker = {w1, w2, w3}
    Profile = {p1, p2}
    ProfileOf <- TwoAndOne
    CompletedSession = {p1}
    Direct = {p2}
    Target = {t1, t2}
    Release = {r1}
    LastSession = 1
    MaxOrders = 1
    NoProfile = NoProfile  NoCommand = NoCommand  NoVerdict = NoVerdict
SYMMETRY Pair
INVARIANTS OneCyclePerDecision OneAccountOwner
