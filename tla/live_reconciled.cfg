SPECIFICATION FairSpec
CONSTANTS
    w1 = w1  w2 = w2  w3 = w3  p1 = p1  p2 = p2
    Worker = {w1}
    Profile = {p1}
    ProfileOf <- OneProfile
    CompletedSession = {}
    Direct = {}
    Target = {t1}
    Release = {r1, r2}
    LastSession = 2
    MaxOrders = 2
    NoProfile = NoProfile  NoCommand = NoCommand  NoVerdict = NoVerdict
INVARIANTS FilledIsFilled
PROPERTIES SubmittedEnds
