SPECIFICATION Spec
CONSTANTS
    s1 = s1
    s2 = s2
    s3 = s3
    n1 = n1
    Sessions = {s1, s2, s3}
    Names = {n1}
    c1 = c1
    c2 = c2
    c3 = c3
    c4 = c4
    Clients = {c1, c2, c3, c4}
    Premium = {c1, c2}
    MaxPlayers = 1
    Slots <- MCSlots
    Times <- MCTimes
    Grace = 1
    MaxDrift = 2
INVARIANT ReleasedHasNone
