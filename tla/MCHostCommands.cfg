SPECIFICATION Spec
CONSTANTS
    Requests = {r1, r2}
    Domains = {d1}
    Users = {u1}
    Passwords = {p1, p2}
    None = None
    MaxRequests = 3
    MaxFaults = 2
INVARIANT AccountStands
PROPERTIES OkMeansDone FailsForCause Answers
CHECK_DEADLOCK FALSE
