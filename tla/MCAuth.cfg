CONSTANTS
    Verifiers = {v1, v2}
    Senders = {s1, s2}
    Codes = {c1, c2}
    Cap = 1
    SendCap = 1
    InitialDevices = 1
    MaxRows = 2
    MaxAttempts = 3
    MaxOpen = 2
    SlowSends = FALSE
    SlowVerifications = TRUE
    email = email
    name = name
    capitals = capitals
    near = near
    far = far
    All = All
    Requests = {v1, v2}
    Typed = {email, name, capitals}
    Named = {email, name}
    Mailbox = email
    Accounts = {email, name}
    AccountOf <- MCAccountOf
    Ips = {near, far}
    PairCap = 1
    AccountCap = 2
    IpCap = 2
    IssueCap = 1
    Tokens = {t1, t2}
    NoToken = NoToken
    Scenes <- MCScenes
SPECIFICATION AuthSpec
SYMMETRY Symmetry
INVARIANTS WrongCodesBounded CodesDie AttemptsBounded LinksRevocable
CHECK_DEADLOCK FALSE
