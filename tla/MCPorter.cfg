SPECIFICATION LiveSpec
CONSTANTS
    e1 = e1
    e2 = e2
    f1 = f1
    f2 = f2
    r1 = r1
    Porters = {p1, p2}
    Members = {m1}
    PlayerEvents = {e1, e2}
    PhoneEvents = {f1, f2}
    PodcastEvents <- MCPodcastEvents
    Unknown = {e1}
    Rejected <- MCRejected
    Busy <- MCBusy
    MaxLogins = 2
    MaxPages = 2
    MaxFailures = 1
INVARIANTS TypeOK EventsSavedOnce LoginLostOnlyIfMissed
PROPERTY EventsLeaveRedis
