\* One browser with two tabs: both refresh the same cookie within the grace time.
SPECIFICATION Spec
CONSTANTS
    Devices = {d1}
    Admins = {}
    Ids = {s1}
    Requests = {r1, r2}
    MaxDevices = 1
    Grace = 1
    Ttl = 2
    MaxSecrets = 3
    MaxTime = 1
    MaxBroken = 0
INVARIANT RacingTabStays
CHECK_DEADLOCK FALSE
