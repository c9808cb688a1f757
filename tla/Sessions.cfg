\* Two browsers of one student with one device allowed, two requests at a time, one lost answer;
\* a session lives two ticks after its last use and a rotated-out token to the end of its tick.
SPECIFICATION Spec
CONSTANTS
    Devices = {d1, d2}
    Admins = {}
    Ids = {s1, s2}
    Requests = {r1, r2}
    MaxDevices = 1
    Grace = 0
    Ttl = 2
    MaxSecrets = 2
    MaxTime = 2
    MaxBroken = 1
SYMMETRY Symmetry
INVARIANTS DeviceLimit HonestStays CookieMatchesSession
PROPERTY RevokedStays
CHECK_DEADLOCK FALSE
