\* A phone number, two requests at a time, two guesses a code, two codes an hour for the number and three for the network.
SPECIFICATION Spec
CONSTANTS
    Dests = {phone}
    Requests = {r1, r2}
    MaxAttempts = 2
    DestLimit = 2
    IpLimit = 3
    MaxCodes = 5
INVARIANTS FewGuesses FewCodes
CHECK_DEADLOCK FALSE
