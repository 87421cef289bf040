SPECIFICATION FairSpec
CONSTANTS
    App = app
    Senders = {s1, s2}
    MaxEntries = 2
    Ttl = 7
    Hello = 2
    Late = 1
    Transit = 1
    MaxLost = 1
INVARIANT HelloKeepsFresh
PROPERTIES SentToTheDue Reregisters
CHECK_DEADLOCK FALSE
