SPECIFICATION FairSpec
CONSTANTS
    Exchanges = {e1, e2}
    NoOne = NoOne
    MaxFetches = 0
    MaxPending = 1
PROPERTIES
    StalledPeerNeverParks
