\* Liveness of the request lock under contention, and of probes (no symmetry).
SPECIFICATION FairSpec
CONSTANTS
    Exchanges = {e1, e2, e3}
    NoOne = NoOne
    MaxFetches = 0
    MaxPending = 2
PROPERTIES
    LockGranted
    ProbeAnswered
