\* Three exchanges whose tools overlap two fetches each: every interleaving of
\* submissions, hand-overs of the lock, cancellations, early returns and stale tools.
SPECIFICATION Spec
CONSTANTS
    Exchanges = {e1, e2, e3}
    NoOne = NoOne
    MaxFetches = 2
    MaxPending = 1
SYMMETRY Symmetry
INVARIANTS
    TypeOK
    DriveHoldsLock
    LeftoversNeverServiced
    NoJobBehindThePeer
    ReplySenderHeld
PROPERTIES
    ResolvedOnce
    ServedInOrder
