SPECIFICATION Spec
CONSTANTS
    Exchanges = {e1, e2}
    NoOne = NoOne
    MaxFetches = 1
    MaxPending = 1
INVARIANTS
    StaleToolsNeverServiced
