\* Tools that hang or return, with clients that stop reading or do not (no symmetry).
SPECIFICATION DriverSpec
CONSTANTS
    Exchanges = {e1, e2}
    NoOne = NoOne
    MaxFetches = 2
    MaxPending = 2
PROPERTIES
    HungToolReleased
    ProbeOutlastsTools
    ExchangeReachesTrailers
