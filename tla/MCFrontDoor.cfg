SPECIFICATION Spec
CONSTANTS
    Names = {"a", "b", "local"}
    Ports = {1, 2}
    Settings <- MCSettings
    DefaultHosts <- MCDefaultHosts
    MaxBody = 2
    MaxChunk = 2
INVARIANTS
    TypeOK
    OnlyWholeBodies
    GuardAsConfigured
PROPERTIES
    ProbeNeedsNoBody
